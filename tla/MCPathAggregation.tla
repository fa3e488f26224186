-------------------------- MODULE MCPathAggregation --------------------------
(* TLC instance of ChangeBatch: the tree  a/b/x, a/c/e, a/c/f  with the folder *)
(* itself, a name that sorts before "." and one that sorts between a and its   *)
(* contents ('-' is 0x2d, '.' 0x2e, '/' 0x2f).                                 *)
EXTENDS ChangeBatch

TreeOrder == << Root, <<"-">>, Dot, <<"a">>, <<"a-">>, <<"a","b">>, <<"a","b","x">>,
                <<"a","c">>, <<"a","c","e">>, <<"a","c","f">> >>
=============================================================================
