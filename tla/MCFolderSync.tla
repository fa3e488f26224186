---------------------------- MODULE MCFolderSync ----------------------------
(* TLC instances of FolderSync: directory d with files a and b, and a file x *)
(* that the configuration excludes; directory e with a file b is created     *)
(* after the start.                                                          *)
EXTENDS FolderSync

d  == <<"d">>
da == <<"d", "a">>
db == <<"d", "b">>
dx == <<"d", "x">>
eb == <<"e", "b">>

MCNames == {"d", "e", "a", "b", "x"}
Pair == {da, db}
LatePair == {da, eb}
MCDirs == {d}
NoDirs == {}
MoreFiles == Pair \cup {dx}
MorePaths == MoreFiles \cup MCDirs
Excluded == {dx}
NoneExcluded == {}
LateFiles == {eb}
NoFiles == {}
ComeAndGo == {<<da, 1>>, <<db, 2>>, <<eb, 2>>}    \* a comes back, b does not
NoRemovals == {}
MCSortOrder == << Root, d, da, <<"e">>, eb >>
PairOrder == << Root, d, da, db >>
MoreOrder == << Root, d, da, db, dx >>
=============================================================================
