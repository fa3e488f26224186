-------------------------- MODULE MCConfiguration --------------------------
(* TLC instance of Configuration: two ids, one with a label of its own, and *)
(* filters as in config.xml: everything but scripts, no objects.            *)
EXTENDS Configuration

MCIds == {"src", "dst"}
MCLabel == [id \in MCIds |-> IF id = "src" THEN "Dropbox" ELSE id]
MCItems == {"!**.sh", "**", "**.o"}
MCIncludes == {"!**.sh"}
MCNames == {"a.sh", "a.o", "a.txt"}
MCMatch == {<<"!**.sh", "a.sh">>, <<"**.o", "a.o">>} \cup ({"**"} \X MCNames)
MCStar == ("!**.sh" :> "*.sh") @@ ("**" :> "*") @@ ("**.o" :> "*.o")
MCRsyncMatch == {<<"*.sh", "a.sh">>, <<"*.o", "a.o">>} \cup ({"*"} \X MCNames)
MCGlobals == << "**.o" >>
MCDrafts == {[own |-> << >>, monitor |-> "no"],
             [own |-> << "!**.sh", "**" >>, monitor |-> ""]}
MCWatchFolders == {"src", "Dropbox"}
MCSkipFolders == {}
=============================================================================
