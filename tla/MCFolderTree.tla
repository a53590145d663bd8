---------------------------- MODULE MCFolderTree ----------------------------
EXTENDS FolderTree

\* A root with two children, one of which has a child.
MCFolderOrder == <<"root", "left", "leaf", "right">>
MCParent == [f \in Folders |-> CASE f = "root" -> None [] f = "leaf" -> "left" [] OTHER -> "root"]
MCDocs == {"d1", "d2"}
MCSourceOf == [d \in MCDocs |-> IF d = "d1" THEN "s" ELSE "t"]
MCHeld == {{In("root", "d1"), In("leaf", "d1"), In("right", "d2")},
           {In("left", "d1"), In("root", "d1"), In("root", "d2")}}
=============================================================================
