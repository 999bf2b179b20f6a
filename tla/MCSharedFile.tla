---------------------------- MODULE MCSharedFile ----------------------------
(* Instances of SharedFile for TLC: a file that is reached by its path and  *)
(* through a symlink to its directory.                                      *)
EXTENDS SharedFile, TLC

CONSTANTS e1, e2, e3, direct, link

Three == (e1 :> direct) @@ (e2 :> link) @@ (e3 :> link)
Plain == [dropIn |-> FALSE, mounted |-> FALSE, removeEmpty |-> TRUE]
OneSite == {Plain}
Symmetry == Permutations(Inodes)
=============================================================================
