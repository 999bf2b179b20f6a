---------------------------- MODULE MCManagedFile ----------------------------
(* Instances of ManagedFile for TLC.                                        *)
EXTENDS ManagedFile, TLC

Plain == [dropIn |-> FALSE, mounted |-> FALSE, removeEmpty |-> TRUE]
MountedDropIn == [dropIn |-> TRUE, mounted |-> TRUE, removeEmpty |-> FALSE]
TwoSites == {Plain, MountedDropIn}
Symmetry == Permutations(Inodes) \cup Permutations(Foreign) \cup Permutations(Editors)
=============================================================================
