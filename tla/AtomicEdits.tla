----------------------------- MODULE AtomicEdits -----------------------------
(***************************************************************************)
(* What the resources that share a configuration file promise each other:  *)
(* every change of the file adds or removes what one of them manages, and  *)
(* leaves what the others manage as it is.                                 *)
(***************************************************************************)
CONSTANT Editors    \* each known by what it puts into the file

VARIABLE content    \* what is in the file

Init == content \in SUBSET Editors

Next == \E e \in Editors : content' \in {content \cup {e}, content \ {e}}

Spec == Init /\ [][Next]_content
=============================================================================
