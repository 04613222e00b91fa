--------------------------- MODULE AtomicActivation ---------------------------
(***************************************************************************)
(* What activate_staged_configuration promises to the rest of the Engine,  *)
(* with none of its file system calls: the published configuration is one  *)
(* whole generation, it is replaced in a single step, and only ever by a   *)
(* generation staged later.  Generation 0 is the empty tree of a fresh     *)
(* installation.                                                           *)
(***************************************************************************)
EXTENDS Naturals

VARIABLE published

Init == published = 0

(* Replace the whole tree by a later generation.                           *)
Publish == published' \in Nat /\ published' > published

Spec == Init /\ [][Publish]_published
===============================================================================
