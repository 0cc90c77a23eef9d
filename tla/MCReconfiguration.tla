---- MODULE MCReconfiguration ----
(***************************************************************************)
(* Reconfiguration for model checking: neither two requests nor two        *)
(* screens differ in anything but their names.                             *)
(***************************************************************************)
EXTENDS Reconfiguration, TLC

Symmetry == Permutations(Requests) \cup Permutations(Screens)
====
