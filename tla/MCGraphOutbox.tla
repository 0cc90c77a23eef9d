---- MODULE MCGraphOutbox ----
(***************************************************************************)
(* Small instances of GraphOutbox for TLC, with the invariant of its       *)
(* proofs.                                                                 *)
(***************************************************************************)
EXTENDS GraphOutbox_proofs, TLC

ThreadSymmetry == Permutations(Threads)
====
