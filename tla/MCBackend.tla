----------------------------- MODULE MCBackend -----------------------------
(* Everything but the CLI and the probing thread is interchangeable, and no *)
(* liveness is checked.                                                     *)
EXTENDS Backend, TLC

Symmetric ==
  UNION {Permutations(Vcl), Permutations(Worker), Permutations(Sess), Permutations(Conn)}
=============================================================================
