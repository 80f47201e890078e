------------------------------ MODULE MCServer ------------------------------
(***************************************************************************)
(* Server for TLC: session objects and filtering threads are model values. *)
(***************************************************************************)
EXTENDS Server, TLC

CONSTANTS s1, s2, t1, t2

(* Sessions and threads are each told apart by nothing but their names.    *)
Symmetry == Permutations(Session) \cup Permutations(Thread)
=============================================================================
