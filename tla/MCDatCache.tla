----------------------------- MODULE MCDatCache -----------------------------
(***************************************************************************)
(* DatCache for TLC.  A dat that met one of the windows is not followed    *)
(* further: every property leaves it out.                                  *)
(***************************************************************************)
EXTENDS DatCache

CONSTANTS t1, t2, d1

NotTorn == torn = {}
=============================================================================
