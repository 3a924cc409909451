---- MODULE MCRemuneration ----
(***************************************************************************)
(* Small instances of Remuneration.                                        *)
(***************************************************************************)
EXTENDS Remuneration, TLC

CONSTANTS s1, s2, m1, m2, a1
=============================================================================
