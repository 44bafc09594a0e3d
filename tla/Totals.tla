------------------------------- MODULE Totals -------------------------------
(***************************************************************************)
(* The sum of the values of a function, as the loops of the service add up *)
(* the tokens of the attempts of a graph or of a delivery.                 *)
(***************************************************************************)
EXTENDS FiniteSetsExt

Total(f) == MapThenSumSet(LAMBDA x : f[x], DOMAIN f)
=============================================================================
