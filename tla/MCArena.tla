------------------------------- MODULE MCArena -------------------------------
(* Instances of Arena for TLC.                                              *)
EXTENDS Arena

\* The sizes that cannot wrap.
ModestSizes == {s \in 0..(UszMod - 1) : ArenaSize + s < UszMod}
=============================================================================
