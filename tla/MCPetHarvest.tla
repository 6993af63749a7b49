----------------------------- MODULE MCPetHarvest -----------------------------
(***************************************************************************)
(* PetHarvest on two plots and two scanners.  Only the first plot is       *)
(* watered: which plot ripens first is open all the same.                  *)
(***************************************************************************)
EXTENDS PetHarvest

MCNext == Next /\ plots'[2].watered = 0

MCSpec == Init /\ [][MCNext]_vars /\ Fairness
=============================================================================
