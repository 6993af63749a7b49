------------------------------ MODULE FarmField ------------------------------
(***************************************************************************)
(* The plots of one farm and the rules of its crops (applyCmd and          *)
(* domain.Plot): planting, watering, harvesting and stealing.  A command   *)
(* is one step here; how gamesvr makes it one is FarmCommit's subject.     *)
(*                                                                         *)
(* Time is relative: a plot keeps how long it has grown and how long it    *)
(* has to (now - PlantedAt, MatureAt - PlantedAt), in the minutes that a   *)
(* watering takes off.  All crops are of one configured kind.              *)
(***************************************************************************)
EXTENDS Integers, FiniteSetsExt, Tallies

CONSTANTS
    Plot,     \* plot numbers
    Duration, \* CropConfig.GrowthDuration
    Yield,    \* CropConfig.HarvestYield
    Parts     \* a thief takes one part in so many: 5 in the code

ASSUME FieldAssumption ==
    /\ Plot \subseteq Nat
    /\ Duration \in Nat /\ Duration > 2
    /\ {Yield, Parts} \subseteq Nat \ {0}

VARIABLES
    plots, \* domain.Snapshot.Plots
    owed   \* crops planted and credited to nobody yet

fieldVars == <<plots, owed>>

Empty == [planted |-> FALSE, elapsed |-> 0, total |-> 0, watered |-> 0, yield |-> 0]

\* EffectiveStatus
Mature(p) == plots[p].planted /\ plots[p].elapsed >= plots[p].total

MaturePlots == {p \in Plot : Mature(p)}

\* GrowthStage
Stage(q) ==
    IF q.elapsed >= q.total THEN "mature"
    ELSE IF q.elapsed * 2 >= q.total THEN "semi-mature"
    ELSE "seedling"

\* One watering counts in each of the first two stages, and the second only
\* after the first.
Watered(q) ==
    IF \/ Stage(q) = "seedling" /\ q.watered = 0
       \/ Stage(q) = "semi-mature" /\ q.watered = 1
    THEN [q EXCEPT !.total = @ - 1, !.watered = @ + 1]
    ELSE q

Share == Yield \div Parts

\* Mutant: thieves are forgotten at the harvest.
FullYield(q) == Yield

\* What the harvest credits: all that thieves have left.
HarvestedYield(q) == q.yield

FieldInit == plots = [p \in Plot |-> Empty] /\ owed = 0

Plant(p) ==
    /\ ~ plots[p].planted
    /\ plots' = [plots EXCEPT ![p] = [planted |-> TRUE, elapsed |-> 0,
                     total |-> Duration, watered |-> 0, yield |-> Yield]]
    /\ owed' = owed + Yield

\* Water, HelpWater
Water(p) ==
    /\ plots[p].planted
    /\ plots' = [plots EXCEPT ![p] = Watered(@)]
    /\ UNCHANGED owed

\* Harvest, and what PetAutoHarvest does to the plot
Harvest(p) ==
    /\ Mature(p)
    /\ plots' = [plots EXCEPT ![p] = Empty]
    /\ owed' = owed - HarvestedYield(plots[p])

\* The owner keeps something, whatever is stolen.
Steal(p) ==
    /\ Mature(p) /\ Share > 0 /\ plots[p].yield > Share
    /\ plots' = [plots EXCEPT ![p].yield = @ - Share]
    /\ owed' = owed - Share

\* Time passes; ripe is ripe.
Grown(q) == IF q.elapsed < q.total THEN [q EXCEPT !.elapsed = @ + 1] ELSE q

Grow ==
    /\ plots' = [p \in Plot |-> Grown(plots[p])]
    /\ UNCHANGED owed

-----------------------------------------------------------------------------

\* A planted plot has lost one unit of growth for each watering that counted,
\* at most two, grows until it is ripe and keeps at least one crop
\* (waterByGrowthStage, StealCrop).
PlotOK(q) ==
    IF q.planted THEN /\ q.total = Duration - q.watered
                      /\ q.elapsed <= q.total
                      /\ q.yield > 0
                 ELSE q = Empty

FieldTypeOK ==
    /\ plots \in [Plot -> [planted : BOOLEAN, elapsed : 0..Duration,
                     total : 0..Duration, watered : 0..2, yield : 0..Yield]]
    /\ \A p \in Plot : PlotOK(plots[p])

\* Crops are neither lost nor made: what has been planted and neither
\* harvested nor stolen still stands (applyCmd, applyEconomicSideEffects).
CropsConserved == owed = Tally([p \in Plot |-> plots[p].yield])
=============================================================================
