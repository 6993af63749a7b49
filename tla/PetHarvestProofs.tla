--------------------------- MODULE PetHarvestProofs ---------------------------
(***************************************************************************)
(* PetHarvest: types, the crops of the field, and the pace of the pet, for *)
(* any farm, interval, jitter, lease, and number of scanners and faults.   *)
(***************************************************************************)
EXTENDS PetHarvest, TallyProofs, WellFoundedInduction

\* Min, where time is counted.
LEMMA MinOfTwo ==
    ASSUME NEW a \in Int, NEW b \in Int
    PROVE  Min({a, b}) = IF a <= b THEN a ELSE b
  BY DEF Min

\* Min, where a plot is picked.
LEMMA MinOfPlots ==
    ASSUME NEW S \in SUBSET Nat, S # {}
    PROVE  Min(S) \in S
  <1>1. PICK n \in S : \A m \in S : <<m, n>> \notin OpToRel(<, Nat)
    BY NatLessThanWellFounded, WFMin
  <1>2. OpToRel(<, Nat) = {w \in Nat \X Nat : w[1] < w[2]}
    BY Zenon DEF OpToRel
  <1>3. \A m \in S : n <= m
    <2> SUFFICES ASSUME NEW m \in S, ~ (n <= m) PROVE FALSE
      OBVIOUS
    <2>1. <<m, n>> \in {w \in Nat \X Nat : w[1] < w[2]}
      OBVIOUS
    <2> QED BY <1>1, <1>2, <2>1
  <1> QED BY <1>3 DEF Min

-----------------------------------------------------------------------------
(* The field.                                                              *)

PlotType == [planted : BOOLEAN, elapsed : 0..Duration, total : 0..Duration,
             watered : 0..2, yield : 0..Yield]

\* A watering that counts.
LEMMA WateredRecord ==
    ASSUME NEW q \in PlotType, q.total > 0, q.watered < 2
    PROVE  LET r == [q EXCEPT !.total = @ - 1, !.watered = @ + 1] IN
           /\ r \in PlotType
           /\ r.planted = q.planted /\ r.elapsed = q.elapsed /\ r.yield = q.yield
           /\ r.total = q.total - 1 /\ r.watered = q.watered + 1
  <1> DEFINE a == [q EXCEPT !.total = @ - 1]
             r == [q EXCEPT !.total = @ - 1, !.watered = @ + 1]
  <1> USE FieldAssumption DEF PlotType
  <1>1. a \in PlotType /\ a.watered = q.watered
    OBVIOUS
  <1>2. r = [a EXCEPT !.watered = @ + 1]
    BY <1>1
  <1> HIDE DEF a
  <1>3. [a EXCEPT !.watered = @ + 1] \in PlotType
    BY <1>1
  <1> QED BY <1>2, <1>3 DEF a

LEMMA WateredPlot ==
    ASSUME NEW q \in PlotType, PlotOK(q), q.planted
    PROVE  Watered(q) \in PlotType /\ PlotOK(Watered(q))
  <1>1. q.total = Duration - q.watered /\ q.elapsed <= q.total /\ q.yield > 0
    BY DEF PlotOK
  <1>2. q.elapsed \in Nat /\ q.total \in Nat /\ q.watered \in 0..2
    BY FieldAssumption DEF PlotType
  <1>3. CASE Watered(q) = q
    BY <1>3
  <1>4. CASE Watered(q) # q
    <2> DEFINE r == [q EXCEPT !.total = @ - 1, !.watered = @ + 1]
    <2>1. Watered(q) = r /\ q.elapsed < q.total /\ q.watered < 2
      BY <1>2, <1>4 DEF Watered, Stage
    <2>0. q.total > 0
      BY <1>2, <2>1
    <2>2. r \in PlotType /\ r.planted = q.planted /\ r.elapsed = q.elapsed
          /\ r.yield = q.yield /\ r.total = q.total - 1 /\ r.watered = q.watered + 1
      BY <2>0, <2>1, WateredRecord, Zenon
    <2> HIDE DEF r
    <2>3. PlotOK(r)
      BY <1>1, <1>2, <2>1, <2>2, FieldAssumption DEF PlotOK
    <2> QED BY <2>1, <2>2, <2>3
  <1> QED BY <1>3, <1>4

LEMMA GrownPlot ==
    ASSUME NEW q \in PlotType, PlotOK(q)
    PROVE  Grown(q) \in PlotType /\ PlotOK(Grown(q))
  <1>1. CASE q.elapsed < q.total
    <2> DEFINE r == [q EXCEPT !.elapsed = @ + 1]
    <2>1. q.elapsed \in Nat /\ q.total \in 0..Duration /\ q.planted
      BY <1>1, FieldAssumption DEF PlotOK, PlotType, Empty
    <2>2. r \in PlotType /\ r.elapsed = q.elapsed + 1
      BY <1>1, <2>1, FieldAssumption DEF PlotType
    <2>3. r.planted = q.planted /\ r.total = q.total /\ r.watered = q.watered
          /\ r.yield = q.yield
      BY DEF PlotType
    <2> HIDE DEF r
    <2>4. PlotOK(r)
      BY <1>1, <2>1, <2>2, <2>3 DEF PlotOK
    <2> QED BY <1>1, <2>2, <2>4 DEF Grown, r
  <1>2. CASE ~ (q.elapsed < q.total)
    BY <1>2 DEF Grown
  <1> QED BY <1>1, <1>2

LEMMA EmptyPlot == Empty \in PlotType /\ PlotOK(Empty)
  BY FieldAssumption DEF PlotType, PlotOK, Empty

LEMMA StolenPlot ==
    ASSUME NEW q \in PlotType, PlotOK(q), q.planted, Share > 0, q.yield > Share
    PROVE  /\ [q EXCEPT !.yield = @ - Share] \in PlotType
           /\ PlotOK([q EXCEPT !.yield = @ - Share])
  <1> DEFINE r == [q EXCEPT !.yield = @ - Share]
  <1>1. Share \in Nat /\ q.yield \in 0..Yield
    BY FieldAssumption DEF Share, PlotType
  <1>2. r \in PlotType /\ r.yield > 0
    BY <1>1, FieldAssumption DEF PlotType
  <1>3. r.planted = q.planted /\ r.total = q.total /\ r.watered = q.watered
        /\ r.elapsed = q.elapsed
    BY DEF PlotType
  <1> HIDE DEF r
  <1>4. PlotOK(r)
    BY <1>2, <1>3 DEF PlotOK
  <1> QED BY <1>2, <1>4 DEF r

\* The rules of the field keep its plots well-formed.
LEMMA FieldStep ==
    ASSUME FieldTypeOK, NEW p \in Plot,
           Plant(p) \/ Water(p) \/ Harvest(p) \/ Steal(p)
    PROVE  FieldTypeOK'
  <1> DEFINE q == plots[p]
  <1>1. q \in PlotType /\ PlotOK(q) /\ plots \in [Plot -> PlotType]
    BY DEF FieldTypeOK, PlotType
  <1>2. SUFFICES ASSUME NEW r, plots' = [plots EXCEPT ![p] = r],
                        r \in PlotType, PlotOK(r)
                 PROVE  FieldTypeOK'
    <2>1. CASE Plant(p)
      <3> DEFINE r == [planted |-> TRUE, elapsed |-> 0, total |-> Duration,
                       watered |-> 0, yield |-> Yield]
      <3>1. r \in PlotType /\ PlotOK(r)
        BY FieldAssumption DEF PlotType, PlotOK
      <3> QED BY <1>2, <2>1, <3>1 DEF Plant
    <2>2. CASE Water(p)
      BY <1>1, <1>2, <2>2, WateredPlot DEF Water
    <2>3. CASE Harvest(p)
      BY <1>2, <2>3, EmptyPlot DEF Harvest
    <2>4. CASE Steal(p)
      BY <1>1, <1>2, <2>4, StolenPlot DEF Steal, Mature
    <2> QED BY <2>1, <2>2, <2>3, <2>4
  <1> QED BY <1>1, <1>2 DEF FieldTypeOK, PlotType

LEMMA GrowStep ==
    ASSUME FieldTypeOK, Grow
    PROVE  FieldTypeOK'
  <1>1. plots \in [Plot -> PlotType] /\ \A p \in Plot : PlotOK(plots[p])
    BY DEF FieldTypeOK, PlotType
  <1>2. \A p \in Plot : Grown(plots[p]) \in PlotType /\ PlotOK(Grown(plots[p]))
    BY <1>1, GrownPlot
  <1> QED BY <1>2 DEF Grow, FieldTypeOK, PlotType

-----------------------------------------------------------------------------
(* Types.                                                                  *)

ScanType == [step : {"idle", "claimed"}, current : BOOLEAN,
             seen : [Plot -> 0..Duration \cup {Never}]]

\* TypeOK without the farm.
PetTypeOK ==
    /\ pet \in {"none", "on", "off"}
    /\ due \in 0..(Interval + Jitter) \cup {Never}
    /\ lease \in [by : Scanner \cup {Nobody}, left : 0..LeaseTTL]
    /\ scan \in [Scanner -> ScanType]
    /\ commands \subseteq [plot : Plot, current : BOOLEAN]
    /\ present \in BOOLEAN
    /\ since \in 0..Interval
    /\ faults \in 0..MaxFaults

LEMMA TypeSplit == TypeOK <=> FieldTypeOK /\ PetTypeOK
  BY DEF TypeOK, PetTypeOK, ScanType

LEMMA InitTypes == Init => TypeOK
  <1>1. ASSUME FieldInit PROVE FieldTypeOK
    BY <1>1, EmptyPlot DEF FieldInit, FieldTypeOK, PlotType
  <1>2. ASSUME Init PROVE PetTypeOK
    BY <1>2, PetAssumption DEF Init, PetTypeOK, ScanType, NoLease, Idle
  <1> QED BY <1>1, <1>2, TypeSplit DEF Init

\* A new schedule forgets whose claims were for the old one.
LEMMA ScheduleTypes ==
    ASSUME PetTypeOK, NEW d \in 0..(Interval + Jitter) \cup {Never}, SetSchedule(d)
    PROVE  /\ due' \in 0..(Interval + Jitter) \cup {Never}
           /\ lease' \in [by : Scanner \cup {Nobody}, left : 0..LeaseTTL]
           /\ scan' \in [Scanner -> ScanType]
  <1>1. \A s \in Scanner : [scan[s] EXCEPT !.current = FALSE] \in ScanType
    BY DEF PetTypeOK, ScanType
  <1>2. scan' \in [Scanner -> ScanType]
    BY <1>1 DEF SetSchedule
  <1>3. lease' \in [by : Scanner \cup {Nobody}, left : 0..LeaseTTL]
    BY PetAssumption DEF SetSchedule, NoLease
  <1> QED BY <1>2, <1>3 DEF SetSchedule

LEMMA StaleTypes ==
    ASSUME NEW C \in SUBSET [plot : Plot, current : BOOLEAN]
    PROVE  Stale(C) \subseteq [plot : Plot, current : BOOLEAN]
  BY DEF Stale

\* What is left until an instant shrinks to zero.
LEMMA LessTypes ==
    ASSUME NEW n \in Nat, NEW k \in 0..n \cup {Never}
    PROVE  Less(k) \in 0..n \cup {Never} /\ (k \in 0..n => Less(k) \in 0..n)
  BY PetAssumption DEF Less

LEMMA FaultTypes ==
    ASSUME PetTypeOK, Fault
    PROVE  faults' \in 0..MaxFaults
  BY PetAssumption DEF PetTypeOK, Fault

\* The switches, the scanners and the commands: what does not touch the plots.
LEMMA SwitchTypes ==
    ASSUME PetTypeOK, SwitchOn \/ SwitchOff \/ Leave
    PROVE  PetTypeOK'
  <1>1. CASE SwitchOn
    <2>1. PICK d \in FirstInstants : SetSchedule(d)
      BY <1>1 DEF SwitchOn
    <2>2. d \in 0..(Interval + Jitter) \cup {Never}
      BY PetAssumption DEF FirstInstants
    <2>3. commands' \subseteq [plot : Plot, current : BOOLEAN]
      BY <1>1, StaleTypes DEF PetTypeOK, SwitchOn
    <2> QED BY <1>1, <2>1, <2>2, <2>3, ScheduleTypes DEF PetTypeOK, SwitchOn
  <1>2. CASE SwitchOff
    <2>1. commands' \subseteq [plot : Plot, current : BOOLEAN]
      BY <1>2, StaleTypes DEF PetTypeOK, SwitchOff
    <2> QED BY <1>2, <2>1, ScheduleTypes DEF PetTypeOK, SwitchOff
  <1>3. CASE Leave
    BY <1>3 DEF Leave, PetTypeOK
  <1> QED BY <1>1, <1>2, <1>3

LEMMA ScanTypes ==
    ASSUME FieldTypeOK, PetTypeOK, NEW s \in Scanner, Scan(s) \/ Crash(s)
    PROVE  PetTypeOK'
  <1> USE PetAssumption
  <1>1. Idle \in ScanType
    BY DEF Idle, ScanType
  <1>2. CASE ClaimDue(s)
    <2> DEFINE left == [p \in Plot |-> IF plots[p].planted
                            THEN plots[p].total - plots[p].elapsed ELSE Never]
    <2>1. \A p \in Plot : plots[p] \in PlotType /\ PlotOK(plots[p])
      BY DEF FieldTypeOK, PlotType
    <2>2. \A p \in Plot : plots[p].planted =>
            plots[p].total - plots[p].elapsed \in 0..Duration
      BY <2>1, FieldAssumption DEF PlotOK, PlotType
    <2>3. left \in [Plot -> 0..Duration \cup {Never}]
      BY <2>2
    <2>4. [step |-> "claimed", current |-> TRUE, seen |-> left] \in ScanType
      BY <2>3 DEF ScanType
    <2> HIDE DEF left
    <2>5. scan' \in [Scanner -> ScanType]
      BY <1>2, <2>4 DEF PetTypeOK, ClaimDue, left
    <2> QED BY <1>2, <2>5 DEF PetTypeOK, ClaimDue
  <1>3. CASE GiveUp(s)
    BY <1>1, <1>3 DEF PetTypeOK, GiveUp
  <1>4. CASE SubmitCommand(s)
    <2>1. Min(SeenMature(s)) \in Plot
      BY <1>4, MinOfPlots, FieldAssumption DEF SubmitCommand, SeenMature
    <2>2. scan[s].current \in BOOLEAN
      BY DEF PetTypeOK, ScanType
    <2>3. scan' \in [Scanner -> ScanType]
      BY <1>1, <1>4 DEF PetTypeOK, SubmitCommand
    <2>4. lease' \in [by : Scanner \cup {Nobody}, left : 0..LeaseTTL]
      BY <1>4 DEF PetTypeOK, SubmitCommand
    <2> QED BY <1>4, <2>1, <2>2, <2>3, <2>4 DEF PetTypeOK, SubmitCommand
  <1>5. CASE PushNext(s)
    <2>1. \A t \in Scanner : [scan[t] EXCEPT !.current = FALSE] \in ScanType
      BY DEF PetTypeOK, ScanType
    <2>2. scan' \in [Scanner -> ScanType]
      BY <1>1, <1>5, <2>1 DEF PushNext
    <2>3. commands' \subseteq [plot : Plot, current : BOOLEAN]
      BY <1>5, StaleTypes DEF PetTypeOK, PushNext
    <2>4. lease' \in [by : Scanner \cup {Nobody}, left : 0..LeaseTTL]
      BY <1>5 DEF PushNext, NoLease
    <2> QED BY <1>5, <2>2, <2>3, <2>4 DEF PetTypeOK, PushNext
  <1>6. CASE Crash(s)
    BY <1>1, <1>6, FaultTypes DEF PetTypeOK, Crash
  <1> QED BY <1>2, <1>3, <1>4, <1>5, <1>6 DEF Scan

LEMMA CommandTypes ==
    ASSUME PetTypeOK, NEW c \in commands,
           PetAutoHarvest(c) \/ Refuse(c) \/ Lose(c)
    PROVE  PetTypeOK'
  <1>1. CASE PetAutoHarvest(c)
    <2>1. Interval \in 0..(Interval + Jitter) \cup {Never}
      BY PetAssumption
    <2>2. commands' \subseteq [plot : Plot, current : BOOLEAN]
      BY <1>1, StaleTypes DEF PetTypeOK, PetAutoHarvest
    <2>3. since' \in 0..Interval
      BY <1>1, PetAssumption DEF PetAutoHarvest
    <2> QED BY <1>1, <2>1, <2>2, <2>3, ScheduleTypes DEF PetTypeOK, PetAutoHarvest
  <1>2. CASE Refuse(c)
    BY <1>2 DEF PetTypeOK, Refuse
  <1>3. CASE Lose(c)
    BY <1>3, FaultTypes DEF PetTypeOK, Lose
  <1> QED BY <1>1, <1>2, <1>3

LEMMA TickTypes ==
    ASSUME PetTypeOK, Tick
    PROVE  PetTypeOK'
  <1> USE PetAssumption DEF PetTypeOK, Tick
  <1>1. due' \in 0..(Interval + Jitter) \cup {Never}
    BY LessTypes
  <1>2. lease' \in [by : Scanner \cup {Nobody}, left : 0..LeaseTTL]
    <2>1. lease.left \in 0..LeaseTTL
      OBVIOUS
    <2>2. Less(lease.left) \in 0..LeaseTTL
      BY <2>1, LessTypes
    <2> QED BY <2>2
  <1>3. ASSUME NEW s \in Scanner
        PROVE  [scan[s] EXCEPT !.seen = [p \in Plot |-> Less(scan[s].seen[p])]]
                   \in ScanType
    <2>1. scan[s] \in ScanType
      OBVIOUS
    <2>2. \A p \in Plot : Less(scan[s].seen[p]) \in 0..Duration \cup {Never}
      BY <2>1, LessTypes, FieldAssumption DEF ScanType
    <2> QED BY <2>1, <2>2 DEF ScanType
  <1>4. scan' \in [Scanner -> ScanType]
    BY <1>3
  <1>5. since' \in 0..Interval
    <2>1. since + 1 \in Nat /\ Interval \in Nat
      OBVIOUS
    <2>2. Min({since + 1, Interval}) =
              IF since + 1 <= Interval THEN since + 1 ELSE Interval
      BY <2>1, MinOfTwo
    <2>3. since' = Min({since + 1, Interval})
      OBVIOUS
    <2> QED BY <2>1, <2>2, <2>3
  <1>6. faults' \in 0..MaxFaults
    BY FaultTypes
  <1> QED BY <1>1, <1>2, <1>4, <1>5, <1>6

LEMMA StepTypes == TypeOK /\ [Next]_vars => TypeOK'
  <1> SUFFICES ASSUME FieldTypeOK, PetTypeOK, [Next]_vars
               PROVE  FieldTypeOK' /\ PetTypeOK'
    BY DEF TypeOK, PetTypeOK, ScanType
  <1>1. CASE SwitchOn \/ SwitchOff \/ Leave
    BY <1>1, SwitchTypes DEF FieldTypeOK, fieldVars, SwitchOn, SwitchOff, Leave
  <1>2. CASE Tick
    BY <1>2, TickTypes, GrowStep DEF Tick
  <1>3. ASSUME NEW s \in Scanner, Scan(s) \/ Crash(s)
        PROVE  FieldTypeOK' /\ PetTypeOK'
    BY <1>3, ScanTypes
    DEF FieldTypeOK, fieldVars, Scan, ClaimDue, GiveUp, SubmitCommand, PushNext, Crash
  <1>4. ASSUME NEW c \in commands, PetAutoHarvest(c) \/ Refuse(c) \/ Lose(c)
        PROVE  FieldTypeOK' /\ PetTypeOK'
    <2>1. c.plot \in Plot
      BY DEF PetTypeOK
    <2>2. FieldTypeOK'
      BY <1>4, <2>1, FieldStep
      DEF FieldTypeOK, fieldVars, PetAutoHarvest, Refuse, Lose
    <2> QED BY <1>4, <2>2, CommandTypes
  <1>5. ASSUME NEW p \in Plot, OwnerCommand(p) \/ FriendCommand(p)
        PROVE  FieldTypeOK' /\ PetTypeOK'
    <2>1. FieldTypeOK'
      BY <1>5, FieldStep DEF OwnerCommand, FriendCommand
    <2> QED BY <1>5, <2>1 DEF OwnerCommand, FriendCommand, petVars, PetTypeOK
  <1>6. CASE UNCHANGED vars
    BY <1>6 DEF vars, FieldTypeOK, PetTypeOK
  <1> QED BY <1>1, <1>2, <1>3, <1>4, <1>5, <1>6 DEF Next

\* TypeOK in every reachable state: in particular a plot never loses more
\* growth than its two waterings and never its last crop to thieves.
THEOREM PetTypes == Spec => []TypeOK
  BY InitTypes, StepTypes, PTL DEF Spec

-----------------------------------------------------------------------------
(* The crops.                                                              *)

Yields == [p \in Plot |-> plots[p].yield]

ConserveInv == IsFiniteSet(Units(Yields)) /\ CropsConserved

\* One plot's crops more or less.
LEMMA YieldChange ==
    ASSUME NEW f \in [Plot -> Nat], NEW g \in [Plot -> Nat], NEW p \in Plot,
           IsFiniteSet(Units(f)), \A q \in Plot \ {p} : g[q] = f[q]
    PROVE  /\ IsFiniteSet(Units(g)) /\ Tally(f) \in Nat
           /\ Tally(g) = Tally(f) - f[p] + g[p]
  <1>1. f \in [Plot -> Int] /\ g \in [Plot -> Int]
    OBVIOUS
  <1>2. Tally(g) = Tally(f) - (IF f[p] > 0 THEN f[p] ELSE 0)
                            + (IF g[p] > 0 THEN g[p] ELSE 0)
    BY <1>1, TallyChange
  <1>3. IsFiniteSet(Units(g)) /\ Tally(f) \in Nat
    BY <1>1, TallyChange
  <1> QED BY <1>2, <1>3

\* What is credited comes off a plot, and what is planted comes on it.
LEMMA FieldConserves ==
    ASSUME FieldTypeOK, FieldTypeOK', ConserveInv, NEW p \in Plot,
           Plant(p) \/ Water(p) \/ Harvest(p) \/ Steal(p)
    PROVE  ConserveInv'
  <1>1. /\ plots \in [Plot -> PlotType] /\ plots' \in [Plot -> PlotType]
        /\ PlotOK(plots[p]) /\ Yield \in Nat /\ Share \in Nat
    BY FieldAssumption DEF FieldTypeOK, PlotType, Share
  <1>2. \A q \in Plot \ {p} : plots'[q] = plots[q]
    BY <1>1 DEF Plant, Water, Harvest, Steal
  <1>3. owed' = owed - plots[p].yield + plots'[p].yield
    <2>1. owed \in Nat /\ plots[p].yield \in Nat
      <3>1. Yields \in [Plot -> Nat] /\ IsFiniteSet(Units(Yields)) /\ owed = Tally(Yields)
        BY <1>1, FieldAssumption DEF Yields, ConserveInv, CropsConserved, PlotType
      <3> QED BY <1>1, <3>1, YieldChange, FieldAssumption DEF PlotType
    <2>2. CASE Plant(p)
      BY <1>1, <2>1, <2>2 DEF Plant, PlotOK, Empty
    <2>3. CASE Water(p)
      <3>1. plots'[p] = Watered(plots[p])
        BY <1>1, <2>3 DEF Water
      <3>2. Watered(plots[p]).yield = plots[p].yield
        BY <1>1 DEF Watered, PlotType
      <3> QED BY <2>1, <2>3, <3>1, <3>2 DEF Water
    <2>4. CASE Harvest(p)
      BY <1>1, <2>1, <2>4 DEF Harvest, HarvestedYield, Empty
    <2>5. CASE Steal(p)
      BY <1>1, <2>1, <2>5 DEF Steal, PlotType
    <2> QED BY <2>2, <2>3, <2>4, <2>5
  <1>4. Yields \in [Plot -> Nat] /\ Yields' \in [Plot -> Nat]
    BY <1>1, FieldAssumption DEF Yields, PlotType
  <1>5. /\ Yields[p] = plots[p].yield /\ Yields'[p] = plots'[p].yield
        /\ \A q \in Plot \ {p} : Yields'[q] = Yields[q]
    BY <1>2 DEF Yields
  <1>6. IsFiniteSet(Units(Yields)) /\ owed = Tally(Yields)
    BY DEF ConserveInv, CropsConserved, Yields
  <1>7. /\ IsFiniteSet(Units(Yields')) /\ Tally(Yields) \in Nat
        /\ Tally(Yields') = Tally(Yields) - Yields[p] + Yields'[p]
    BY <1>4, <1>5, <1>6, YieldChange
  <1>8. owed' = Tally(Yields')
    BY <1>3, <1>5, <1>6, <1>7
  <1> QED BY <1>7, <1>8 DEF ConserveInv, CropsConserved, Yields, Tally, Units

LEMMA SameYields ==
    ASSUME ConserveInv, Yields' = Yields, UNCHANGED owed
    PROVE  ConserveInv'
  BY DEF ConserveInv, CropsConserved, Yields, Tally, Units

LEMMA StepConserves == TypeOK /\ TypeOK' /\ ConserveInv /\ [Next]_vars => ConserveInv'
  <1> SUFFICES ASSUME FieldTypeOK, FieldTypeOK', PetTypeOK, ConserveInv, [Next]_vars
               PROVE  ConserveInv'
    BY TypeSplit DEF TypeOK
  <1>1. CASE UNCHANGED fieldVars
    BY <1>1, SameYields DEF fieldVars, Yields
  <1>2. CASE Tick
    <2>1. \A p \in Plot : Grown(plots[p]).yield = plots[p].yield
      BY DEF Grown, FieldTypeOK
    <2> QED BY <1>2, <2>1, SameYields DEF Tick, Grow, Yields
  <1>3. ASSUME NEW c \in commands, PetAutoHarvest(c) PROVE ConserveInv'
    <2>1. c.plot \in Plot
      BY DEF PetTypeOK
    <2> QED BY <1>3, <2>1, FieldConserves DEF PetAutoHarvest
  <1>4. ASSUME NEW p \in Plot, OwnerCommand(p) \/ FriendCommand(p) PROVE ConserveInv'
    BY <1>4, FieldConserves DEF OwnerCommand, FriendCommand
  <1>5. ASSUME NEW s \in Scanner, Scan(s) \/ Crash(s) PROVE UNCHANGED fieldVars
    BY <1>5 DEF Scan, ClaimDue, GiveUp, SubmitCommand, PushNext, Crash
  <1>6. ASSUME NEW c \in commands, Refuse(c) \/ Lose(c) PROVE UNCHANGED fieldVars
    BY <1>6 DEF Refuse, Lose
  <1>7. CASE SwitchOn \/ SwitchOff \/ Leave
    BY <1>1, <1>7 DEF SwitchOn, SwitchOff, Leave
  <1>8. CASE UNCHANGED vars
    BY <1>1, <1>8 DEF vars, fieldVars
  <1> QED BY <1>1, <1>2, <1>3, <1>4, <1>5, <1>6, <1>7, <1>8 DEF Next

\* Crops are neither lost nor made, however owner, thieves and the pet's late
\* commands meet on the plots (applyCmd, applyEconomicSideEffects).
THEOREM CropsAddUp == Spec => []CropsConserved
  <1>1. Init => ConserveInv
    <2> SUFFICES ASSUME Init PROVE ConserveInv
      OBVIOUS
    <2>1. \A p \in DOMAIN Yields : Yields[p] \in Int /\ Yields[p] <= 0
      BY DEF Init, FieldInit, Empty, Yields
    <2> QED BY <2>1, EmptyTally DEF Init, FieldInit, ConserveInv, CropsConserved, Yields
  <1> QED BY <1>1, StepConserves, PetTypes, PTL DEF Spec, ConserveInv

-----------------------------------------------------------------------------
(* The pace.                                                               *)

\* An instant is never nearer than what is left of the interval since the last
\* harvest: the schedule itself keeps the pace.
PaceInv ==
    /\ since \in 0..Interval
    /\ due \in Nat \cup {Never}
    /\ due # Never => due + since >= Interval

LEMMA InitPace == Init => PaceInv
  BY PetAssumption DEF Init, PaceInv

LEMMA StepPace == PaceInv /\ [Next]_vars => PaceInv'
  <1> SUFFICES ASSUME PaceInv, [Next]_vars PROVE PaceInv'
    OBVIOUS
  <1> USE PetAssumption DEF PaceInv
  <1>1. CASE SwitchOn
    <2>1. PICK d \in FirstInstants : SetSchedule(d)
      BY <1>1 DEF SwitchOn
    <2>2. due' = d /\ d \in Nat /\ d >= Interval /\ since' = since
      BY <1>1, <2>1 DEF SwitchOn, SetSchedule, FirstInstants
    <2> QED BY <2>2
  <1>2. CASE SwitchOff
    BY <1>2 DEF SwitchOff, SetSchedule
  <1>3. CASE Leave
    BY <1>3 DEF Leave
  <1>4. CASE Tick
    <2>1. since' = IF since + 1 <= Interval THEN since + 1 ELSE Interval
      BY <1>4, MinOfTwo DEF Tick
    <2>2. due' = IF due = Never \/ due = 0 THEN due ELSE due - 1
      BY <1>4 DEF Tick, Less
    <2> QED BY <2>1, <2>2
  <1>5. ASSUME NEW s \in Scanner, Scan(s) \/ Crash(s) PROVE PaceInv'
    <2>1. CASE PushNext(s)
      BY <2>1 DEF PushNext
    <2>2. CASE ClaimDue(s) \/ GiveUp(s) \/ SubmitCommand(s) \/ Crash(s)
      BY <2>2 DEF ClaimDue, GiveUp, SubmitCommand, Crash
    <2> QED BY <1>5, <2>1, <2>2 DEF Scan
  <1>6. ASSUME NEW c \in commands, PetAutoHarvest(c) \/ Refuse(c) \/ Lose(c)
        PROVE  PaceInv'
    <2>1. CASE PetAutoHarvest(c)
      BY <2>1 DEF PetAutoHarvest, SetSchedule
    <2>2. CASE Refuse(c) \/ Lose(c)
      BY <2>2 DEF Refuse, Lose
    <2> QED BY <1>6, <2>1, <2>2
  <1>7. ASSUME NEW p \in Plot, OwnerCommand(p) \/ FriendCommand(p) PROVE PaceInv'
    BY <1>7 DEF OwnerCommand, FriendCommand, petVars
  <1>8. CASE UNCHANGED vars
    BY <1>8 DEF vars
  <1> QED BY <1>1, <1>2, <1>3, <1>4, <1>5, <1>6, <1>7, <1>8 DEF Next

\* Only the pet's own command pays out and takes a command off its way.
LEMMA OnlyThePet ==
    ASSUME [Next]_vars, owed' # owed, commands' # commands
    PROVE  \E c \in commands : PetAutoHarvest(c)
  <1>1. ~ (SwitchOn \/ SwitchOff \/ Leave)
    BY DEF SwitchOn, SwitchOff, Leave, fieldVars
  <1>2. ~ Tick
    BY DEF Tick
  <1>3. ASSUME NEW s \in Scanner PROVE ~ (Scan(s) \/ Crash(s))
    BY DEF Scan, ClaimDue, GiveUp, SubmitCommand, PushNext, Crash, fieldVars
  <1>4. ASSUME NEW c \in commands PROVE ~ (Refuse(c) \/ Lose(c))
    BY DEF Refuse, Lose, fieldVars
  <1>5. ASSUME NEW p \in Plot PROVE ~ (OwnerCommand(p) \/ FriendCommand(p))
    BY DEF OwnerCommand, FriendCommand, petVars
  <1>6. ~ UNCHANGED vars
    BY DEF vars
  <1> QED BY <1>1, <1>2, <1>3, <1>4, <1>5, <1>6 DEF Next

\* PaceInv in every reachable state.
THEOREM PaceInvariance == Spec => []PaceInv
  BY InitPace, StepPace, PTL DEF Spec

\* The pet harvests only while it is on and an interval after its last harvest,
\* however claims, late commands and switches interleave (commitFarmCommandOnce,
\* PET_AUTO_HARVEST).
THEOREM PetKeepsPace == Spec => PetPaced
  <1>1. PaceInv /\ [Next]_vars =>
          [owed' # owed /\ commands' # commands => pet = "on" /\ since = Interval]_vars
    <2> SUFFICES ASSUME PaceInv, [Next]_vars, owed' # owed, commands' # commands
                 PROVE  pet = "on" /\ since = Interval
      OBVIOUS
    <2>1. PICK c \in commands : PetAutoHarvest(c)
      BY OnlyThePet
    <2> QED BY <2>1, PetAssumption DEF PetAutoHarvest, AcceptsCommand, PaceInv
  <1> QED BY <1>1, PaceInvariance, PTL DEF Spec, PetPaced
=============================================================================
