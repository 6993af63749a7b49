---------------------------- MODULE MCFarmCommit ----------------------------
(***************************************************************************)
(* FarmCommit on two instances and two gamesvr transactions, in one of two *)
(* scenarios: one id sent twice (plant, then again with a fresher base     *)
(* version under the same cmd_id) with a database retry, or a command      *)
(* without a receipt beside the pet scanner's, which may be rescheduled.   *)
(***************************************************************************)
EXTENDS FarmCommit, TLC

CONSTANTS plant, again, water, pet, i1, i2, s1, s2

VARIABLE scenario   \* the commands that are sent

MCCmd == {plant, again, water, pet}
MCKeyOf == plant :> 1 @@ again :> 1 @@ water :> 1 @@ pet :> 2
MCKind == plant :> "receipt" @@ again :> "receipt" @@ water :> "plain" @@ pet :> "pet"

MCInst == {i1, i2}
MCSlot == {s1, s2}

ResendCmd == {plant, again}
MixedCmd == {water, pet}

mcVars == <<vars, scenario>>

MCInit == Init /\ scenario \in {ResendCmd, MixedCmd}

\* Only the scenario's commands are sent, at versions 0 and 1 (each scenario
\* makes at most two versions).  When one id is sent twice the second base is the
\* fresher one, and a database error is retried; beside a plain command the
\* pet's is read under the first schedule, which may move once, and instances
\* keep what they have loaded.
MCNext ==
    /\ Next
    /\ UNCHANGED scenario
    /\ \A c \in Cmd \ scenario : base'[c] = Unsent
    /\ \A c \in scenario : base'[c] <= 1
    /\ scenario = ResendCmd =>
           /\ petTurn' = 0
           /\ base'[again] # Unsent => base'[plant] = 0 /\ base'[again] = 1
    /\ scenario = MixedCmd =>
           /\ \A s \in Slot : tx'[s].try = 1
           /\ base'[pet] <= 0 /\ petTurn' <= 1
           /\ \A i \in Inst : hot[i].loaded => hot'[i].loaded

MCSpec == MCInit /\ [][MCNext]_mcVars

Symmetry == Permutations(MCInst) \cup Permutations(MCSlot)
=============================================================================
