----------------------------- MODULE PetHarvest -----------------------------
(***************************************************************************)
(* The pet that harvests while its owner is away.  The farm row carries    *)
(* when the pet acts next and a lease; scanners on several workersvr       *)
(* processes claim the row when it is due, pick the first ripe plot from   *)
(* the snapshot they read with it, and send a command that gamesvr checks  *)
(* again.  The owner meanwhile farms, and switches the pet on and off.     *)
(*                                                                         *)
(* Instants are relative to now.  An instant at which the pet acts is      *)
(* never scheduled again, so a scanner and a command remember only whether *)
(* theirs is still the row's (`current`); a claim token likewise.          *)
(***************************************************************************)
EXTENDS FarmField

CONSTANTS
    Scanner,
    Nobody,
    Never,     \* next_pet_action_at is NULL; a plot without a crop
    Interval,  \* petdomain.PetAutoHarvestInterval
    Jitter,    \* the random part of the first instant
    LeaseTTL,  \* PetScannerOptions.LeaseTTL
    MaxFaults  \* crashes, lost commands and delays

ASSUME PetAssumption ==
    /\ Nobody \notin Scanner
    /\ {Interval, LeaseTTL} \subseteq Nat \ {0}
    /\ {Jitter, MaxFaults} \subseteq Nat
    /\ Never \notin Nat

VARIABLES
    pet,      \* player_pets: none, or its auto_harvest_enabled
    due,      \* next_pet_action_at
    lease,    \* pet_scan_lease_owner and pet_scan_lease_until
    scan,     \* what each scanner has claimed
    commands, \* pet commands on their way
    present,  \* the owner is playing
    since,    \* how long ago the pet harvested, up to Interval
    faults

petVars == <<pet, due, lease, scan, commands, present, since, faults>>
vars == <<plots, owed, pet, due, lease, scan, commands, present, since, faults>>

NoLease == [by |-> Nobody, left |-> 0]
Idle == [step |-> "idle", current |-> FALSE, seen |-> [p \in Plot |-> Never]]

Init ==
    /\ FieldInit
    /\ pet = "none" /\ due = Never /\ lease = NoLease
    /\ scan = [s \in Scanner |-> Idle]
    /\ commands = {} /\ present = TRUE /\ since = Interval /\ faults = 0

Fault == faults < MaxFaults /\ faults' = faults + 1

-----------------------------------------------------------------------------
(* The row's schedule.                                                     *)

\* next_pet_action_at becomes d; nobody's claim or command is for it, and the
\* lease is cleared.
SetSchedule(d) ==
    /\ due' = d
    /\ lease' = NoLease
    /\ scan' = [s \in Scanner |-> [scan[s] EXCEPT !.current = FALSE]]

Stale(C) == {[c EXCEPT !.current = FALSE] : c \in C}

\* nextPetActionAt
FirstInstants == Interval..(Interval + Jitter)

\* BuyPet, and SetAutoHarvest(true) where it changes something
SwitchOn ==
    /\ present /\ pet \in {"none", "off"}
    /\ pet' = "on"
    /\ \E d \in FirstInstants : SetSchedule(d)
    /\ commands' = Stale(commands)
    /\ UNCHANGED <<fieldVars, present, since, faults>>

\* SetAutoHarvest(false)
SwitchOff ==
    /\ present /\ pet # "none"
    /\ pet' = "off"
    /\ SetSchedule(Never)
    /\ commands' = Stale(commands)
    /\ UNCHANGED <<fieldVars, present, since, faults>>

-----------------------------------------------------------------------------
(* The scanners.  Renewing the lease and what follows are one step: a      *)
(* switch or a delay in between is the same as one just after it, for      *)
(* gamesvr and pushNextPetAction compare the instant again.                *)

\* Mutant: a lease is never given up on.
NeverLeased == lease = NoLease

\* pet_scan_lease_until IS NULL OR pet_scan_lease_until <= now
LeaseOver == lease.left = 0

\* claimDue: the row is due, its pet is on, nobody holds it.  The snapshot is
\* read with it.
ClaimDue(s) ==
    /\ scan[s] = Idle
    /\ pet = "on" /\ due = 0 /\ LeaseOver
    /\ lease' = [by |-> s, left |-> LeaseTTL]
    /\ scan' = [scan EXCEPT ![s] = [step |-> "claimed", current |-> TRUE,
           seen |-> [p \in Plot |-> IF plots[p].planted
                                    THEN plots[p].total - plots[p].elapsed
                                    ELSE Never]]]
    /\ UNCHANGED <<fieldVars, pet, due, commands, present, since, faults>>

SeenMature(s) == {p \in Plot : scan[s].seen[p] = 0}
Renewable(s) == lease.by = s /\ lease.left > 0

\* renewLease refuses: another scanner has the row, the pet was switched or
\* harvested, or the lease has run out.
GiveUp(s) ==
    /\ scan[s].step = "claimed" /\ ~ Renewable(s)
    /\ scan' = [scan EXCEPT ![s] = Idle]
    /\ UNCHANGED <<fieldVars, pet, due, lease, commands, present, since, faults>>

\* Something was ripe in the snapshot: send the command.  The lease stays.
SubmitCommand(s) ==
    /\ scan[s].step = "claimed" /\ Renewable(s) /\ SeenMature(s) # {}
    /\ lease' = [lease EXCEPT !.left = LeaseTTL]
    /\ commands' = commands \cup {[plot |-> Min(SeenMature(s)),
                                   current |-> scan[s].current]}
    /\ scan' = [scan EXCEPT ![s] = Idle]
    /\ UNCHANGED <<fieldVars, pet, due, present, since, faults>>

\* Nothing was ripe: pushNextPetAction.
PushNext(s) ==
    /\ scan[s].step = "claimed" /\ Renewable(s) /\ SeenMature(s) = {}
    /\ due' = Interval
    /\ lease' = NoLease
    /\ scan' = [t \in Scanner |-> IF t = s THEN Idle
                                  ELSE [scan[t] EXCEPT !.current = FALSE]]
    /\ commands' = Stale(commands)
    /\ UNCHANGED <<fieldVars, pet, present, since, faults>>

\* The process dies after the claim.
Crash(s) ==
    /\ scan[s].step = "claimed" /\ Fault
    /\ scan' = [scan EXCEPT ![s] = Idle]
    /\ UNCHANGED <<fieldVars, pet, due, lease, commands, present, since>>

-----------------------------------------------------------------------------
(* The command.                                                            *)

\* Mutant: only the plot is looked at.
AcceptsAnySchedule(c) == Mature(c.plot) /\ c.plot = Min(MaturePlots)

\* What gamesvr checks under the row lock: the command's instant is the row's,
\* it has come, the pet is on, and the plot is the first ripe one.
AcceptsCommand(c) ==
    /\ c.current /\ due = 0 /\ pet = "on"
    /\ Mature(c.plot) /\ c.plot = Min(MaturePlots)

PetAutoHarvest(c) ==
    /\ AcceptsCommand(c)
    /\ Harvest(c.plot)
    /\ SetSchedule(Interval)
    /\ commands' = Stale(commands \ {c})
    /\ since' = 0
    /\ UNCHANGED <<pet, present, faults>>

Refuse(c) ==
    /\ ~ AcceptsCommand(c)
    /\ commands' = commands \ {c}
    /\ UNCHANGED <<fieldVars, pet, due, lease, scan, present, since, faults>>

\* It does not reach the farm.
Lose(c) ==
    /\ Fault
    /\ commands' = commands \ {c}
    /\ UNCHANGED <<fieldVars, pet, due, lease, scan, present, since>>

-----------------------------------------------------------------------------
(* The players, and time.                                                  *)

OwnerCommand(p) ==
    /\ present
    /\ Plant(p) \/ Water(p) \/ Harvest(p)
    /\ UNCHANGED petVars

FriendCommand(p) ==
    /\ Water(p) \/ Steal(p)
    /\ UNCHANGED petVars

Leave ==
    /\ present' = FALSE /\ present
    /\ UNCHANGED <<fieldVars, pet, due, lease, scan, commands, since, faults>>

\* A scanner is at work or a command on its way.
Busy == commands # {} \/ \E s \in Scanner : scan[s].step = "claimed"

Less(n) == IF n = Never \/ n = 0 THEN n ELSE n - 1

\* A scanner and a command take no time, except when they are delayed.
Tick ==
    /\ IF Busy THEN Fault ELSE UNCHANGED faults
    /\ Grow
    /\ due' = Less(due)
    /\ lease' = [lease EXCEPT !.left = Less(@)]
    /\ scan' = [s \in Scanner |-> [scan[s] EXCEPT
           !.seen = [p \in Plot |-> Less(scan[s].seen[p])]]]
    /\ since' = Min({since + 1, Interval})
    /\ UNCHANGED <<pet, commands, present>>

Scan(s) ==
    ClaimDue(s) \/ GiveUp(s) \/ SubmitCommand(s) \/ PushNext(s)

Next ==
    \/ SwitchOn \/ SwitchOff \/ Leave \/ Tick
    \/ \E s \in Scanner : Scan(s) \/ Crash(s)
    \/ \E c \in commands : PetAutoHarvest(c) \/ Refuse(c) \/ Lose(c)
    \/ \E p \in Plot : OwnerCommand(p) \/ FriendCommand(p)

\* runPetLoop scans on a timer; a command that is not lost is executed; time
\* passes.  Nothing obliges the players.
Fairness ==
    /\ WF_vars(Tick)
    /\ \A s \in Scanner : WF_vars(Scan(s))
    /\ WF_vars(\E c \in commands : PetAutoHarvest(c) \/ Refuse(c))

Spec == Init /\ [][Next]_vars /\ Fairness

-----------------------------------------------------------------------------

\* Types.
TypeOK ==
    /\ FieldTypeOK
    /\ pet \in {"none", "on", "off"}
    /\ due \in 0..(Interval + Jitter) \cup {Never}
    /\ lease \in [by : Scanner \cup {Nobody}, left : 0..LeaseTTL]
    /\ scan \in [Scanner -> [step : {"idle", "claimed"}, current : BOOLEAN,
                     seen : [Plot -> 0..Duration \cup {Never}]]]
    /\ commands \subseteq [plot : Plot, current : BOOLEAN]
    /\ present \in BOOLEAN
    /\ since \in 0..Interval
    /\ faults \in 0..MaxFaults

\* The pet harvests only while it is on, and leaves Interval between two
\* harvests, whatever scanners overlap, commands arrive late, and switching
\* happens in between (committer_mysql.go, CmdPetAutoHarvest).
PetPaced ==
    [][owed' # owed /\ commands' # commands => pet = "on" /\ since = Interval]_vars

\* Once the owner has left a pet on, every crop that is ripe gets harvested, though
\* scanners crash, run late and lose commands, and friends go on stealing.
PetGetsRound ==
    \A p \in Plot : (~ present /\ pet = "on" /\ Mature(p)) ~> ~ Mature(p)
=============================================================================
