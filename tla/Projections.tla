----------------------------- MODULE Projections ------------------------------
(***************************************************************************)
(* What the worker's projectors make of events: progress of tasks, mails   *)
(* and catalog entries, and the reward a player claims for a task.         *)
(*                                                                         *)
(* A projector calls a service once per effect of an event and records the *)
(* event as consumed when all have succeeded.  The effects and the record  *)
(* are of different transactions, so an event whose handling fails half    *)
(* way is handled again from its first effect.  Members of the group may   *)
(* hold the same event after a rebalance.                                  *)
(***************************************************************************)
EXTENDS Integers, Sequences, FiniteSets, FiniteSetsExt, SequencesExt, Tallies

CONSTANTS
    Player,
    ProjEvent,   \* events
    EventOf,     \* EventOf[e]: its type, actor, owner and crop
    TaskKey, Target, Reward,   \* taskConfigs (targets 10, 5, 1 and 3 in the code)
    Member,      \* consumers
    NoEvent,
    MaxTries,    \* MaxRetry
    Handled,     \* bound: the projectors with the events they are given
    MaxProjFaults   \* bound: failures and crashes

ASSUME ProjAssumption ==
    /\ NoEvent \notin ProjEvent /\ IsFiniteSet(ProjEvent)
    /\ \A e \in ProjEvent : {EventOf[e].actor, EventOf[e].owner} \subseteq Player
    /\ MaxTries \in Nat /\ MaxProjFaults \in Nat
    /\ \A k \in TaskKey : Target[k] \in Nat \ {0} /\ Reward[k] \in Nat

VARIABLES
    tasks,      \* tasks[u, k]: progress and status; "none": no row
    coins,      \* coins[u]: what rewards brought u
    notices,    \* notices[e, u]: mails to u about event e
    unlocked,   \* catalog entries
    consumed,   \* projectors with the events they have consumed
    givenUp,    \* of the same form: parked
    work,       \* work[m]: what a member handles, and its next effect
    projFaults

projVars == <<tasks, coins, notices, unlocked, consumed, givenUp, work, projFaults>>

Projector == {"task-projector", "mail-projector", "catalog-projector"}
IdleMember == [projector |-> "none", event |-> NoEvent, next |-> 0, tries |-> 0]

ProjTypeOK ==
    /\ tasks \in [Player \X TaskKey ->
          [progress : Nat, status : {"none", "ACTIVE", "COMPLETED", "REWARD_CLAIMED"}]]
    /\ \A u \in Player, k \in TaskKey : tasks[<<u, k>>].progress <= Target[k]
    /\ coins \in [Player -> Nat]
    /\ notices \in [ProjEvent \X Player -> Nat]
    /\ consumed \cup givenUp \subseteq Projector \X ProjEvent
    /\ \A m \in Member : work[m].tries <= MaxTries
    /\ projFaults \in 0 .. MaxProjFaults

ProjInit ==
    /\ tasks = [t \in Player \X TaskKey |-> [progress |-> 0, status |-> "none"]]
    /\ coins = [u \in Player |-> 0]
    /\ notices = [n \in ProjEvent \X Player |-> 0]
    /\ unlocked = {} /\ consumed = {} /\ givenUp = {}
    /\ work = [m \in Member |-> IdleMember]
    /\ projFaults = 0

-----------------------------------------------------------------------------
(* The effects of an event, in the order of the calls.                       *)

\* Watering a friend's farm has the type of watering one's own.
TaskKeysByEvent(e) ==
    LET t == EventOf[e].type IN
    {k \in {"plant_10", "harvest_5", "steal_1", "help_water_3"} :
        \/ k = "plant_10" /\ t = "farm.planted.v1"
        \/ k = "harvest_5" /\ t = "farm.harvested.v1"
        \/ k = "steal_1" /\ t = "farm.stolen.v1"
        \/ k = "help_water_3" /\ t = "farm.watered.v1" /\ EventOf[e].actor # EventOf[e].owner}

TaskEffects(e) ==
    SetToSeq({[kind |-> "task", user |-> EventOf[e].actor, what |-> k] :
                 k \in TaskKeysByEvent(e) \cap TaskKey})

\* The inviter is the event's owner, who accepts is its actor.
MailEffects(e) ==
    LET to(u) == [kind |-> "mail", user |-> u, what |-> e] IN
    IF EventOf[e].type = "farm.stolen.v1" THEN <<to(EventOf[e].owner)>>
    ELSE IF EventOf[e].type = "social.friend_accepted.v1"
    THEN <<to(EventOf[e].owner), to(EventOf[e].actor)>> ELSE <<>>

CatalogEffects(e) ==
    IF EventOf[e].type = "farm.harvested.v1"
    THEN <<[kind |-> "catalog", user |-> EventOf[e].owner, what |-> EventOf[e].crop]>>
    ELSE <<>>

Effects(p, e) ==
    IF p = "task-projector" THEN TaskEffects(e)
    ELSE IF p = "mail-projector" THEN MailEffects(e) ELSE CatalogEffects(e)

\* IncrProgress by 1, one statement.  A first event inserts the row and does not
\* look at the target; later ones see the progress they have just assigned.
Incremented(t, k) ==
    LET n == IF t.progress < Target[k] THEN t.progress + 1 ELSE Target[k] IN
    IF t.status = "none" THEN [progress |-> 1, status |-> "ACTIVE"]
    ELSE IF t.status = "ACTIVE"
    THEN [progress |-> n, status |-> IF n >= Target[k] THEN "COMPLETED" ELSE "ACTIVE"]
    ELSE t

TakesEffect(f) ==
    /\ tasks' = IF f.kind = "task"
                THEN [tasks EXCEPT ![<<f.user, f.what>>] = Incremented(@, f.what)] ELSE tasks
    /\ notices' = IF f.kind = "mail" THEN [notices EXCEPT ![<<f.what, f.user>>] = @ + 1] ELSE notices
    /\ unlocked' = IF f.kind = "catalog" THEN unlocked \cup {<<f.user, f.what>>} ELSE unlocked

-----------------------------------------------------------------------------
(* The members.                                                              *)

Effect(m) == Effects(work[m].projector, work[m].event)[work[m].next]
HasEffect(m) ==
    /\ work[m] # IdleMember
    /\ work[m].next <= Len(Effects(work[m].projector, work[m].event))
AllDone(m) == work[m] # IdleMember /\ ~HasEffect(m)

TakeEvent(m, p, e) ==
    /\ work[m] = IdleMember
    /\ <<p, e>> \in Handled \ (consumed \cup givenUp)
    /\ work' = [work EXCEPT ![m] = [projector |-> p, event |-> e, next |-> 1, tries |-> 0]]
    /\ UNCHANGED <<tasks, coins, notices, unlocked, consumed, givenUp, projFaults>>

Perform(m) ==
    /\ HasEffect(m)
    /\ TakesEffect(Effect(m))
    /\ work' = [work EXCEPT ![m].next = @ + 1]
    /\ UNCHANGED <<coins, consumed, givenUp, projFaults>>

\* The handler starts over, or parks the event after the last retry.
Retry(m) ==
    IF work[m].tries < MaxTries
    THEN /\ work' = [work EXCEPT ![m].tries = @ + 1, ![m].next = 1]
         /\ UNCHANGED givenUp
    ELSE /\ givenUp' = givenUp \cup {<<work[m].projector, work[m].event>>}
         /\ work' = [work EXCEPT ![m] = IdleMember]

\* A call fails: before it has taken effect, or after.
CallFails(m) ==
    /\ HasEffect(m) /\ projFaults < MaxProjFaults
    /\ TakesEffect(Effect(m)) \/ UNCHANGED <<tasks, notices, unlocked>>
    /\ Retry(m)
    /\ projFaults' = projFaults + 1
    /\ UNCHANGED <<coins, consumed>>

RecordEvent(m) ==
    /\ AllDone(m)
    /\ consumed' = consumed \cup {<<work[m].projector, work[m].event>>}
    /\ work' = [work EXCEPT ![m] = IdleMember]
    /\ UNCHANGED <<tasks, coins, notices, unlocked, givenUp, projFaults>>

RecordFails(m) ==
    /\ AllDone(m) /\ projFaults < MaxProjFaults
    /\ Retry(m)
    /\ projFaults' = projFaults + 1
    /\ UNCHANGED <<tasks, coins, notices, unlocked, consumed>>

MemberCrashes(m) ==
    /\ work[m] # IdleMember /\ projFaults < MaxProjFaults
    /\ work' = [work EXCEPT ![m] = IdleMember]
    /\ projFaults' = projFaults + 1
    /\ UNCHANGED <<tasks, coins, notices, unlocked, consumed, givenUp>>

-----------------------------------------------------------------------------
(* The player.                                                               *)

\* Mutant: a task that is claimed already can be claimed.
ClaimRewardAgain(u, k) ==
    /\ tasks[<<u, k>>].status \in {"COMPLETED", "REWARD_CLAIMED"}
    /\ coins[u] < 2 * Reward[k]
    /\ tasks' = [tasks EXCEPT ![<<u, k>>].status = "REWARD_CLAIMED"]
    /\ coins' = [coins EXCEPT ![u] = @ + Reward[k]]
    /\ UNCHANGED <<notices, unlocked, consumed, givenUp, work, projFaults>>

\* One transaction; refused when the UPDATE finds no COMPLETED row.
ClaimReward(u, k) ==
    /\ tasks[<<u, k>>].status = "COMPLETED"
    /\ tasks' = [tasks EXCEPT ![<<u, k>>].status = "REWARD_CLAIMED"]
    /\ coins' = [coins EXCEPT ![u] = @ + Reward[k]]
    /\ UNCHANGED <<notices, unlocked, consumed, givenUp, work, projFaults>>

ProjNext ==
    \/ \E m \in Member :
          \/ \E p \in Projector, e \in ProjEvent : TakeEvent(m, p, e)
          \/ Perform(m) \/ CallFails(m) \/ RecordEvent(m) \/ RecordFails(m) \/ MemberCrashes(m)
    \/ \E u \in Player, k \in TaskKey : ClaimReward(u, k)

-----------------------------------------------------------------------------
\* The consumed events that count for a task.
Due(u, k) ==
    Cardinality({e \in ProjEvent : <<"task-projector", e>> \in consumed
                                   /\ EventOf[e].actor = u /\ k \in TaskKeysByEvent(e)})

\* The rewards of the tasks that u has claimed.
Paid(u) ==
    [k \in TaskKey |-> IF tasks[<<u, k>>].status = "REWARD_CLAIMED" THEN Reward[k] ELSE 0]

\* A consumed event has had every effect, a retry or a second member may only have
\* repeated it.  A task with enough events can be claimed, except that one of
\* target 1 waits for a second event (IncrProgress inserts it ACTIVE), and every
\* reward is paid once.
ProjectedOnce ==
    /\ \A u \in Player, k \in TaskKey :
          /\ tasks[<<u, k>>].progress >= Min({Target[k], Due(u, k)})
          /\ tasks[<<u, k>>].status = "ACTIVE" /\ tasks[<<u, k>>].progress = Target[k] => Target[k] = 1
          /\ Due(u, k) >= Max({Target[k], 2}) => tasks[<<u, k>>].status \in {"COMPLETED", "REWARD_CLAIMED"}
    /\ \A u \in Player : coins[u] = Tally(Paid(u))
    /\ \A c \in consumed : \A i \in DOMAIN Effects(c[1], c[2]) :
          LET f == Effects(c[1], c[2])[i] IN
          /\ f.kind = "mail" => notices[<<c[2], f.user>>] > 0
          /\ f.kind = "catalog" => <<f.user, f.what>> \in unlocked
=============================================================================
