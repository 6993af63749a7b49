---------------------------- MODULE EventConsumer ----------------------------
(***************************************************************************)
(* A Kafka consumer group of workersvr and its projector: FetchMessage,    *)
(* ProcessOnce (look the event up in consumed_events, call the projector,  *)
(* record the event), CommitMessages; failures are retried in place, then  *)
(* parked in consumer_failed_events before the offset is committed.        *)
(*                                                                         *)
(* The projector credits a stolen crop under a unique ledger key, as the   *)
(* cross-shard steal projector does.  A partition moves between members:   *)
(* the old one finishes the message it has, its commit is refused.         *)
(***************************************************************************)
EXTENDS Integers, Sequences

CONSTANTS
    Event,
    Poison,   \* events whose envelope or payload is malformed
    Member,   \* consumers of the group
    MaxTries, \* WithFailurePolicy: attempts before parking
    MaxMoves  \* bound: rebalances and restarts

VARIABLES
    log,       \* the partition
    committed, \* the group's committed offset: messages before it are done
    assigned,  \* the member the partition is assigned to
    member,    \* what each member is at
    consumed,  \* consumed_events
    parked,    \* offsets in consumer_failed_events
    ledger,    \* events with an economy_transactions row
    credit,    \* how often the crop of an event was credited
    moves

memberVars == <<committed, assigned, member, consumed, parked, ledger, credit, moves>>

NoMessage == 0
Ready(n) == [step |-> "idle", next |-> n, offset |-> NoMessage, tries |-> 0]
EventOf(m) == log[member[m].offset]

-----------------------------------------------------------------------------

MemberInit ==
    /\ committed = 0
    /\ assigned \in Member
    /\ member = [m \in Member |-> Ready(1)]
    /\ consumed = {} /\ parked = {} /\ ledger = {}
    /\ credit = [e \in Event |-> 0]
    /\ moves = 0

\* Member m goes to step s of its loop.
Goto(m, s) == member' = [member EXCEPT ![m].step = s]

\* Mutant: exhausted retries commit the offset without parking the message.
AttemptFailsUnparked(m) ==
    \/ /\ member[m].tries < MaxTries
       /\ member' = [member EXCEPT ![m].step = "process", ![m].tries = @ + 1]
    \/ member[m].tries >= MaxTries /\ Goto(m, "commit")

\* An attempt failed: back off and try the same message again, or park it.
AttemptFails(m) ==
    \/ /\ member[m].tries < MaxTries
       /\ member' = [member EXCEPT ![m].step = "process", ![m].tries = @ + 1]
    \/ member[m].tries >= MaxTries /\ Goto(m, "park")

FetchMessage(m) ==
    /\ assigned = m
    /\ member[m].step = "idle"
    /\ member[m].next <= Len(log)
    /\ member' = [member EXCEPT ![m] =
           [step |-> "process", next |-> @.next + 1, offset |-> @.next, tries |-> 1]]
    /\ UNCHANGED <<log, committed, assigned, consumed, parked, ledger, credit, moves>>

\* ProcessOnce, first step: a consumed event is skipped.  An event whose envelope is
\* malformed is parked at once; one whose payload is, like one whose lookup fails, is
\* tried again first.
AlreadyConsumed(m) ==
    /\ member[m].step = "process"
    /\ \/ EventOf(m) \in Poison /\ Goto(m, "park")
       \/ /\ EventOf(m) \notin Poison
          /\ Goto(m, IF EventOf(m) \in consumed THEN "commit" ELSE "handle")
       \/ AttemptFails(m)
    /\ UNCHANGED <<log, committed, assigned, consumed, parked, ledger, credit, moves>>

\* Mutant: the credit is not keyed by the event.
CreditAgain(e) ==
    /\ ledger' = ledger \cup {e}
    /\ credit' = [credit EXCEPT ![e] = @ + 1]

\* creditCrossShardSteal: ledger row and inventory in one transaction; the
\* ledger's unique key makes a repetition a no-op.
Credit(e) ==
    \/ e \in ledger /\ UNCHANGED <<ledger, credit>>
    \/ /\ e \notin ledger
       /\ ledger' = ledger \cup {e}
       /\ credit' = [credit EXCEPT ![e] = @ + 1]

\* Second step: the projector succeeds, or fails before or after its commit.
Handle(m) ==
    /\ member[m].step = "handle"
    /\ \/ Credit(EventOf(m)) /\ Goto(m, "record")
       \/ Credit(EventOf(m)) /\ AttemptFails(m)
       \/ UNCHANGED <<ledger, credit>> /\ AttemptFails(m)
    /\ UNCHANGED <<log, committed, assigned, consumed, parked, moves>>

\* Third step: the insert into consumed_events; a key another member has
\* inserted meanwhile is an error like any other.
MarkConsumed(m) ==
    /\ member[m].step = "record"
    /\ \/ /\ EventOf(m) \notin consumed
          /\ consumed' = consumed \cup {EventOf(m)}
          /\ Goto(m, "commit") \/ AttemptFails(m)
       \/ AttemptFails(m) /\ UNCHANGED consumed
    /\ UNCHANGED <<log, committed, assigned, parked, ledger, credit, moves>>

\* recordFailure keeps trying until the failed message is stored.
RecordFailure(m) ==
    /\ member[m].step = "park"
    /\ parked' = parked \cup {member[m].offset}
    /\ Goto(m, "commit")
    /\ UNCHANGED <<log, committed, assigned, consumed, ledger, credit, moves>>

\* CommitMessages: an error, as a member gets that has lost the partition, is
\* logged and the loop goes on.
CommitMessages(m) ==
    /\ member[m].step = "commit"
    /\ \/ assigned = m /\ committed' = member[m].offset
       \/ UNCHANGED committed
    /\ member' = [member EXCEPT ![m] = Ready(@.next)]
    /\ UNCHANGED <<log, assigned, consumed, parked, ledger, credit, moves>>

\* The partition moves to an idle member, which starts at the committed offset.
Rebalance(m) ==
    /\ assigned # m
    /\ member[m].step = "idle"
    /\ moves < MaxMoves
    /\ moves' = moves + 1
    /\ assigned' = m
    /\ member' = [member EXCEPT ![m] = Ready(committed + 1)]
    /\ UNCHANGED <<log, committed, consumed, parked, ledger, credit>>

\* The process dies and comes back.
Restart(m) ==
    /\ member[m].step # "idle"
    /\ moves < MaxMoves
    /\ moves' = moves + 1
    /\ member' = [member EXCEPT ![m] = Ready(committed + 1)]
    /\ UNCHANGED <<log, committed, assigned, consumed, parked, ledger, credit>>

-----------------------------------------------------------------------------

Consume(m) ==
    \/ FetchMessage(m) \/ AlreadyConsumed(m) \/ Handle(m) \/ MarkConsumed(m)
    \/ RecordFailure(m) \/ CommitMessages(m)

MemberNext == \E m \in Member : Consume(m) \/ Rebalance(m) \/ Restart(m)

\* The members' loops run.
MemberFairness == \A m \in Member : WF_<<log, memberVars>>(Consume(m))

-----------------------------------------------------------------------------

MemberTypeOK ==
    /\ committed \in Nat
    /\ assigned \in Member
    /\ member \in [Member ->
           [step : {"idle", "process", "handle", "record", "park", "commit"},
            next : Nat \ {0}, offset : Nat, tries : 0..MaxTries]]
    /\ consumed \subseteq Event
    /\ parked \subseteq Nat
    /\ ledger \subseteq Event
    /\ credit \in [Event -> Nat]
    /\ moves \in 0..MaxMoves

\* Message o needs no more work.
Settled(o) == log[o] \in consumed \/ o \in parked

\* The committed offset never passes a message that is neither consumed nor
\* parked, whatever fails, restarts or is reassigned (Run's comment).
CommittedIsSettled == \A o \in 1..committed : Settled(o)

\* At-least-once delivery, exactly-once credit: however often an event is
\* published, fetched and handled, its crop is credited once, and an event is
\* recorded as consumed only once it has been.
CreditedOnce ==
    \A e \in Event : credit[e] <= 1 /\ (e \in consumed => credit[e] = 1)
==============================================================================
