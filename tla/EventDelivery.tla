---------------------------- MODULE EventDelivery ----------------------------
(***************************************************************************)
(* From an outbox row to the credit it stands for: the relays of           *)
(* OutboxRelay write the topic that the group of EventConsumer reads.      *)
(***************************************************************************)
EXTENDS Integers, Sequences, FiniteSets

CONSTANTS Event, KeyOf, Relay, BatchSize, MaxRetry, MaxFaults,
          Poison, Member, MaxTries, MaxMoves

VARIABLES row, relay, log, faults,
          committed, assigned, member, consumed, parked, ledger, credit, moves

ASSUME DeliveryAssumption ==
    /\ Event \subseteq Nat /\ IsFiniteSet(Event)
    /\ {BatchSize, MaxTries} \subseteq Nat \ {0}
    /\ {MaxRetry, MaxFaults, MaxMoves} \subseteq Nat

INSTANCE OutboxRelay
C == INSTANCE EventConsumer

rowVars == <<row, relay, faults>>
groupVars == <<committed, assigned, member, consumed, parked, ledger, credit, moves>>
vars == <<rowVars, log, groupVars>>

Init == RelayInit /\ C!MemberInit

Next ==
    \/ RelayNext /\ UNCHANGED groupVars
    \/ C!MemberNext /\ UNCHANGED rowVars

Spec == Init /\ [][Next]_vars

FairSpec == Spec /\ RelayFairness /\ C!MemberFairness

TypeOK == RelayTypeOK /\ C!MemberTypeOK

\* What relays write down is what the topic has (PublishedIsInLog), and without a
\* fault no two of them hold one row (ClaimsExclusive).
RelaysInStep == TypeOK /\ PublishedIsInLog /\ ClaimsExclusive

CommittedIsSettled == C!CommittedIsSettled
CreditedOnce == C!CreditedOnce

\* What a committed event comes to: its effect, a parked message, or a row
\* given up as DEAD.
Ended(e) ==
    \/ credit[e] = 1
    \/ \E o \in parked : log[o] = e
    \/ row[e].status = "DEAD"

\* No event is lost: every row an outbox gets is delivered and takes effect, or
\* is left where an operator finds it.
EveryEventEnds == \A e \in Event : row[e] # NoRow ~> Ended(e)

\* The first copies of one farm's events enter the topic in the order of their
\* rows: "hash by partitionKey, which keeps one farm_id in order"
\* (event_publisher.go:106).
FarmEventsInOrder ==
    \A d, e \in Event : d < e /\ KeyOf[d] = KeyOf[e] /\ InLog(e) => InLog(d)
=============================================================================
