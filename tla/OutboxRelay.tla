----------------------------- MODULE OutboxRelay -----------------------------
(***************************************************************************)
(* The outbox relays of workersvr: every event a transaction commits       *)
(* leaves an outbox_events row; relays claim batches of rows, publish them *)
(* to the topic and record the outcome.  Several relays serve one table;   *)
(* claims are leases that run out; a publish may fail, or succeed although *)
(* the relay is told it failed; a relay may die between any two steps.     *)
(*                                                                         *)
(* The topic is one sequence: a partition is consumed on its own, and the  *)
(* events of one farm share a partition.  Event n has outbox_id n; a       *)
(* relay reads, publishes and marks the rows of a batch in this order.     *)
(***************************************************************************)
EXTENDS Integers, Sequences, FiniteSets

CONSTANTS
    Event,     \* 1..n, in outbox_id order
    KeyOf,     \* KeyOf[e]: the partition key of e, its farm
    Relay,     \* relay instances
    BatchSize, \* OutboxRelayConfig.BatchSize
    MaxRetry,  \* OutboxRelayConfig.MaxRetry
    MaxFaults  \* bound: crashes, failed updates and leases that run out early

VARIABLES
    row,    \* outbox_events
    relay,  \* what each relay is at
    log,    \* the topic
    faults  \* how many faults there have been

relayVars == <<row, relay, log, faults>>

NoRelay == "none"
NoRow == [status |-> "none", by |-> NoRelay, expired |-> FALSE,
          backoff |-> FALSE, retry |-> 0]
Pending == [NoRow EXCEPT !.status = "PENDING"]
Idle == [step |-> "idle", batch |-> {}, failed |-> {}, ok |-> {}]

\* A claimed row as the relay read it.
Claimed(e) == [event |-> e, retry |-> row[e].retry]

\* Relay r has event e in hand.
Holds(r, e) ==
    \/ \E x \in relay[r].batch \cup relay[r].failed : x.event = e
    \/ e \in relay[r].ok

-----------------------------------------------------------------------------

RelayInit ==
    /\ row = [e \in Event |-> NoRow]
    /\ relay = [r \in Relay |-> Idle]
    /\ log = <<>>
    /\ faults = 0

\* A farm command commits event e with its outbox row (insertOutbox); the farm
\* row lock orders the events of one farm.
Insert(e) ==
    /\ row[e] = NoRow
    /\ \A d \in Event : d < e /\ KeyOf[d] = KeyOf[e] => row[d] # NoRow
    /\ row' = [row EXCEPT ![e] = Pending]
    /\ UNCHANGED <<relay, log, faults>>

\* Time passes: the backoff of a failed row ends.
BackoffEnds(e) ==
    /\ row[e].backoff
    /\ row' = [row EXCEPT ![e].backoff = FALSE]
    /\ UNCHANGED <<relay, log, faults>>

\* A lease runs out; a fault while its relay still works on the row.
LeaseExpires(e) ==
    /\ row[e].status = "PUBLISHING" /\ ~ row[e].expired
    /\ row' = [row EXCEPT ![e].expired = TRUE]
    /\ \/ ~ Holds(row[e].by, e) /\ UNCHANGED faults
       \/ Holds(row[e].by, e) /\ faults < MaxFaults /\ faults' = faults + 1
    /\ UNCHANGED <<relay, log>>

-----------------------------------------------------------------------------
(* ScanAndPublish, step by step.                                           *)

\* Mutant: nothing is reclaimed.
ReclaimNothing(r) ==
    /\ relay[r] = Idle
    /\ relay' = [relay EXCEPT ![r].step = "scan"]
    /\ UNCHANGED <<row, log, faults>>

\* reclaimStale: rows whose lease ran out are PENDING again.
ReclaimStale(r) ==
    /\ relay[r] = Idle
    /\ row' = [e \in Event |->
           IF row[e].expired
           THEN [row[e] EXCEPT !.status = "PENDING", !.by = NoRelay, !.expired = FALSE]
           ELSE row[e]]
    /\ relay' = [relay EXCEPT ![r].step = "scan"]
    /\ UNCHANGED <<log, faults>>

\* The first BatchSize of a set of events, or all of them.
IsFirst(batch, due) ==
    /\ \A d \in batch, e \in due \ batch : d < e
    /\ \/ Cardinality(batch) = BatchSize
       \/ Cardinality(batch) < BatchSize /\ batch = due

\* claimBatch: the first PENDING rows that are due, under SKIP LOCKED.
ClaimBatch(r) ==
    LET due == {e \in Event : row[e].status = "PENDING" /\ ~ row[e].backoff} IN
    /\ relay[r].step = "scan"
    /\ \E batch \in SUBSET due :
        /\ IsFirst(batch, due)
        /\ relay' = [relay EXCEPT ![r] =
               IF batch = {} THEN Idle
               ELSE [Idle EXCEPT !.step = "publish", !.batch = {Claimed(e) : e \in batch}]]
        /\ row' = [e \in Event |->
               IF e \in batch THEN [row[e] EXCEPT !.status = "PUBLISHING", !.by = r]
               ELSE row[e]]
    /\ UNCHANGED <<log, faults>>

Events(X) == {x.event : x \in X}

\* The events of a set in the order of their rows: there is one such sequence.
InOrder(E) ==
    {q \in [1..Cardinality(E) -> E] : \A i, j \in DOMAIN q : i < j => q[i] < q[j]}

\* Mutant: every message of a batch is taken for accepted.
PublishAssumed(r) ==
    /\ relay[r].step = "publish"
    /\ LET batch == Events(relay[r].batch) IN
       /\ log' \in {log} \cup {log \o q : q \in InOrder(batch)}
       /\ relay' = [relay EXCEPT ![r] = [Idle EXCEPT !.step = "mark", !.ok = batch]]
    /\ UNCHANGED <<row, faults>>

\* PublishBatch: the messages of one key travel together; they are written and
\* acknowledged, written and reported as failed, or not written.
PublishBatch(r) ==
    /\ relay[r].step = "publish"
    /\ \E outcome \in [{KeyOf[e] : e \in Events(relay[r].batch)}
                          -> {"ok", "unacked", "failed"}] :
        LET Those(outs) == {x \in relay[r].batch : outcome[KeyOf[x.event]] \in outs} IN
        /\ \E q \in InOrder(Events(Those({"ok", "unacked"}))) : log' = log \o q
        /\ relay' = [relay EXCEPT ![r] =
               [step |-> "mark", batch |-> {}, failed |-> Those({"unacked", "failed"}),
                ok |-> Events(Those({"ok"}))]]
    /\ UNCHANGED <<row, faults>>

\* The row after one more failed publish, counting from the claimed copy.
Retried(x) ==
    IF x.retry + 1 > MaxRetry
    THEN [NoRow EXCEPT !.status = "DEAD", !.retry = x.retry + 1]
    ELSE [Pending EXCEPT !.backoff = TRUE, !.retry = x.retry + 1]

\* An update the database refuses is logged and left at that.
UpdateFails ==
    /\ faults < MaxFaults
    /\ faults' = faults + 1
    /\ UNCHANGED row

\* markRetryOrDead, one failed row at a time; its UPDATE names the row only.
MarkRetryOrDead(r) ==
    /\ \E x \in relay[r].failed :
        /\ \A y \in relay[r].failed : x.event <= y.event
        /\ \/ row' = [row EXCEPT ![x.event] = Retried(x)] /\ UNCHANGED faults
           \/ UpdateFails
        /\ relay' = [relay EXCEPT ![r].failed = @ \ {x}]
    /\ UNCHANGED log

\* markPublishedBatch: only rows still claimed by this relay.
MarkPublishedBatch(r) ==
    /\ relay[r].step = "mark" /\ relay[r].failed = {}
    /\ \/ /\ row' = [e \in Event |->
                 IF e \in relay[r].ok /\ row[e].status = "PUBLISHING" /\ row[e].by = r
                 THEN [NoRow EXCEPT !.status = "PUBLISHED", !.retry = row[e].retry]
                 ELSE row[e]]
          /\ UNCHANGED faults
       \/ relay[r].ok # {} /\ UpdateFails
    /\ relay' = [relay EXCEPT ![r] = Idle]
    /\ UNCHANGED log

Crash(r) ==
    /\ relay[r] # Idle
    /\ faults < MaxFaults
    /\ faults' = faults + 1
    /\ relay' = [relay EXCEPT ![r] = Idle]
    /\ UNCHANGED <<row, log>>

-----------------------------------------------------------------------------

Scan(r) ==
    \/ ReclaimStale(r) \/ ClaimBatch(r) \/ PublishBatch(r)
    \/ MarkRetryOrDead(r) \/ MarkPublishedBatch(r)

RelayNext ==
    \/ \E e \in Event : Insert(e) \/ BackoffEnds(e) \/ LeaseExpires(e)
    \/ \E r \in Relay : Scan(r) \/ Crash(r)

\* The relay loop runs on a timer, and time passes.
RelayFairness ==
    /\ \A r \in Relay : WF_relayVars(Scan(r))
    /\ \A e \in Event : WF_relayVars(BackoffEnds(e)) /\ WF_relayVars(LeaseExpires(e))

-----------------------------------------------------------------------------

Row == [status : {"none", "PENDING", "PUBLISHING", "PUBLISHED", "DEAD"},
        by : Relay \cup {NoRelay}, expired : BOOLEAN, backoff : BOOLEAN,
        retry : 0..MaxRetry + 1]
ClaimedRow == [event : Event, retry : 0..MaxRetry]

RelayTypeOK ==
    /\ row \in [Event -> Row]
    /\ relay \in [Relay -> [step : {"idle", "scan", "publish", "mark"},
           batch : SUBSET ClaimedRow, failed : SUBSET ClaimedRow, ok : SUBSET Event]]
    /\ log \in Seq(Event)
    /\ faults \in 0..MaxFaults

InLog(e) == \E i \in DOMAIN log : log[i] = e

\* A row is marked PUBLISHED only for an event the topic has: whatever relays
\* crash, stall and overtake one another, no event is ticked off unsent.
PublishedIsInLog ==
    \A e \in Event : row[e].status = "PUBLISHED" => InLog(e)

\* SKIP LOCKED claims are exclusive: without a fault, no two relays have the
\* same event in hand.
ClaimsExclusive ==
    faults = 0 => \A e \in Event : \A q, r \in Relay :
        Holds(q, e) /\ Holds(r, e) => q = r
=============================================================================
