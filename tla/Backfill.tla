------------------------------- MODULE Backfill -------------------------------
(***************************************************************************)
(* shardbackfill: the copy of the single database into two empty shards,   *)
(* while the database may still be written.                                *)
(*                                                                         *)
(* A row is a number and its owner's parity picks the shard.  A SELECT     *)
(* sees the source as it was when it began; every batch is a transaction   *)
(* of its target, which nobody else writes.                                *)
(***************************************************************************)
EXTENDS Naturals, Sequences, FiniteSets

CONSTANTS
    UserTable,    \* the tables with one owner per row
    TableOrder,   \* sequence of these, userTables
    SourceRow,    \* rows a table may have, numbered by their owners
    FriendPair,   \* pairs <<a, b>> of users
    SeededRow, SeededPair,   \* what the source may have at first
    BatchRows,    \* -batch-size
    MaxBackfills, \* bound: runs of the tool
    MaxSourceWrites \* bound: rows written or deleted meanwhile

ASSUME BackfillAssumption ==
    /\ BatchRows \in Nat \ {0} /\ MaxBackfills \in Nat /\ MaxSourceWrites \in Nat
    /\ TableOrder \in Seq(UserTable) \ {<<>>}
    /\ UserTable \subseteq {TableOrder[i] : i \in DOMAIN TableOrder}
    /\ IsFiniteSet(SourceRow) /\ SeededRow \subseteq SourceRow /\ SeededPair \subseteq FriendPair

VARIABLES
    source,        \* source[t]: rows of a user table
    sourceFriends, \* its friendships
    target,        \* target[s][t]: rows on a shard
    friendRows,    \* friendRows[s]: pairs in friendships of a shard
    friendEdges,   \* friendEdges[s]: pairs <<user, friend>> in friendship_edges
    job,           \* the run of the tool
    backfills, sourceWrites,
    audited,       \* audited[s][t]: the rows the final audit counted
    deletedFrom    \* tables a row was deleted from during a run

bfVars == <<source, sourceFriends, target, friendRows, friendEdges, job, backfills,
            sourceWrites, audited, deletedFrom>>
sourceVars == <<source, sourceFriends, sourceWrites, deletedFrom>>
targetVars == <<target, friendRows, friendEdges>>

TwoShards == {0, 1}
Part(t, s) == {r \in source[t] : r % 2 = s}
Working == job.at \notin {"off", "PASS", "FAIL"}
NoJob == [at |-> "off", table |-> 1, shard |-> 0, expected |-> 0, rows |-> {}, pairs |-> {},
          dry |-> FALSE]

BackfillTypeOK ==
    /\ \A t \in UserTable : source[t] \subseteq SourceRow
    /\ sourceFriends \subseteq FriendPair
    /\ \A s \in TwoShards, t \in UserTable : target[s][t] \subseteq SourceRow
    /\ job.at \in {"off", "check", "count", "copy", "batches", "audit", "friends", "pairs", "final",
                   "PASS", "FAIL"}
    /\ backfills \in 0 .. MaxBackfills /\ sourceWrites \in 0 .. MaxSourceWrites

BackfillInit ==
    /\ source \in [UserTable -> SUBSET SeededRow]
    /\ sourceFriends \in SUBSET SeededPair
    /\ target = [s \in TwoShards |-> [t \in UserTable |-> {}]]
    /\ friendRows = [s \in TwoShards |-> {}] /\ friendEdges = [s \in TwoShards |-> {}]
    /\ job = NoJob /\ backfills = 0 /\ sourceWrites = 0
    /\ audited = [s \in TwoShards |-> [t \in UserTable |-> {}]]
    /\ deletedFrom = {}

-----------------------------------------------------------------------------
(* run, step by step; an error of any step ends it with FAIL.                *)

ThisTable == TableOrder[job.table]
LastPart == job.table = Len(TableOrder) /\ job.shard = 1
NextPart(a) ==
    IF job.shard = 0 THEN [job EXCEPT !.at = a, !.shard = 1, !.rows = {}]
    ELSE [job EXCEPT !.at = a, !.shard = 0, !.table = @ + 1, !.rows = {}]
FirstPart(a) == [job EXCEPT !.at = a, !.shard = 0, !.table = 1, !.rows = {}]

StartBackfill ==
    /\ ~Working /\ backfills < MaxBackfills
    /\ backfills' = backfills + 1
    /\ \E d \in BOOLEAN : job' = [NoJob EXCEPT !.at = "check", !.dry = d]
    /\ deletedFrom' = {}
    /\ UNCHANGED <<source, sourceFriends, sourceWrites, targetVars, audited>>

BackfillFails ==
    /\ Working
    /\ job' = [job EXCEPT !.at = "FAIL"]
    /\ UNCHANGED <<sourceVars, targetVars, backfills, audited>>

\* assertTargetEmpty
TargetsEmpty ==
    \A s \in TwoShards :
        /\ \A t \in UserTable : target[s][t] = {}
        /\ friendRows[s] = {} /\ friendEdges[s] = {}

CheckTargets ==
    /\ job.at = "check"
    /\ job' = [job EXCEPT !.at = IF TargetsEmpty THEN "count" ELSE "FAIL"]
    /\ UNCHANGED <<sourceVars, targetVars, backfills, audited>>

CountSource ==
    /\ job.at = "count"
    /\ LET n == Cardinality(Part(ThisTable, job.shard)) IN
       job' = [job EXCEPT !.expected = n,
                          !.at = IF job.dry \/ n = 0 THEN "audit" ELSE "copy"]
    /\ UNCHANGED <<sourceVars, targetVars, backfills, audited>>

OpenRows ==
    /\ job.at = "copy"
    /\ job' = [job EXCEPT !.at = "batches", !.rows = Part(ThisTable, job.shard)]
    /\ UNCHANGED <<sourceVars, targetVars, backfills, audited>>

\* A full batch, or the last one.
CopyBatch ==
    LET left == job.rows \ target[job.shard][ThisTable] IN
    /\ job.at = "batches" /\ left # {}
    /\ \E b \in SUBSET left :
          /\ Cardinality(b) = BatchRows \/ (b = left /\ Cardinality(b) < BatchRows)
          /\ target' = [target EXCEPT ![job.shard][ThisTable] = @ \cup b]
    /\ UNCHANGED <<sourceVars, friendRows, friendEdges, job, backfills, audited>>

EndCopy ==
    /\ job.at = "batches" /\ job.rows \subseteq target[job.shard][ThisTable]
    /\ job' = [job EXCEPT !.at = IF Cardinality(job.rows) = job.expected THEN "audit" ELSE "FAIL"]
    /\ UNCHANGED <<sourceVars, targetVars, backfills, audited>>

CountTarget ==
    /\ job.at = "audit"
    /\ job' = IF ~job.dry /\ Cardinality(target[job.shard][ThisTable]) # job.expected
              THEN [job EXCEPT !.at = "FAIL"]
              ELSE IF LastPart THEN FirstPart("friends") ELSE NextPart("count")
    /\ UNCHANGED <<sourceVars, targetVars, backfills, audited>>

OpenFriendships ==
    /\ job.at = "friends"
    /\ job' = [job EXCEPT !.at = "pairs", !.pairs = sourceFriends]
    /\ UNCHANGED <<sourceVars, targetVars, backfills, audited>>

\* A friendship of one shard is a row; one of two shards becomes two edges, by one
\* INSERT each, which a failure can come between.
Placed(p) ==
    \/ \E s \in TwoShards : p \in friendRows[s]
    \/ /\ <<p[1], p[2]>> \in friendEdges[p[1] % 2]
       /\ <<p[2], p[1]>> \in friendEdges[p[2] % 2]

CopyFriendship(p) ==
    /\ job.at = "pairs" /\ ~job.dry /\ p \in job.pairs /\ ~Placed(p)
    /\ IF p[1] % 2 = p[2] % 2
       THEN /\ friendRows' = [friendRows EXCEPT ![p[1] % 2] = @ \cup {p}]
            /\ UNCHANGED friendEdges
       ELSE /\ LET e == IF p \in friendEdges[p[1] % 2] THEN <<p[2], p[1]>> ELSE p IN
               friendEdges' = [friendEdges EXCEPT ![e[1] % 2] = @ \cup {e}]
            /\ UNCHANGED friendRows
    /\ UNCHANGED <<sourceVars, target, job, backfills, audited>>

EndFriendships ==
    /\ job.at = "pairs"
    /\ job.dry \/ \A p \in job.pairs : Placed(p)
    /\ job' = IF job.dry THEN [job EXCEPT !.at = "PASS"] ELSE FirstPart("final")
    /\ UNCHANGED <<sourceVars, targetVars, backfills, audited>>

\* Mutant: the tables are not counted again.
SameCountUnasked(s, t) == TRUE

SameCount(s, t) == Cardinality(target[s][t]) = Cardinality(Part(t, s))

\* The friendships are not counted again.
FinalAudit ==
    LET s == job.shard t == ThisTable IN
    /\ job.at = "final"
    /\ audited' = [audited EXCEPT ![s][t] = Part(t, s)]
    /\ job' = IF ~SameCount(s, t) THEN [job EXCEPT !.at = "FAIL"]
              ELSE IF LastPart THEN [job EXCEPT !.at = "PASS"] ELSE NextPart("final")
    /\ UNCHANGED <<sourceVars, targetVars, backfills>>

-----------------------------------------------------------------------------
(* The source goes on being used.                                            *)

WriteSource ==
    /\ sourceWrites < MaxSourceWrites /\ sourceWrites' = sourceWrites + 1
    /\ \/ \E t \in UserTable : \E r \in SourceRow \ source[t] :
             /\ source' = [source EXCEPT ![t] = @ \cup {r}]
             /\ UNCHANGED <<sourceFriends, deletedFrom>>
       \/ \E t \in UserTable : \E r \in source[t] :
             /\ source' = [source EXCEPT ![t] = @ \ {r}]
             /\ deletedFrom' = deletedFrom \cup {t}
             /\ UNCHANGED sourceFriends
       \/ \E p \in FriendPair \ sourceFriends :
             /\ sourceFriends' = sourceFriends \cup {p}
             /\ UNCHANGED <<source, deletedFrom>>
    /\ UNCHANGED <<targetVars, job, backfills, audited>>

BackfillNext ==
    \/ StartBackfill \/ BackfillFails \/ CheckTargets
    \/ CountSource \/ OpenRows \/ CopyBatch \/ EndCopy \/ CountTarget
    \/ OpenFriendships \/ EndFriendships \/ FinalAudit
    \/ \E p \in FriendPair : CopyFriendship(p)
    \/ WriteSource

-----------------------------------------------------------------------------
\* A run that reports PASS has put on each shard the rows of its users, all that the
\* final audit counted, unless rows were deleted meanwhile, which counts cannot
\* tell from rows never written; and all friendships it read, on one shard or as
\* edges of both.  A shard never holds another's rows (run, copyFriendships).
BackfillWhole ==
    /\ \A s \in TwoShards, t \in UserTable : \A r \in target[s][t] : r % 2 = s
    /\ job.at = "PASS" /\ ~job.dry =>
          /\ \A s \in TwoShards, t \in UserTable :
                t \notin deletedFrom => target[s][t] = audited[s][t]
          /\ \A p \in job.pairs : Placed(p)
    /\ job.dry /\ job.at = "PASS" => TargetsEmpty
=============================================================================
