----------------------------- MODULE FarmCommit -----------------------------
(***************************************************************************)
(* The write path of one farm: the gateway resolves a route and sends the  *)
(* command to a farmsvr instance; the instance's Farm Actor cold-loads     *)
(* (advancing the route fence in MySQL first), calls gamesvr, and gamesvr  *)
(* applies the command in one MySQL transaction.  Requests are delayed,    *)
(* lost and resent; actors time out while their transaction runs on;       *)
(* instances crash; ownership moves while old owners still hold commands.  *)
(*                                                                         *)
(* Plot contents are left to FarmField: here a command that reaches the    *)
(* row either passes the rules or is refused by them.  Every command has   *)
(* a stable id (handler.go and the scanner always set one), so the actor's *)
(* local pre-check never refuses.  Requests wait in an unordered set: the  *)
(* bounded queues in front of the actor are the subject of ActorRuntime.   *)
(***************************************************************************)
EXTENDS Integers, Sequences, FiniteSets

CONSTANTS
    Cmd,         \* commands
    NoCmd,       \* an actor's command when it has none
    Key,         \* idempotency keys: (user_id, cmd_id)
    KeyOf,       \* KeyOf[c]: the key command c carries
    Kind,        \* Kind[c]: "receipt", "pet" or "plain"
    Inst,        \* farmsvr instances
    Slot,        \* gamesvr transactions that can run at once
    MaxAttempts, \* mysqlretry.MaxAttempts
    MaxEpoch,    \* bound: ownership changes explored
    MaxTurn,     \* bound: pet reschedulings explored
    MaxInFlight  \* bound: requests on their way at one time

ASSUME CommandAssumption ==
    /\ NoCmd \notin Cmd
    /\ KeyOf \in [Cmd -> Key]
    /\ Kind \in [Cmd -> {"receipt", "pet", "plain"}]

ASSUME BoundAssumption ==
    /\ MaxAttempts \in Nat \ {0}
    /\ MaxEpoch \in Nat \ {0}
    /\ MaxTurn \in Nat
    /\ MaxInFlight \in Nat \ {0}

VARIABLES
    log,      \* durable: the commands applied to the farm row, in order
    fence,    \* durable: farm_snapshots.route_epoch
    petTurn,  \* durable: which next_pet_action_at is current
    receipt,  \* durable: cmd_receipts, key -> result_version (0: no row)
    owners,   \* etcd: owners[e] is the instance published with epoch e
    base,     \* clients: the version (or pet schedule) c was issued against
    acked,    \* clients: the version c was acknowledged with, 0 if none
    requests, \* commands on their way to an instance
    actor,    \* the farm's actor on each instance: its step and command
    hot,      \* the hot snapshot each instance's actor keeps
    tx        \* the gamesvr transactions

vars == <<log, fence, petTurn, receipt, owners, base, acked, requests,
          actor, hot, tx>>

Unsent == -1
Epoch == 0..MaxEpoch
Request == [cmd : Cmd, epoch : 1..MaxEpoch]

Idle == [step |-> "idle", cmd |-> NoCmd, epoch |-> 0]
Cold == [loaded |-> FALSE, version |-> 0, epoch |-> 0]
Free == [step |-> "free", cmd |-> NoCmd, epoch |-> 0, inst |-> NoCmd,
         try |-> 1, waited |-> FALSE, version |-> 0, replayed |-> FALSE]

version == Len(log)
KeepsReceipt(c) == Kind[c] # "plain"
\* Mutant: the row is read without FOR UPDATE.
RowNeverLocks == TRUE

RowUnlocked == \A s \in Slot : tx[s].step # "locked"

-----------------------------------------------------------------------------

Init ==
    /\ log = <<>> /\ fence = 0 /\ petTurn = 0
    /\ receipt = [k \in Key |-> 0]
    /\ owners = <<>>
    /\ base = [c \in Cmd |-> Unsent]
    /\ acked = [c \in Cmd |-> 0]
    /\ requests = {}
    /\ actor = [i \in Inst |-> Idle]
    /\ hot = [i \in Inst |-> Cold]
    /\ tx = [s \in Slot |-> Free]

-----------------------------------------------------------------------------
(* Control plane and clients.                                              *)

\* Instance i claims the farm's bucket: one etcd transaction writes the next
\* epoch and the route.
Claim(i) ==
    /\ Len(owners) < MaxEpoch
    /\ owners' = Append(owners, i)
    /\ UNCHANGED <<log, fence, petTurn, receipt, base, acked, requests, actor,
                   hot, tx>>

\* What c may be issued against: a version some client has seen, the one its
\* own command on the way will make, or, for the pet scanner, the schedule read.
Issuable(c) == IF Kind[c] = "pet" THEN {petTurn} ELSE 0..version + 1

\* c is sent, or sent again after an error or a lost answer, along a route the
\* gateway's watch cache holds: the current one or one it has not yet replaced.
Submit(c) ==
    /\ Cardinality(requests) < MaxInFlight
    /\ \E e \in 1..Len(owners) :
           requests' = requests \cup {[cmd |-> c, epoch |-> e]}
    /\ \/ base[c] # Unsent /\ UNCHANGED base
       \/ /\ base[c] = Unsent
          /\ \E b \in Issuable(c) : base' = [base EXCEPT ![c] = b]
    /\ UNCHANGED <<log, fence, petTurn, receipt, owners, acked, actor, hot, tx>>

\* The scanner pushes the farm's next pet action, or the owner buys a pet or
\* switches auto-harvest: the schedule moves without a command.
Reschedule ==
    /\ petTurn < MaxTurn
    /\ RowUnlocked
    /\ petTurn' = petTurn + 1
    /\ UNCHANGED <<log, fence, receipt, owners, base, acked, requests, actor,
                   hot, tx>>

-----------------------------------------------------------------------------
(* The Farm Actor of one instance.                                         *)

\* Mutant: a hot actor trusts its snapshot under any epoch.
NeedsFirstLoad(i, e) == ~ hot[i].loaded

\* The hot snapshot cannot serve a command stamped with epoch e.
NeedsColdLoad(i, e) == ~ hot[i].loaded \/ e > hot[i].epoch

\* A call to gamesvr: a transaction that first looks for a receipt, if the
\* command keeps one.
Begin(c) == IF KeepsReceipt(c) THEN "begin" ELSE "checked"

Attempt(c, e, i, n, waited) ==
    [step |-> Begin(c), cmd |-> c, epoch |-> e, inst |-> i, try |-> n,
     waited |-> waited, version |-> 0, replayed |-> FALSE]

\* The actor of instance i calls gamesvr with c and waits.
Call(i, c, e) ==
    /\ \E s \in Slot :
        /\ tx[s] = Free
        /\ tx' = [tx EXCEPT ![s] = Attempt(c, e, i, 1, TRUE)]
    /\ actor' = [actor EXCEPT ![i] = [step |-> "wait", cmd |-> c, epoch |-> e]]

\* The actor of the addressed instance starts executing a request.
Take(i) ==
    /\ actor[i] = Idle
    /\ \E r \in requests :
        /\ owners[r.epoch] = i
        /\ requests' = requests \ {r}
        /\ \/ /\ NeedsColdLoad(i, r.epoch)
              /\ actor' = [actor EXCEPT ![i] =
                     [step |-> "fence", cmd |-> r.cmd, epoch |-> r.epoch]]
              /\ UNCHANGED tx
           \/ /\ ~ NeedsColdLoad(i, r.epoch)
              /\ Call(i, r.cmd, r.epoch)
    /\ UNCHANGED <<log, fence, petTurn, receipt, owners, base, acked, hot>>

\* Mutant: the fence is overwritten, not advanced.
OverwriteRouteEpoch(i) ==
    /\ actor[i].step = "fence"
    /\ RowUnlocked
    /\ fence' = actor[i].epoch
    /\ actor' = [actor EXCEPT ![i].step = "load"]
    /\ UNCHANGED <<log, petTurn, receipt, owners, base, acked, requests, hot, tx>>

\* AdvanceRouteEpoch: under the row lock, move the fence up to this owner's
\* epoch, or refuse an owner that the fence has already left behind.
AdvanceRouteEpoch(i) ==
    /\ actor[i].step = "fence"
    /\ RowUnlocked
    /\ \/ /\ actor[i].epoch >= fence
          /\ fence' = actor[i].epoch
          /\ actor' = [actor EXCEPT ![i].step = "load"]
          /\ UNCHANGED hot
       \/ /\ actor[i].epoch < fence
          /\ actor' = [actor EXCEPT ![i] = Idle]
          /\ hot' = [hot EXCEPT ![i] = Cold]
          /\ UNCHANGED fence
    /\ UNCHANGED <<log, petTurn, receipt, owners, base, acked, requests, tx>>

\* LoadSnapshot, a plain read that no row lock blocks; then the actor calls
\* gamesvr with its command.
LoadSnapshot(i) ==
    /\ actor[i].step = "load"
    /\ hot' = [hot EXCEPT ![i] =
                  [loaded |-> TRUE, version |-> version, epoch |-> fence]]
    /\ Call(i, actor[i].cmd, actor[i].epoch)
    /\ UNCHANGED <<log, fence, petTurn, receipt, owners, base, acked, requests>>

\* A cold load fails or times out (its fence update may have been committed):
\* the command is answered with the error and the actor keeps no snapshot.
ColdLoadFails(i) ==
    /\ actor[i].step \in {"fence", "load"}
    /\ actor' = [actor EXCEPT ![i] = Idle]
    /\ hot' = [hot EXCEPT ![i] = Cold]
    /\ UNCHANGED <<log, fence, petTurn, receipt, owners, base, acked, requests, tx>>

\* Mutant: a replayed result is taken for the farm's newest version.
HotAfterAny(h, t) == IF t.version > 0 THEN [h EXCEPT !.version = t.version] ELSE h

\* The snapshot an actor keeps after an answer: a fresh commit moves it to the
\* new version, a replay or an error leaves it alone.
HotAfter(h, t) ==
    IF t.version > 0 /\ ~ t.replayed THEN [h EXCEPT !.version = t.version] ELSE h

\* gamesvr's answer reaches the waiting actor, which passes it on.
Receive(i) ==
    /\ actor[i].step = "wait"
    /\ \E s \in Slot :
        /\ tx[s].step = "answered" /\ tx[s].waited /\ tx[s].inst = i
        /\ tx' = [tx EXCEPT ![s] = Free]
        /\ hot' = [hot EXCEPT ![i] = HotAfter(@, tx[s])]
        /\ acked' = IF tx[s].version > 0
                    THEN [acked EXCEPT ![tx[s].cmd] = tx[s].version] ELSE acked
    /\ actor' = [actor EXCEPT ![i] = Idle]
    /\ UNCHANGED <<log, fence, petTurn, receipt, owners, base, requests>>

\* The transaction nobody waits for any more: its answer is dropped, and one
\* still running goes on until it commits, fails or is cancelled.
Abandoned(t) == IF t.step = "answered" THEN Free ELSE [t EXCEPT !.waited = FALSE]

Forsake(i) ==
    tx' = [s \in Slot |->
              IF tx[s].waited /\ tx[s].inst = i THEN Abandoned(tx[s]) ELSE tx[s]]

\* ExecutionTimeout: the command is answered with an error, the hot snapshot
\* stays as it was, whatever the transaction goes on to do.
Timeout(i) ==
    /\ actor[i].step = "wait"
    /\ Forsake(i)
    /\ actor' = [actor EXCEPT ![i] = Idle]
    /\ UNCHANGED <<log, fence, petTurn, receipt, owners, base, acked, requests, hot>>

\* The instance dies, or an idle actor is evicted.
Crash(i) ==
    /\ actor[i] # Idle \/ hot[i] # Cold
    /\ Forsake(i)
    /\ actor' = [actor EXCEPT ![i] = Idle]
    /\ hot' = [hot EXCEPT ![i] = Cold]
    /\ UNCHANGED <<log, fence, petTurn, receipt, owners, base, acked, requests>>

-----------------------------------------------------------------------------
(* The gamesvr transaction.                                                *)

\* The transaction ends with an answer: version n > 0, or 0 for an error.
Answered(t, n, again) ==
    IF t.waited
    THEN [step |-> "answered", cmd |-> t.cmd, epoch |-> t.epoch,
          inst |-> t.inst, try |-> 1, waited |-> TRUE, version |-> n,
          replayed |-> again]
    ELSE Free

\* A retryable MySQL error rolls back; mysqlretry starts over a bounded number
\* of times.
RolledBack(t) ==
    IF t.try < MaxAttempts
    THEN Attempt(t.cmd, t.epoch, t.inst, t.try + 1, t.waited)
    ELSE Answered(t, 0, FALSE)

\* Mutant: a replay reports the farm's version, not the receipt's.
CheckReceiptNewest(s) ==
    LET t == tx[s] IN
    /\ t.step = "begin"
    /\ tx' = [tx EXCEPT ![s] =
           IF receipt[KeyOf[t.cmd]] > 0 THEN Answered(t, version, TRUE)
           ELSE [t EXCEPT !.step = "checked"]]
    /\ UNCHANGED <<log, fence, petTurn, receipt, owners, base, acked, requests,
                   actor, hot>>

\* checkReceipt: a non-locking read, before the farm row is locked.
CheckReceipt(s) ==
    LET t == tx[s] IN
    /\ t.step = "begin"
    /\ tx' = [tx EXCEPT ![s] =
           IF receipt[KeyOf[t.cmd]] > 0
           THEN Answered(t, receipt[KeyOf[t.cmd]], TRUE)
           ELSE [t EXCEPT !.step = "checked"]]
    /\ UNCHANGED <<log, fence, petTurn, receipt, owners, base, acked, requests,
                   actor, hot>>

\* Mutant: the row's epoch goes unchecked.
RowAcceptsAnyEpoch(t) ==
    base[t.cmd] = IF Kind[t.cmd] = "pet" THEN petTurn ELSE version

\* The checks on the locked row: the route epoch owns the farm, and the row is
\* at the version (the pet schedule) the command was issued against.
RowAccepts(t) ==
    /\ t.epoch = fence
    /\ base[t.cmd] = IF Kind[t.cmd] = "pet" THEN petTurn ELSE version

\* SELECT ... FOR UPDATE, then the checks; a refused command gives the lock
\* straight back.
LockRow(s) ==
    /\ tx[s].step = "checked"
    /\ RowUnlocked
    /\ tx' = [tx EXCEPT ![s] =
           IF RowAccepts(@) THEN [@ EXCEPT !.step = "locked"]
                            ELSE Answered(@, 0, FALSE)]
    /\ UNCHANGED <<log, fence, petTurn, receipt, owners, base, acked, requests,
                   actor, hot>>

\* The transaction rolls back for good: the rules of the game refuse the
\* command, MySQL fails, the call is cancelled or gamesvr dies.
Refuse(s) ==
    /\ tx[s].step \in {"begin", "checked", "locked"}
    /\ tx' = [tx EXCEPT ![s] = Answered(@, 0, FALSE)]
    /\ UNCHANGED <<log, fence, petTurn, receipt, owners, base, acked, requests,
                   actor, hot>>

\* Deadlock victim or lock wait timeout.
TransientError(s) ==
    /\ tx[s].step \in {"checked", "locked"}
    /\ tx' = [tx EXCEPT ![s] = RolledBack(@)]
    /\ UNCHANGED <<log, fence, petTurn, receipt, owners, base, acked, requests,
                   actor, hot>>

\* Mutant: cmd_receipts has no unique key.
NeverDuplicate(c) == FALSE

\* The unique key of cmd_receipts refuses the insert.
DuplicateReceipt(c) == KeepsReceipt(c) /\ receipt[KeyOf[c]] > 0

\* Snapshot, receipt and pet schedule are written and committed together, or
\* the receipt's unique key makes the whole transaction roll back.
Commit(s) ==
    LET t == tx[s] IN
    /\ t.step = "locked"
    /\ \/ /\ DuplicateReceipt(t.cmd)
          /\ tx' = [tx EXCEPT ![s] = RolledBack(t)]
          /\ UNCHANGED <<log, petTurn, receipt>>
       \/ /\ ~ DuplicateReceipt(t.cmd)
          /\ log' = Append(log, [cmd |-> t.cmd, epoch |-> t.epoch])
          /\ receipt' = IF KeepsReceipt(t.cmd)
                        THEN [receipt EXCEPT ![KeyOf[t.cmd]] = version + 1]
                        ELSE receipt
          /\ petTurn' = IF Kind[t.cmd] = "pet" THEN petTurn + 1 ELSE petTurn
          /\ tx' = [tx EXCEPT ![s] = Answered(t, version + 1, FALSE)]
    /\ UNCHANGED <<fence, owners, base, acked, requests, actor, hot>>

-----------------------------------------------------------------------------

Next ==
    \/ Reschedule
    \/ \E c \in Cmd : Submit(c)
    \/ \E i \in Inst :
           \/ Claim(i) \/ Take(i) \/ AdvanceRouteEpoch(i) \/ LoadSnapshot(i)
           \/ ColdLoadFails(i) \/ Receive(i) \/ Timeout(i) \/ Crash(i)
    \/ \E s \in Slot :
           \/ CheckReceipt(s) \/ LockRow(s) \/ Refuse(s) \/ TransientError(s)
           \/ Commit(s)

Spec == Init /\ [][Next]_vars

-----------------------------------------------------------------------------
(* Properties.                                                             *)

Entry == [cmd : Cmd, epoch : Epoch]
Executing == [step : {"fence", "load", "wait"}, cmd : Cmd, epoch : Epoch]
Snapshot == [loaded : BOOLEAN, version : Nat, epoch : Epoch]
Running == [step : {"begin", "checked", "locked", "answered"}, cmd : Cmd,
            epoch : Epoch, inst : Inst, try : 1..MaxAttempts,
            waited : BOOLEAN, version : Nat, replayed : BOOLEAN]

TypeOK ==
    /\ log \in Seq(Entry)
    /\ fence \in Epoch
    /\ petTurn \in Nat
    /\ receipt \in [Key -> Nat]
    /\ owners \in Seq(Inst) /\ Len(owners) <= MaxEpoch
    /\ base \in [Cmd -> Nat \cup {Unsent}]
    /\ acked \in [Cmd -> Nat]
    /\ requests \subseteq Request
    /\ actor \in [Inst -> {Idle} \cup Executing]
    /\ hot \in [Inst -> Snapshot]
    /\ tx \in [Slot -> {Free} \cup Running]

\* Entry n of history h is an effect command c may be answered with: its own,
\* or, for a command that keeps a receipt, that of another command sent under
\* the same cmd_id.
Realizes(h, n, c) ==
    \/ h[n].cmd = c
    \/ /\ KeepsReceipt(c)
       /\ KeepsReceipt(h[n].cmd)
       /\ KeyOf[h[n].cmd] = KeyOf[c]

\* However often a command is resent, over however many owners, orphaned
\* transactions and retries, it takes effect at most once, and so does a
\* cmd_id that keeps a receipt (runtime.go execute, committer receipts).
AppliedAtMostOnce ==
    \A c \in Cmd : \A m, n \in 1..version :
        Realizes(log, m, c) /\ Realizes(log, n, c) => m = n

\* A positive answer is never wrong: the version the client was told is in
\* the durable history and holds the effect of its command, also when the
\* answer is a replay long after (checkReceipt's result_version).
AckedIsApplied ==
    \A c \in Cmd : acked[c] > 0 => acked[c] <= version /\ Realizes(log, acked[c], c)

\* Every command but the pet's changes exactly the version its issuer saw: no
\* lost update, whatever actors and transactions interleave.
AppliedToSeenVersion ==
    \A n \in 1..version : Kind[log[n].cmd] # "pet" => base[log[n].cmd] = n - 1

\* Ownership is fenced: once an entry of a newer owner is in the history, no
\* command an older owner still holds gets in (route_epoch under the row lock).
EpochsInOrder ==
    \A m, n \in 1..version : m <= n => log[m].epoch <= log[n].epoch

\* A transaction runs under an epoch only when the fence of that epoch is
\* durable ("commits before the new farmsvr activates the actor"), so the newest
\* owner is never refused because the row lags behind etcd; and only for the
\* instance that epoch was published with, so no two instances write in the name
\* of one epoch.
WritersFenced ==
    \A s \in Slot : tx[s].step # "free" =>
        /\ tx[s].epoch <= fence
        /\ tx[s].epoch \in 1..Len(owners)
        /\ owners[tx[s].epoch] = tx[s].inst

\* While an actor keeps its snapshot, the version it holds never goes back,
\* although late answers and replays of old commands keep arriving.
HotNeverRewinds ==
    [][\A i \in Inst : hot[i].loaded /\ hot'[i].loaded =>
           hot'[i].version >= hot[i].version]_vars

\* The write path implements the ledger.
Ledger == INSTANCE FarmLedger WITH ledger <- log
ImplementsLedger == Ledger!Spec
=============================================================================
