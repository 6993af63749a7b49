-------------------------- MODULE FarmCommitProofs --------------------------
(***************************************************************************)
(* The safety of the farm write path for any number of commands, instances *)
(* and concurrent transactions, and its refinement of FarmLedger.          *)
(*                                                                         *)
(* None of the properties is inductive alone.  What makes them so is       *)
(* collected in IInv: who may hold a command of which epoch (RouteInv),    *)
(* what the holder of the row lock knows (LockInv), that receipts and      *)
(* history name each other (HistoryInv), that an answer names an entry of  *)
(* the history (AnswerInv), and that an actor's snapshot moves only while  *)
(* no transaction it waits for runs (HotInv).                              *)
(***************************************************************************)
EXTENDS FarmCommit, SequenceTheorems, TLAPS

-----------------------------------------------------------------------------
(* The inductive invariant.                                                *)

\* Whoever holds a command of an epoch is the instance that epoch was given
\* to, and past its cold load the durable fence has reached that epoch.
RequestRoute ==
    \A r \in requests : r.epoch <= Len(owners) /\ base[r.cmd] # Unsent

ActorRoute ==
    \A i \in Inst : actor[i] # Idle =>
        /\ actor[i].epoch \in 1..Len(owners)
        /\ owners[actor[i].epoch] = i
        /\ base[actor[i].cmd] # Unsent
        /\ actor[i].step # "fence" => actor[i].epoch <= fence

TxRoute ==
    \A s \in Slot : tx[s].step # "free" =>
        /\ tx[s].epoch \in 1..Len(owners)
        /\ owners[tx[s].epoch] = tx[s].inst
        /\ base[tx[s].cmd] # Unsent
        /\ tx[s].epoch <= fence

HotRoute ==
    \A i \in Inst : hot[i].loaded => hot[i].epoch <= fence

RouteInv == RequestRoute /\ ActorRoute /\ TxRoute /\ HotRoute

\* The row lock is exclusive, and its holder passed the checks on the row as
\* it still is.
LockInv ==
    /\ \A s \in Slot : tx[s].step = "locked" => RowAccepts(tx[s])
    /\ \A s, t \in Slot :
           tx[s].step = "locked" /\ tx[t].step = "locked" => s = t

\* A receipt names the entry its command made, and such an entry is named by
\* its receipt.
ReceiptNamed ==
    \A n \in 1..version :
        /\ log[n].epoch <= fence
        /\ base[log[n].cmd] # Unsent
        /\ KeepsReceipt(log[n].cmd) => receipt[KeyOf[log[n].cmd]] = n

ReceiptNames ==
    \A k \in Key : receipt[k] > 0 =>
        /\ receipt[k] <= version
        /\ KeepsReceipt(log[receipt[k]].cmd)
        /\ KeyOf[log[receipt[k]].cmd] = k

HistoryInv ==
    ReceiptNamed /\ ReceiptNames /\ EpochsInOrder /\ AppliedToSeenVersion

\* A positive answer, on its way or received, names an entry with the effect
\* of its command; only commands that keep a receipt look for one.
AnswerOK(t) ==
    /\ t.step = "begin" => KeepsReceipt(t.cmd)
    /\ t.step = "answered" /\ t.version > 0 =>
           t.version <= version /\ Realizes(log, t.version, t.cmd)

AnswerInv == (\A s \in Slot : AnswerOK(tx[s])) /\ AckedIsApplied

\* An instance waits for at most one transaction, its snapshot is not ahead
\* of the row, and the answer of a fresh commit is not behind the snapshot.
WaitInv ==
    /\ \A s \in Slot : tx[s].step = "answered" => tx[s].waited
    /\ \A s \in Slot : tx[s].waited => actor[tx[s].inst].step = "wait"
    /\ \A s, t \in Slot :
           tx[s].waited /\ tx[t].waited /\ tx[s].inst = tx[t].inst => s = t

HotInv ==
    /\ \A i \in Inst : hot[i].loaded => hot[i].version <= version
    /\ \A s \in Slot :
           /\ tx[s].step = "answered"
           /\ tx[s].version > 0
           /\ ~ tx[s].replayed
           /\ hot[tx[s].inst].loaded
           => tx[s].version >= hot[tx[s].inst].version

IInv == TypeOK /\ RouteInv /\ LockInv /\ HistoryInv /\ AnswerInv /\ WaitInv
            /\ HotInv

-----------------------------------------------------------------------------
(* Type correctness.                                                       *)

LEMMA TypeInit == Init => TypeOK
  BY CommandAssumption, BoundAssumption
  DEF Init, TypeOK, Idle, Cold, Free, Epoch, Unsent, Snapshot

\* A transaction that answers, fails or starts over stays a transaction.
LEMMA AnsweredType ==
  ASSUME NEW t \in Running, NEW n \in Nat, NEW again \in BOOLEAN
  PROVE  Answered(t, n, again) \in {Free} \cup Running
  BY BoundAssumption DEF Answered, Running

LEMMA RolledBackType ==
  ASSUME NEW t \in Running
  PROVE  RolledBack(t) \in {Free} \cup Running
<1>1. CASE t.try < MaxAttempts
  BY <1>1, BoundAssumption DEF RolledBack, Running, Attempt, Begin
<1>2. CASE ~ (t.try < MaxAttempts)
  BY <1>2, AnsweredType DEF RolledBack
<1> QED BY <1>1, <1>2

LEMMA CallType ==
  ASSUME TypeOK, NEW i \in Inst, NEW c \in Cmd, NEW e \in Epoch, Call(i, c, e)
  PROVE  /\ actor' \in [Inst -> {Idle} \cup Executing]
         /\ tx' \in [Slot -> {Free} \cup Running]
  BY BoundAssumption DEF TypeOK, Call, Attempt, Begin, Running, Executing

LEMMA TypeNext == TypeOK /\ [Next]_vars => TypeOK'
<1> SUFFICES ASSUME TypeOK, [Next]_vars PROVE TypeOK'
  OBVIOUS
<1> USE CommandAssumption, BoundAssumption
<1>1. CASE Reschedule
  BY <1>1 DEF TypeOK, Reschedule
<1>2. CASE \E c \in Cmd : Submit(c)
  <2> PICK c \in Cmd : Submit(c)
    BY <1>2
  <2>1. requests' \subseteq Request
    BY DEF TypeOK, Submit, Request
  <2>2. base' \in [Cmd -> Nat \cup {Unsent}]
    <3>1. version \in Nat
      BY LenProperties DEF TypeOK, version
    <3>2. Issuable(c) \subseteq Nat
      BY <3>1 DEF TypeOK, Issuable
    <3> QED BY <3>2 DEF TypeOK, Submit
  <2> QED BY <2>1, <2>2 DEF TypeOK, Submit
<1>3. ASSUME NEW i \in Inst, Claim(i) PROVE TypeOK'
  BY <1>3, AppendProperties DEF TypeOK, Claim
<1>4. ASSUME NEW i \in Inst, Take(i) PROVE TypeOK'
  <2> PICK r \in requests :
        /\ requests' = requests \ {r}
        /\ \/ /\ actor' = [actor EXCEPT ![i] =
                     [step |-> "fence", cmd |-> r.cmd, epoch |-> r.epoch]]
              /\ UNCHANGED tx
           \/ Call(i, r.cmd, r.epoch)
    BY <1>4 DEF Take
  <2>1. r.cmd \in Cmd /\ r.epoch \in Epoch
    BY DEF TypeOK, Request, Epoch
  <2>2. /\ actor' \in [Inst -> {Idle} \cup Executing]
        /\ tx' \in [Slot -> {Free} \cup Running]
    <3>1. [step |-> "fence", cmd |-> r.cmd, epoch |-> r.epoch] \in Executing
      BY <2>1 DEF Executing
    <3>2. CASE Call(i, r.cmd, r.epoch)
      BY <2>1, <3>2, CallType
    <3>3. CASE ~ Call(i, r.cmd, r.epoch)
      <4>1. /\ tx' = tx
            /\ actor' = [actor EXCEPT ![i] =
                   [step |-> "fence", cmd |-> r.cmd, epoch |-> r.epoch]]
        BY <3>3
      <4>2. \A v : v \in Executing =>
                [actor EXCEPT ![i] = v] \in [Inst -> {Idle} \cup Executing]
        BY DEF TypeOK
      <4> QED BY <3>1, <4>1, <4>2 DEF TypeOK
    <3> QED BY <3>2, <3>3
  <2> QED BY <1>4, <2>2 DEF TypeOK, Take
<1>5. ASSUME NEW i \in Inst, AdvanceRouteEpoch(i) PROVE TypeOK'
  <2>1. actor[i] \in Executing
    BY <1>5 DEF TypeOK, AdvanceRouteEpoch, Idle
  <2>2. [actor[i] EXCEPT !.step = "load"] \in Executing /\ actor[i].epoch \in Epoch
    BY <2>1 DEF Executing
  <2>3. Cold \in Snapshot
    BY DEF Cold, Snapshot, Epoch
  <2>4. /\ actor' \in [Inst -> {Idle} \cup Executing]
        /\ hot' \in [Inst -> Snapshot] /\ fence' \in Epoch
    <3>1. /\ actor \in [Inst -> {Idle} \cup Executing]
          /\ hot \in [Inst -> Snapshot] /\ fence \in Epoch
      BY DEF TypeOK
    <3>2. CASE /\ fence' = actor[i].epoch /\ UNCHANGED hot
               /\ actor' = [actor EXCEPT ![i].step = "load"]
      BY <2>2, <3>1, <3>2
    <3>3. CASE /\ UNCHANGED fence /\ hot' = [hot EXCEPT ![i] = Cold]
               /\ actor' = [actor EXCEPT ![i] = Idle]
      BY <2>3, <3>1, <3>3
    <3> QED BY <1>5, <3>2, <3>3 DEF AdvanceRouteEpoch
  <2> QED BY <1>5, <2>4 DEF TypeOK, AdvanceRouteEpoch
<1>6. ASSUME NEW i \in Inst, LoadSnapshot(i) PROVE TypeOK'
  <2>1. actor[i].cmd \in Cmd /\ actor[i].epoch \in Epoch
    BY <1>6 DEF TypeOK, LoadSnapshot, Executing, Idle
  <2>2. hot' \in [Inst -> Snapshot]
    BY <1>6, LenProperties DEF TypeOK, LoadSnapshot, Snapshot, version
  <2> QED BY <1>6, <2>1, <2>2, CallType DEF TypeOK, LoadSnapshot
<1>7. ASSUME NEW i \in Inst, ColdLoadFails(i) PROVE TypeOK'
  BY <1>7 DEF TypeOK, ColdLoadFails, Cold, Snapshot, Epoch
<1>8. ASSUME NEW i \in Inst, Receive(i) PROVE TypeOK'
  <2> PICK s \in Slot :
        /\ tx[s].step = "answered" /\ tx' = [tx EXCEPT ![s] = Free]
        /\ hot' = [hot EXCEPT ![i] = HotAfter(@, tx[s])]
        /\ acked' = IF tx[s].version > 0
                    THEN [acked EXCEPT ![tx[s].cmd] = tx[s].version] ELSE acked
    BY <1>8 DEF Receive
  <2>1. tx[s] \in Running
    BY DEF TypeOK, Free
  <2>2. HotAfter(hot[i], tx[s]) \in Snapshot
    <3>1. hot[i] \in Snapshot /\ tx[s].version \in Nat
      BY <2>1 DEF TypeOK, Running
    <3>2. [hot[i] EXCEPT !.version = tx[s].version] \in Snapshot
      BY <3>1 DEF Snapshot
    <3> QED BY <3>1, <3>2 DEF HotAfter
  <2>3. acked' \in [Cmd -> Nat]
    BY <2>1 DEF TypeOK, Running
  <2> QED BY <1>8, <2>1, <2>2, <2>3 DEF TypeOK, Receive
<1>9. ASSUME NEW i \in Inst, Forsake(i) PROVE tx' \in [Slot -> {Free} \cup Running]
  <2>1. ASSUME NEW t \in {Free} \cup Running PROVE Abandoned(t) \in {Free} \cup Running
    <3>1. CASE t = Free
      BY <3>1 DEF Abandoned, Free
    <3>2. CASE t \in Running
      BY <3>2 DEF Abandoned, Running
    <3> QED BY <3>1, <3>2
  <2> QED BY <1>9, <2>1 DEF TypeOK, Forsake
<1>10. ASSUME NEW i \in Inst, Timeout(i) PROVE TypeOK'
  BY <1>9, <1>10 DEF TypeOK, Timeout
<1>11. ASSUME NEW i \in Inst, Crash(i) PROVE TypeOK'
  BY <1>9, <1>11 DEF TypeOK, Crash, Cold, Snapshot, Epoch
<1>12. ASSUME NEW s \in Slot, CheckReceipt(s) PROVE TypeOK'
  <2>1. tx[s] \in Running /\ receipt[KeyOf[tx[s].cmd]] \in Nat
    BY <1>12 DEF TypeOK, CheckReceipt, Free, Running
  <2>2. [tx[s] EXCEPT !.step = "checked"] \in Running
    BY <2>1 DEF Running
  <2> QED BY <1>12, <2>1, <2>2, AnsweredType DEF TypeOK, CheckReceipt
<1>13. ASSUME NEW s \in Slot, LockRow(s) PROVE TypeOK'
  <2>1. tx[s] \in Running
    BY <1>13 DEF TypeOK, LockRow, Free
  <2>2. [tx[s] EXCEPT !.step = "locked"] \in Running
    BY <2>1 DEF Running
  <2> QED BY <1>13, <2>1, <2>2, AnsweredType DEF TypeOK, LockRow
<1>14. ASSUME NEW s \in Slot, Refuse(s) PROVE TypeOK'
  <2>1. tx[s] \in Running
    BY <1>14 DEF TypeOK, Refuse, Free
  <2> QED BY <1>14, <2>1, AnsweredType DEF TypeOK, Refuse
<1>15. ASSUME NEW s \in Slot, TransientError(s) PROVE TypeOK'
  <2>1. tx[s] \in Running
    BY <1>15 DEF TypeOK, TransientError, Free
  <2> QED BY <1>15, <2>1, RolledBackType DEF TypeOK, TransientError
<1>16. ASSUME NEW s \in Slot, Commit(s) PROVE TypeOK'
  <2>1. tx[s] \in Running
    BY <1>16 DEF TypeOK, Commit, Free
  <2>2. CASE DuplicateReceipt(tx[s].cmd)
    <3>1. RolledBack(tx[s]) \in {Free} \cup Running
      BY <2>1, RolledBackType
    <3>2. /\ tx' = [tx EXCEPT ![s] = RolledBack(tx[s])]
          /\ UNCHANGED <<log, fence, petTurn, receipt, owners, base, acked, requests, actor, hot>>
      BY <1>16, <2>2 DEF Commit
    <3> QED BY <3>1, <3>2 DEF TypeOK
  <2>3. CASE ~ DuplicateReceipt(tx[s].cmd)
    <3>1. version + 1 \in Nat
      BY LenProperties DEF TypeOK, version
    <3>2. log' \in Seq(Entry)
      <4>1. [cmd |-> tx[s].cmd, epoch |-> tx[s].epoch] \in Entry
        BY <2>1 DEF Entry, Running
      <4>2. log' = Append(log, [cmd |-> tx[s].cmd, epoch |-> tx[s].epoch])
        BY <1>16, <2>3 DEF Commit
      <4> QED BY <4>1, <4>2, AppendProperties DEF TypeOK
    <3>3. /\ receipt' \in [Key -> Nat]
          /\ petTurn' \in Nat
      <4>1. KeyOf[tx[s].cmd] \in Key
        BY <2>1 DEF Running
      <4>2. /\ receipt' = IF KeepsReceipt(tx[s].cmd)
                         THEN [receipt EXCEPT ![KeyOf[tx[s].cmd]] = version + 1]
                         ELSE receipt
            /\ petTurn' = IF Kind[tx[s].cmd] = "pet" THEN petTurn + 1 ELSE petTurn
        BY <1>16, <2>3 DEF Commit
      <4> QED BY <3>1, <4>1, <4>2 DEF TypeOK
    <3>4. tx' \in [Slot -> {Free} \cup Running]
      <4>1. Answered(tx[s], version + 1, FALSE) \in {Free} \cup Running
        BY <2>1, <3>1, AnsweredType
      <4> QED BY <1>16, <2>3, <4>1 DEF TypeOK, Commit
    <3> QED BY <1>16, <3>2, <3>3, <3>4 DEF TypeOK, Commit
  <2> QED BY <2>2, <2>3
<1>17. CASE UNCHANGED vars
  BY <1>17 DEF TypeOK, vars
<1> QED
  BY <1>1, <1>2, <1>3, <1>4, <1>5, <1>6, <1>7, <1>8, <1>10, <1>11, <1>12,
     <1>13, <1>14, <1>15, <1>16, <1>17
  DEF Next

-----------------------------------------------------------------------------
(* How a step may change the transactions.                                 *)

\* u is t later: the same call, no longer waited for perhaps, or nothing.
Continues(t, u) ==
    /\ u.step # "free" => /\ t.step # "free" /\ u.cmd = t.cmd
                          /\ u.epoch = t.epoch /\ u.inst = t.inst
    /\ u.waited => t.waited

LEMMA SlotSet ==
  ASSUME TypeOK, NEW s \in Slot, NEW u, tx' = [tx EXCEPT ![s] = u]
  PROVE  tx'[s] = u
  BY DEF TypeOK

\* One of the transaction's own steps, as the rest of the state sees it.
SlotStep(s) ==
    CheckReceipt(s) \/ LockRow(s) \/ Refuse(s) \/ TransientError(s) \/ Commit(s)

LEMMA SlotFrame ==
  ASSUME TypeOK, NEW s \in Slot, SlotStep(s)
  PROVE  /\ tx[s] \in Running
         /\ tx[s].step \in {"begin", "checked", "locked"}
         /\ \A t \in Slot \ {s} : tx'[t] = tx[t]
         /\ Continues(tx[s], tx'[s])
         /\ UNCHANGED <<fence, owners, base, acked, requests, actor, hot>>
<1>1. tx[s].step \in {"begin", "checked", "locked"}
  BY DEF SlotStep, CheckReceipt, LockRow, Refuse, TransientError, Commit
<1>2. tx[s] \in Running
  BY <1>1 DEF TypeOK, Free
<1>3. /\ \A t \in Slot \ {s} : tx'[t] = tx[t]
      /\ UNCHANGED <<fence, owners, base, acked, requests, actor, hot>>
  BY DEF TypeOK, SlotStep, CheckReceipt, LockRow, Refuse, TransientError, Commit
<1>4. ASSUME NEW n, NEW again PROVE Continues(tx[s], Answered(tx[s], n, again))
  BY <1>1 DEF Continues, Answered, Free
<1>5. Continues(tx[s], RolledBack(tx[s]))
  BY <1>1, <1>4 DEF Continues, RolledBack, Attempt
<1>6. ASSUME NEW w \in {"checked", "locked"}
      PROVE  Continues(tx[s], [tx[s] EXCEPT !.step = w])
  BY <1>1, <1>2 DEF Continues, Running
<1>7. \/ \E n, again : tx'[s] = Answered(tx[s], n, again)
      \/ tx'[s] = RolledBack(tx[s])
      \/ \E w \in {"checked", "locked"} : tx'[s] = [tx[s] EXCEPT !.step = w]
  <2>1. CASE CheckReceipt(s)
    BY <2>1 DEF TypeOK, CheckReceipt
  <2>2. CASE LockRow(s)
    BY <2>2 DEF TypeOK, LockRow
  <2>3. CASE Refuse(s)
    BY <2>3 DEF TypeOK, Refuse
  <2>4. CASE TransientError(s)
    BY <2>4 DEF TypeOK, TransientError
  <2>5. CASE Commit(s)
    <3>1. CASE DuplicateReceipt(tx[s].cmd)
      BY <2>5, <3>1 DEF TypeOK, Commit
    <3>2. CASE ~ DuplicateReceipt(tx[s].cmd)
      <4>1. tx' = [tx EXCEPT ![s] = Answered(tx[s], version + 1, FALSE)]
        BY <2>5, <3>2 DEF Commit
      <4> QED BY <4>1 DEF TypeOK
    <3> QED BY <3>1, <3>2
  <2> QED BY <2>1, <2>2, <2>3, <2>4, <2>5 DEF SlotStep
<1> QED BY <1>1, <1>2, <1>3, <1>4, <1>5, <1>6, <1>7

\* An actor that stops waiting leaves other instances' transactions alone.
LEMMA ForsakeFrame ==
  ASSUME TypeOK, NEW i \in Inst, Forsake(i), NEW s \in Slot
  PROVE  /\ Continues(tx[s], tx'[s])
         /\ tx'[s] = Free \/ tx'[s] = tx[s]
               \/ (tx'[s] = [tx[s] EXCEPT !.waited = FALSE] /\ tx[s].step # "answered")
         /\ tx'[s].waited => tx'[s] = tx[s] /\ tx[s].inst # i
<1>1. CASE tx[s] = Free
  BY <1>1 DEF Forsake, Continues, Free
<1>2. CASE tx[s] \in Running
  BY <1>2 DEF Forsake, Abandoned, Continues, Free, Running
<1> QED BY <1>1, <1>2 DEF TypeOK

\* A call fills a free slot and leaves the others alone.
LEMMA CallFrame ==
  ASSUME TypeOK, NEW i \in Inst, NEW c \in Cmd, NEW e \in Epoch, Call(i, c, e)
  PROVE  /\ actor' = [actor EXCEPT ![i] = [step |-> "wait", cmd |-> c, epoch |-> e]]
         /\ \E s \in Slot :
               /\ tx[s] = Free
               /\ tx'[s] = Attempt(c, e, i, 1, TRUE)
               /\ \A t \in Slot \ {s} : tx'[t] = tx[t]
  BY DEF TypeOK, Call

-----------------------------------------------------------------------------
(* Routes.                                                                 *)

\* Commands in hand keep their route while owners only grow, the fence only
\* advances and a base version, once given, stays.
LEMMA TxRouteFrame ==
  ASSUME TypeOK, TypeOK', TxRoute, NEW s \in Slot, tx'[s].step # "free",
         Continues(tx[s], tx'[s]), fence <= fence',
         \A c \in Cmd : base[c] # Unsent => base'[c] = base[c],
         Len(owners) <= Len(owners'),
         \A e \in 1..Len(owners) : owners'[e] = owners[e]
  PROVE  /\ tx'[s].epoch \in 1..Len(owners')
         /\ owners'[tx'[s].epoch] = tx'[s].inst
         /\ base'[tx'[s].cmd] # Unsent
         /\ tx'[s].epoch <= fence'
<1>1. tx[s] \in Running
  BY DEF TypeOK, Continues, Free
<1>2. /\ fence \in Nat /\ fence' \in Nat /\ tx[s].epoch \in Nat /\ tx[s].cmd \in Cmd
      /\ Len(owners) \in Nat /\ Len(owners') \in Nat
  BY <1>1, LenProperties DEF TypeOK, Epoch, Running
<1> QED BY <1>2 DEF TxRoute, Continues

LEMMA ActorRouteFrame ==
  ASSUME TypeOK, TypeOK', ActorRoute, NEW i \in Inst, actor'[i] # Idle,
         actor[i] # Idle, actor'[i].cmd = actor[i].cmd,
         actor'[i].epoch = actor[i].epoch,
         actor'[i].step # "fence" =>
             actor[i].step # "fence" \/ actor'[i].epoch <= fence',
         fence <= fence',
         \A c \in Cmd : base[c] # Unsent => base'[c] = base[c],
         Len(owners) <= Len(owners'),
         \A e \in 1..Len(owners) : owners'[e] = owners[e]
  PROVE  /\ actor'[i].epoch \in 1..Len(owners')
         /\ owners'[actor'[i].epoch] = i
         /\ base'[actor'[i].cmd] # Unsent
         /\ actor'[i].step # "fence" => actor'[i].epoch <= fence'
<1>1. actor[i] \in Executing
  BY DEF TypeOK
<1>2. /\ fence \in Nat /\ fence' \in Nat /\ actor[i].epoch \in Nat
      /\ actor[i].cmd \in Cmd /\ Len(owners) \in Nat /\ Len(owners') \in Nat
  BY <1>1, LenProperties DEF TypeOK, Epoch, Executing
<1> QED BY <1>2 DEF ActorRoute

LEMMA RouteNext ==
  ASSUME TypeOK, TypeOK', RouteInv, [Next]_vars
  PROVE  RouteInv'
<1> USE DEF Unsent
<1>0. /\ Len(owners) \in Nat /\ fence \in Nat /\ fence' \in Nat
      /\ Len(owners') \in Nat
  BY LenProperties DEF TypeOK, Epoch
<1>1. CASE Reschedule \/ UNCHANGED vars
  BY <1>1 DEF Reschedule, vars, RouteInv, RequestRoute, ActorRoute, TxRoute, HotRoute
<1>2. ASSUME NEW c \in Cmd, Submit(c) PROVE RouteInv'
  <2>1. \A d \in Cmd : base[d] # Unsent => base'[d] = base[d]
    BY <1>2 DEF TypeOK, Submit
  <2>2. base'[c] # Unsent
    <3>1. version \in Nat
      BY LenProperties DEF TypeOK, version
    <3> QED BY <1>2, <3>1 DEF TypeOK, Submit, Issuable
  <2>3. RequestRoute'
    <3>1. PICK e \in 1..Len(owners) :
            requests' = requests \cup {[cmd |-> c, epoch |-> e]}
      BY <1>2 DEF Submit
    <3>2. \A r \in requests : r.cmd \in Cmd
      BY DEF TypeOK, Request
    <3> QED BY <1>0, <1>2, <2>1, <2>2, <3>1, <3>2
        DEF RouteInv, RequestRoute, Submit
  <2>4. ActorRoute'
    BY <1>0, <1>2, <2>1, ActorRouteFrame DEF RouteInv, Submit, ActorRoute
  <2>5. TxRoute'
    <3>1. \A s \in Slot : Continues(tx[s], tx'[s])
      BY <1>2 DEF Submit, Continues
    <3> QED BY <1>0, <1>2, <2>1, <3>1, TxRouteFrame DEF RouteInv, Submit, TxRoute
  <2> QED BY <1>2, <2>3, <2>4, <2>5 DEF RouteInv, HotRoute, Submit
<1>3. ASSUME NEW i \in Inst, Claim(i) PROVE RouteInv'
  <2>1. /\ Len(owners') = Len(owners) + 1
        /\ \A e \in 1..Len(owners) : owners'[e] = owners[e]
    BY <1>0, <1>3, AppendProperties DEF TypeOK, Claim
  <2>2. RequestRoute'
    <3>1. \A r \in requests : r.epoch \in Nat
      BY DEF TypeOK, Request
    <3> QED BY <1>0, <1>3, <2>1, <3>1 DEF RouteInv, RequestRoute, Claim
  <2>3. ActorRoute'
    BY <1>0, <1>3, <2>1, ActorRouteFrame DEF RouteInv, Claim, ActorRoute
  <2>4. TxRoute'
    <3>1. \A s \in Slot : Continues(tx[s], tx'[s])
      BY <1>3 DEF Claim, Continues
    <3> QED BY <1>0, <1>3, <2>1, <3>1, TxRouteFrame DEF RouteInv, Claim, TxRoute
  <2> QED BY <1>3, <2>2, <2>3, <2>4 DEF RouteInv, HotRoute, Claim
<1>4. ASSUME NEW i \in Inst, NEW c \in Cmd, NEW e \in Epoch, Call(i, c, e),
             e \in 1..Len(owners), owners[e] = i, base[c] # Unsent, e <= fence,
             UNCHANGED <<fence, owners, base>>
      PROVE  ActorRoute' /\ TxRoute'
  <2>0. /\ actor' = [actor EXCEPT ![i] = [step |-> "wait", cmd |-> c, epoch |-> e]]
        /\ \E s \in Slot :
              /\ tx[s] = Free
              /\ tx'[s] = Attempt(c, e, i, 1, TRUE)
              /\ \A t \in Slot \ {s} : tx'[t] = tx[t]
    BY <1>4, CallFrame, Zenon
  <2>1. ActorRoute'
    BY <1>4, <2>0 DEF TypeOK, RouteInv, ActorRoute
  <2>2. PICK s \in Slot : /\ tx'[s] = Attempt(c, e, i, 1, TRUE)
                          /\ \A t \in Slot \ {s} : tx'[t] = tx[t]
    BY <2>0
  <2> QED BY <1>4, <2>1, <2>2 DEF RouteInv, TxRoute, Attempt
<1>5. ASSUME NEW i \in Inst, Take(i) PROVE RouteInv'
  <2> PICK r \in requests :
        /\ owners[r.epoch] = i
        /\ requests' = requests \ {r}
        /\ \/ /\ actor' = [actor EXCEPT ![i] =
                     [step |-> "fence", cmd |-> r.cmd, epoch |-> r.epoch]]
              /\ UNCHANGED tx
           \/ ~ NeedsColdLoad(i, r.epoch) /\ Call(i, r.cmd, r.epoch)
    BY <1>5 DEF Take
  <2>1. /\ r.cmd \in Cmd /\ r.epoch \in Epoch /\ r.epoch \in 1..Len(owners)
        /\ base[r.cmd] # Unsent
    BY <1>0 DEF TypeOK, Request, Epoch, RouteInv, RequestRoute
  <2>2. UNCHANGED <<fence, owners, base, hot>>
    BY <1>5 DEF Take
  <2>3. RequestRoute' /\ HotRoute'
    BY <2>2 DEF RouteInv, RequestRoute, HotRoute
  <2>4. CASE ~ NeedsColdLoad(i, r.epoch) /\ Call(i, r.cmd, r.epoch)
    <3>1. r.epoch <= fence
      BY <1>0, <2>1, <2>4 DEF TypeOK, Snapshot, Epoch, RouteInv, HotRoute, NeedsColdLoad
    <3> QED BY <1>4, <2>1, <2>2, <2>3, <2>4, <3>1 DEF RouteInv
  <2>5. CASE /\ actor' = [actor EXCEPT ![i] =
                     [step |-> "fence", cmd |-> r.cmd, epoch |-> r.epoch]]
             /\ UNCHANGED tx
    <3>1. ActorRoute'
      BY <2>1, <2>2, <2>5 DEF TypeOK, RouteInv, ActorRoute
    <3>2. TxRoute'
      BY <2>2, <2>5 DEF RouteInv, TxRoute
    <3> QED BY <2>3, <3>1, <3>2 DEF RouteInv
  <2> QED BY <2>4, <2>5
<1>6. ASSUME NEW i \in Inst, AdvanceRouteEpoch(i) PROVE RouteInv'
  <2>1. UNCHANGED <<owners, base, requests, tx>>
    BY <1>6 DEF AdvanceRouteEpoch
  <2>2. actor[i] \in Executing /\ actor[i].epoch \in Nat
    BY <1>6 DEF TypeOK, AdvanceRouteEpoch, Idle, Executing, Epoch
  <2>3. CASE actor[i].epoch >= fence
    <3>1. /\ fence' = actor[i].epoch
          /\ actor' = [actor EXCEPT ![i] = [actor[i] EXCEPT !.step = "load"]]
          /\ hot' = hot
      BY <1>6, <2>3, <1>0, <2>2 DEF AdvanceRouteEpoch
    <3>2. /\ actor'[i].cmd = actor[i].cmd /\ actor'[i].epoch = actor[i].epoch
          /\ \A j \in Inst \ {i} : actor'[j] = actor[j]
      BY <2>2, <3>1 DEF TypeOK, Executing
    <3>3. ActorRoute'
      <4> SUFFICES ASSUME NEW j \in Inst, actor'[j] # Idle
                   PROVE  /\ actor'[j].epoch \in 1..Len(owners')
                          /\ owners'[actor'[j].epoch] = j
                          /\ base'[actor'[j].cmd] # Unsent
                          /\ actor'[j].step # "fence" => actor'[j].epoch <= fence'
        BY DEF ActorRoute
      <4>1. fence <= fence' /\ fence' = actor[i].epoch
        BY <2>3, <3>1
      <4>2. CASE j = i
        BY <1>0, <1>6, <2>1, <2>2, <3>1, <3>2, <4>1, <4>2
        DEF RouteInv, ActorRoute, AdvanceRouteEpoch, Idle
      <4>3. CASE j # i
        BY <1>0, <2>1, <3>2, <4>1, <4>3, ActorRouteFrame DEF RouteInv
      <4> QED BY <4>2, <4>3
    <3>4. TxRoute'
      <4>1. \A s \in Slot : Continues(tx[s], tx'[s])
        BY <2>1 DEF Continues
      <4>2. fence <= fence'
        BY <2>3, <3>1
      <4> QED BY <1>0, <2>1, <4>1, <4>2, TxRouteFrame DEF RouteInv, TxRoute
    <3>5. HotRoute'
      BY <1>0, <2>3, <3>1 DEF TypeOK, Snapshot, Epoch, RouteInv, HotRoute
    <3> QED BY <2>1, <3>3, <3>4, <3>5 DEF RouteInv, RequestRoute
  <2>4. CASE ~ (actor[i].epoch >= fence)
    <3>1. /\ fence' = fence
          /\ actor' = [actor EXCEPT ![i] = Idle]
          /\ hot' = [hot EXCEPT ![i] = Cold]
      BY <1>6, <2>4, <1>0, <2>2 DEF AdvanceRouteEpoch
    <3> QED BY <2>1, <3>1
        DEF TypeOK, RouteInv, RequestRoute, ActorRoute, TxRoute, HotRoute, Cold
  <2> QED BY <2>3, <2>4
<1>7. ASSUME NEW i \in Inst, LoadSnapshot(i) PROVE RouteInv'
  <2>1. actor[i] \in Executing /\ actor[i] # Idle /\ actor[i].step = "load"
    BY <1>7 DEF TypeOK, LoadSnapshot, Idle
  <2>2. /\ actor[i].epoch \in 1..Len(owners) /\ owners[actor[i].epoch] = i
        /\ base[actor[i].cmd] # Unsent /\ actor[i].epoch <= fence
        /\ actor[i].cmd \in Cmd /\ actor[i].epoch \in Epoch
    BY <2>1 DEF RouteInv, ActorRoute, Executing
  <2>3. ActorRoute' /\ TxRoute'
    BY <1>4, <1>7, <2>2 DEF LoadSnapshot
  <2>4. HotRoute'
    BY <1>0, <1>7 DEF TypeOK, RouteInv, HotRoute, LoadSnapshot
  <2> QED BY <1>7, <2>3, <2>4 DEF RouteInv, RequestRoute, LoadSnapshot
<1>8. ASSUME NEW i \in Inst, ColdLoadFails(i) PROVE RouteInv'
  BY <1>8 DEF TypeOK, ColdLoadFails, RouteInv, RequestRoute, ActorRoute, TxRoute,
              HotRoute, Cold
<1>9. ASSUME NEW i \in Inst, Receive(i) PROVE RouteInv'
  <2> PICK s \in Slot : /\ tx' = [tx EXCEPT ![s] = Free]
                        /\ hot' = [hot EXCEPT ![i] = HotAfter(@, tx[s])]
    BY <1>9 DEF Receive
  <2>1. TxRoute'
    BY <1>9 DEF TypeOK, RouteInv, TxRoute, Receive, Free
  <2>2. ActorRoute'
    BY <1>9 DEF TypeOK, RouteInv, ActorRoute, Receive
  <2>3. hot'[i].loaded = hot[i].loaded /\ hot'[i].epoch = hot[i].epoch
    BY DEF TypeOK, Snapshot, HotAfter
  <2>4. HotRoute'
    BY <1>9, <2>3 DEF TypeOK, RouteInv, HotRoute, Receive
  <2> QED BY <1>9, <2>1, <2>2, <2>4 DEF RouteInv, RequestRoute, Receive
<1>10. ASSUME NEW i \in Inst, Timeout(i) \/ Crash(i) PROVE RouteInv'
  <2>1. /\ UNCHANGED <<fence, owners, base, requests>>
        /\ actor' = [actor EXCEPT ![i] = Idle]
        /\ hot' = hot \/ hot' = [hot EXCEPT ![i] = Cold]
        /\ Forsake(i)
    BY <1>10 DEF Timeout, Crash
  <2>2. TxRoute'
    <3>1. \A s \in Slot : Continues(tx[s], tx'[s])
      BY <2>1, ForsakeFrame
    <3> QED BY <1>0, <2>1, <3>1, TxRouteFrame DEF RouteInv, TxRoute
  <2>3. ActorRoute'
    BY <2>1 DEF TypeOK, RouteInv, ActorRoute
  <2>4. HotRoute'
    <3>1. CASE hot' = hot
      BY <2>1, <3>1 DEF RouteInv, HotRoute
    <3>2. CASE hot' = [hot EXCEPT ![i] = Cold]
      BY <2>1, <3>2 DEF TypeOK, RouteInv, HotRoute, Cold
    <3> QED BY <2>1, <3>1, <3>2
  <2> QED BY <2>1, <2>2, <2>3, <2>4 DEF RouteInv, RequestRoute
<1>11. ASSUME NEW s \in Slot, SlotStep(s) PROVE RouteInv'
  <2>1. \A t \in Slot : Continues(tx[t], tx'[t])
    BY <1>11, SlotFrame DEF Continues
  <2>2. TxRoute'
    BY <1>0, <1>11, <2>1, SlotFrame, TxRouteFrame DEF RouteInv, TxRoute
  <2> QED BY <1>11, <2>2, SlotFrame DEF RouteInv, RequestRoute, ActorRoute, HotRoute
<1> QED
  BY <1>1, <1>2, <1>3, <1>5, <1>6, <1>7, <1>8, <1>9, <1>10, <1>11 DEF Next, SlotStep

-----------------------------------------------------------------------------
(* The row lock, the history and the answers.                              *)

\* What each step leaves of the durable history.  Only a commit writes it.
LEMMA HistoryFrame ==
  ASSUME TypeOK, TypeOK', [Next]_vars
  PROVE  /\ fence <= fence'
         /\ \A c \in Cmd : base[c] # Unsent => base'[c] = base[c]
         /\ \/ UNCHANGED <<log, receipt>>
            \/ \E s \in Slot :
                  Commit(s) /\ ~ DuplicateReceipt(tx[s].cmd)
<1>1. fence \in Nat /\ fence' \in Nat
  BY DEF TypeOK, Epoch
<1>2. CASE \E c \in Cmd : Submit(c)
  BY <1>1, <1>2 DEF TypeOK, Submit
<1>3. CASE \E i \in Inst : AdvanceRouteEpoch(i)
  <2> PICK i \in Inst : AdvanceRouteEpoch(i)
    BY <1>3
  <2>1. UNCHANGED <<log, receipt, base>>
    BY DEF AdvanceRouteEpoch
  <2>2. fence' = fence \/ (fence' = actor[i].epoch /\ actor[i].epoch >= fence)
    BY DEF AdvanceRouteEpoch
  <2> QED BY <1>1, <2>1, <2>2
<1>4. CASE \E s \in Slot : Commit(s)
  <2> PICK s \in Slot : Commit(s)
    BY <1>4
  <2>1. fence' = fence /\ base' = base
    BY DEF Commit
  <2>2. DuplicateReceipt(tx[s].cmd) => UNCHANGED <<log, receipt>>
    BY DEF Commit
  <2> QED BY <1>1, <2>1, <2>2
<1>5. CASE Reschedule \/ UNCHANGED vars
  BY <1>1, <1>5 DEF Reschedule, vars
<1>6. CASE \E i \in Inst : \/ Claim(i) \/ Take(i) \/ LoadSnapshot(i)
                          \/ ColdLoadFails(i) \/ Receive(i) \/ Timeout(i) \/ Crash(i)
  BY <1>1, <1>6 DEF Claim, Take, LoadSnapshot, ColdLoadFails, Receive, Timeout, Crash
<1>7. CASE \E s \in Slot : \/ CheckReceipt(s) \/ LockRow(s) \/ Refuse(s)
                          \/ TransientError(s)
  <2>1. ASSUME NEW s \in Slot, CheckReceipt(s) PROVE UNCHANGED <<log, receipt, fence, base>>
    BY <2>1 DEF CheckReceipt
  <2>2. ASSUME NEW s \in Slot, LockRow(s) PROVE UNCHANGED <<log, receipt, fence, base>>
    BY <2>2 DEF LockRow
  <2>3. ASSUME NEW s \in Slot, Refuse(s) \/ TransientError(s)
        PROVE  UNCHANGED <<log, receipt, fence, base>>
    BY <2>3 DEF Refuse, TransientError
  <2>4. UNCHANGED <<log, receipt, fence, base>>
    BY <1>7, <2>1, <2>2, <2>3
  <2> QED BY <1>1, <2>4
<1> QED BY <1>2, <1>3, <1>4, <1>5, <1>6, <1>7 DEF Next

\* What a commit that goes through writes.
LEMMA CommitEffect ==
  ASSUME TypeOK, TypeOK', NEW s \in Slot, Commit(s),
         ~ DuplicateReceipt(tx[s].cmd)
  PROVE  /\ tx[s] \in Running /\ tx[s].step = "locked"
         /\ Len(log) \in Nat
         /\ Len(log') = Len(log) + 1
         /\ \A n \in 1..Len(log) : log'[n] = log[n]
         /\ log'[Len(log) + 1].cmd = tx[s].cmd
         /\ log'[Len(log) + 1].epoch = tx[s].epoch
         /\ receipt' = IF KeepsReceipt(tx[s].cmd)
                       THEN [receipt EXCEPT ![KeyOf[tx[s].cmd]] = Len(log) + 1]
                       ELSE receipt
         /\ tx' = [tx EXCEPT ![s] = Answered(tx[s], Len(log) + 1, FALSE)]
         /\ UNCHANGED <<fence, base, acked, actor, hot>>
<1>1. tx[s] \in Running /\ tx[s].step = "locked"
  BY DEF TypeOK, Commit, Free
<1>2. Len(log) \in Nat
  BY LenProperties DEF TypeOK
<1>3. log' = Append(log, [cmd |-> tx[s].cmd, epoch |-> tx[s].epoch])
  BY DEF Commit
<1>4. [cmd |-> tx[s].cmd, epoch |-> tx[s].epoch] \in Entry
  BY <1>1 DEF Entry, Running
<1>5. /\ Len(log') = Len(log) + 1
      /\ \A n \in 1..Len(log) : log'[n] = log[n]
      /\ log'[Len(log) + 1] = [cmd |-> tx[s].cmd, epoch |-> tx[s].epoch]
  BY <1>2, <1>3, <1>4, AppendProperties DEF TypeOK
<1>6. /\ receipt' = IF KeepsReceipt(tx[s].cmd)
                    THEN [receipt EXCEPT ![KeyOf[tx[s].cmd]] = Len(log) + 1]
                    ELSE receipt
      /\ tx' = [tx EXCEPT ![s] = Answered(tx[s], Len(log) + 1, FALSE)]
      /\ UNCHANGED <<fence, base, acked, actor, hot>>
  BY DEF Commit, version
<1> QED BY <1>1, <1>2, <1>5, <1>6

LEMMA HistoryNext ==
  ASSUME TypeOK, TypeOK', RouteInv, LockInv, HistoryInv, [Next]_vars
  PROVE  HistoryInv'
<1>1. /\ fence \in Nat /\ fence' \in Nat /\ fence <= fence'
      /\ \A c \in Cmd : base[c] # Unsent => base'[c] = base[c]
      /\ Len(log) \in Nat
  BY HistoryFrame, LenProperties DEF TypeOK, Epoch
<1>2. \A n \in 1..Len(log) : log[n].cmd \in Cmd /\ log[n].epoch \in Nat
  <2>1. \A n \in 1..Len(log) : log[n] \in Entry
    BY ElementOfSeq DEF TypeOK
  <2> QED BY <2>1 DEF Entry, Epoch
<1>3. CASE UNCHANGED <<log, receipt>>
  BY <1>1, <1>2, <1>3
  DEF HistoryInv, ReceiptNamed, ReceiptNames, EpochsInOrder, AppliedToSeenVersion, version
<1>4. ASSUME NEW s \in Slot, Commit(s), ~ DuplicateReceipt(tx[s].cmd)
      PROVE  HistoryInv'
  <2>1. /\ tx[s] \in Running /\ tx[s].step = "locked"
        /\ Len(log') = Len(log) + 1
        /\ \A n \in 1..Len(log) : log'[n] = log[n]
        /\ log'[Len(log) + 1].cmd = tx[s].cmd
        /\ log'[Len(log) + 1].epoch = tx[s].epoch
        /\ receipt' = IF KeepsReceipt(tx[s].cmd)
                      THEN [receipt EXCEPT ![KeyOf[tx[s].cmd]] = Len(log) + 1]
                      ELSE receipt
        /\ UNCHANGED <<fence, base>>
    BY <1>4, CommitEffect
  <2>2. tx[s].cmd \in Cmd /\ KeyOf[tx[s].cmd] \in Key
    BY <2>1, CommandAssumption DEF Running
  <2>3. /\ tx[s].epoch = fence
        /\ Kind[tx[s].cmd] # "pet" => base[tx[s].cmd] = Len(log)
        /\ base[tx[s].cmd] # Unsent
    BY <2>1 DEF LockInv, RowAccepts, version, RouteInv, TxRoute
  <2>4. KeepsReceipt(tx[s].cmd) => receipt[KeyOf[tx[s].cmd]] = 0
    BY <1>4, <2>2 DEF TypeOK, DuplicateReceipt
  <2>5. \A n \in 1..Len(log) :
            KeepsReceipt(tx[s].cmd) /\ KeepsReceipt(log[n].cmd)
                => KeyOf[log[n].cmd] # KeyOf[tx[s].cmd]
    BY <2>4 DEF HistoryInv, ReceiptNamed, version
  <2>6. ReceiptNamed'
    <3> SUFFICES ASSUME NEW n \in 1..Len(log')
                 PROVE  /\ log'[n].epoch <= fence'
                        /\ base'[log'[n].cmd] # Unsent
                        /\ KeepsReceipt(log'[n].cmd) => receipt'[KeyOf[log'[n].cmd]] = n
      BY DEF ReceiptNamed, version, KeepsReceipt
    <3>1. CASE n = Len(log) + 1
      BY <1>1, <2>1, <2>2, <2>3, <3>1 DEF TypeOK
    <3>2. CASE n # Len(log) + 1
      <4>1. n \in 1..Len(log) /\ log'[n] = log[n]
        BY <1>1, <2>1, <3>2
      <4>2. KeyOf[log[n].cmd] \in Key
        BY <1>2, <4>1, CommandAssumption
      <4>3. receipt \in [Key -> Nat]
        BY DEF TypeOK
      <4> QED BY <2>1, <2>2, <2>5, <4>1, <4>2, <4>3 DEF HistoryInv, ReceiptNamed, version
    <3> QED BY <3>1, <3>2
  <2>7. ReceiptNames'
    <3> SUFFICES ASSUME NEW k \in Key, receipt'[k] > 0
                 PROVE  /\ receipt'[k] <= Len(log')
                        /\ KeepsReceipt(log'[receipt'[k]].cmd)
                        /\ KeyOf[log'[receipt'[k]].cmd] = k
      BY DEF ReceiptNames, version, KeepsReceipt
    <3>0. receipt \in [Key -> Nat]
      BY DEF TypeOK
    <3>1. CASE KeepsReceipt(tx[s].cmd) /\ k = KeyOf[tx[s].cmd]
      BY <1>1, <2>1, <3>0, <3>1
    <3>2. CASE ~ (KeepsReceipt(tx[s].cmd) /\ k = KeyOf[tx[s].cmd])
      <4>1. receipt'[k] = receipt[k]
        BY <2>1, <2>2, <3>0, <3>2
      <4>2. receipt[k] \in 1..Len(log)
        BY <1>1, <3>0, <4>1 DEF HistoryInv, ReceiptNames, version
      <4> QED BY <1>1, <2>1, <3>0, <4>1, <4>2 DEF HistoryInv, ReceiptNames, version
    <3> QED BY <3>1, <3>2
  <2>8. EpochsInOrder'
    <3> SUFFICES ASSUME NEW m \in 1..Len(log'), NEW n \in 1..Len(log'), m <= n
                 PROVE  log'[m].epoch <= log'[n].epoch
      BY DEF EpochsInOrder, version
    <3>1. CASE n = Len(log) + 1
      <4>1. CASE m = n
        BY <1>1, <2>1, <2>3, <3>1, <4>1
      <4>2. CASE m # n
        BY <1>1, <2>1, <2>3, <3>1, <4>2 DEF HistoryInv, ReceiptNamed, version
      <4> QED BY <4>1, <4>2
    <3>2. CASE n # Len(log) + 1
      BY <1>1, <2>1, <3>2 DEF HistoryInv, EpochsInOrder, version
    <3> QED BY <3>1, <3>2
  <2>9. AppliedToSeenVersion'
    <3> SUFFICES ASSUME NEW n \in 1..Len(log'), Kind[log'[n].cmd] # "pet"
                 PROVE  base'[log'[n].cmd] = n - 1
      BY DEF AppliedToSeenVersion, version
    <3>1. CASE n = Len(log) + 1
      BY <1>1, <2>1, <2>3, <3>1
    <3>2. CASE n # Len(log) + 1
      BY <1>1, <2>1, <3>2 DEF HistoryInv, AppliedToSeenVersion, version
    <3> QED BY <3>1, <3>2
  <2> QED BY <2>6, <2>7, <2>8, <2>9 DEF HistoryInv
<1> QED BY <1>3, <1>4, HistoryFrame

\* RowAccepts looks at a transaction's command and epoch only.
LEMMA LockNext ==
  ASSUME TypeOK, TypeOK', RouteInv, LockInv, [Next]_vars
  PROVE  LockInv'
<1>0. /\ \A s \in Slot : tx[s].step # "free" =>
             tx[s] \in Running /\ tx[s].cmd \in Cmd /\ base[tx[s].cmd] # Unsent
  BY DEF TypeOK, Running, RouteInv, TxRoute, Free
<1>1. ASSUME UNCHANGED <<fence, petTurn, log>>,
             \A c \in Cmd : base[c] # Unsent => base'[c] = base[c],
             \A s \in Slot : tx'[s].step = "locked" =>
                 /\ tx[s].step = "locked"
                 /\ tx'[s].cmd = tx[s].cmd /\ tx'[s].epoch = tx[s].epoch
      PROVE  LockInv'
  BY <1>0, <1>1 DEF LockInv, RowAccepts, version
<1>2. ASSUME RowUnlocked, tx' = tx PROVE LockInv'
  BY <1>2 DEF LockInv, RowUnlocked
<1>3. CASE Reschedule
  BY <1>2, <1>3 DEF Reschedule
<1>4. CASE \E i \in Inst : AdvanceRouteEpoch(i)
  BY <1>2, <1>4 DEF AdvanceRouteEpoch
<1>5. CASE \E c \in Cmd : Submit(c)
  BY <1>1, <1>5 DEF TypeOK, Submit
<1>6. CASE UNCHANGED vars \/ \E i \in Inst : Claim(i) \/ ColdLoadFails(i)
  BY <1>1, <1>6 DEF vars, Claim, ColdLoadFails
<1>7. ASSUME NEW i \in Inst, NEW c \in Cmd, NEW e \in Epoch, Call(i, c, e),
             UNCHANGED <<fence, petTurn, log, base>>
      PROVE  LockInv'
  <2>1. PICK s \in Slot : /\ tx[s] = Free
                          /\ tx'[s] = Attempt(c, e, i, 1, TRUE)
                          /\ \A t \in Slot \ {s} : tx'[t] = tx[t]
    BY <1>7, CallFrame, Zenon
  <2>2. tx'[s].step # "locked"
    BY <2>1 DEF Attempt, Begin
  <2> QED BY <1>1, <1>7, <2>1, <2>2
<1>8. ASSUME NEW i \in Inst, Take(i) PROVE LockInv'
  <2> PICK r \in requests : \/ UNCHANGED tx
                            \/ Call(i, r.cmd, r.epoch)
    BY <1>8 DEF Take
  <2>1. r.cmd \in Cmd /\ r.epoch \in Epoch
    BY DEF TypeOK, Request, Epoch
  <2>2. UNCHANGED <<fence, petTurn, log, base>>
    BY <1>8 DEF Take
  <2>3. CASE Call(i, r.cmd, r.epoch)
    BY <1>7, <2>1, <2>2, <2>3
  <2>4. CASE UNCHANGED tx
    BY <1>1, <2>2, <2>4
  <2> QED BY <2>3, <2>4
<1>9. ASSUME NEW i \in Inst, LoadSnapshot(i) PROVE LockInv'
  <2>1. actor[i].cmd \in Cmd /\ actor[i].epoch \in Epoch
    BY <1>9 DEF TypeOK, LoadSnapshot, Idle, Executing
  <2> QED BY <1>7, <1>9, <2>1 DEF LoadSnapshot
<1>10. ASSUME NEW i \in Inst, Receive(i) PROVE LockInv'
  <2>1. UNCHANGED <<fence, petTurn, log, base>>
    BY <1>10 DEF Receive
  <2>2. PICK s \in Slot : tx' = [tx EXCEPT ![s] = Free]
    BY <1>10 DEF Receive
  <2> QED BY <1>1, <2>1, <2>2 DEF TypeOK, Free
<1>11. ASSUME NEW i \in Inst, Timeout(i) \/ Crash(i) PROVE LockInv'
  <2>1. UNCHANGED <<fence, petTurn, log, base>> /\ Forsake(i)
    BY <1>11 DEF Timeout, Crash
  <2>2. ASSUME NEW s \in Slot, tx'[s].step = "locked"
        PROVE  /\ tx[s].step = "locked"
               /\ tx'[s].cmd = tx[s].cmd /\ tx'[s].epoch = tx[s].epoch
    <3>1. CASE tx[s] = Free
      BY <2>1, <2>2, <3>1 DEF Forsake, Free
    <3>2. CASE tx[s] \in Running
      BY <2>1, <2>2, <3>2 DEF Forsake, Abandoned, Free, Running
    <3> QED BY <3>1, <3>2 DEF TypeOK
  <2> QED BY <1>1, <2>1, <2>2
<1>12. ASSUME NEW s \in Slot, CheckReceipt(s) \/ Refuse(s) \/ TransientError(s)
       PROVE  LockInv'
  <2>1. UNCHANGED <<fence, petTurn, log, base>>
    BY <1>12 DEF CheckReceipt, Refuse, TransientError
  <2>2. tx'[s].step # "locked"
    <3>1. \A n, again : Answered(tx[s], n, again).step # "locked"
      BY DEF Answered, Free
    <3>2. RolledBack(tx[s]).step # "locked"
      BY <3>1 DEF RolledBack, Attempt, Begin
    <3>3. tx[s] \in Running
      BY <1>0, <1>12 DEF CheckReceipt, Refuse, TransientError
    <3>4. [tx[s] EXCEPT !.step = "checked"].step # "locked"
      BY <3>3 DEF Running
    <3>5. CASE CheckReceipt(s)
      BY <3>1, <3>4, <3>5 DEF TypeOK, CheckReceipt
    <3>6. CASE Refuse(s) \/ TransientError(s)
      <4>1. \/ tx' = [tx EXCEPT ![s] = Answered(tx[s], 0, FALSE)]
            \/ tx' = [tx EXCEPT ![s] = RolledBack(tx[s])]
        BY <3>6 DEF Refuse, TransientError
      <4>2. tx'[s] = Answered(tx[s], 0, FALSE) \/ tx'[s] = RolledBack(tx[s])
        BY <4>1, SlotSet
      <4> QED BY <3>1, <3>2, <4>2
    <3> QED BY <1>12, <3>5, <3>6
  <2>3. \A t \in Slot \ {s} : tx'[t] = tx[t]
    BY <1>12, SlotFrame DEF SlotStep
  <2> QED BY <1>1, <2>1, <2>2, <2>3
<1>13. ASSUME NEW s \in Slot, LockRow(s) PROVE LockInv'
  <2>1. UNCHANGED <<fence, petTurn, log, base>> /\ RowUnlocked
    BY <1>13 DEF LockRow
  <2>2. \A t \in Slot \ {s} : tx'[t] = tx[t]
    BY <1>13, SlotFrame DEF SlotStep
  <2>3. tx'[s].step = "locked" => RowAccepts(tx'[s])
    <3>1. tx[s] \in Running
      BY <1>13, <1>0 DEF LockRow
    <3>2. CASE RowAccepts(tx[s])
      BY <1>13, <3>1, <3>2 DEF TypeOK, LockRow, RowAccepts, Running
    <3>3. CASE ~ RowAccepts(tx[s])
      BY <1>13, <3>3 DEF TypeOK, LockRow, Answered, Free
    <3> QED BY <3>2, <3>3
  <2>4. tx'[s].step = "locked" => RowAccepts(tx[s])'
    BY <2>1, <2>3 DEF RowAccepts, version
  <2> QED BY <2>1, <2>2, <2>4 DEF LockInv, RowUnlocked
<1>14. ASSUME NEW s \in Slot, Commit(s) PROVE LockInv'
  <2>1. tx[s].step = "locked"
    BY <1>14 DEF Commit
  <2>2. \A t \in Slot \ {s} : tx'[t] = tx[t]
    BY <1>14, SlotFrame DEF SlotStep
  <2>3. tx'[s].step # "locked"
    <3>1. \A n, again : Answered(tx[s], n, again).step # "locked"
      BY DEF Answered, Free
    <3>2. RolledBack(tx[s]).step # "locked"
      BY <3>1 DEF RolledBack, Attempt, Begin
    <3>3. \/ tx' = [tx EXCEPT ![s] = RolledBack(tx[s])]
          \/ tx' = [tx EXCEPT ![s] = Answered(tx[s], version + 1, FALSE)]
      BY <1>14 DEF Commit
    <3>4. \/ tx'[s] = RolledBack(tx[s])
          \/ tx'[s] = Answered(tx[s], version + 1, FALSE)
      BY <3>3, SlotSet
    <3> QED BY <3>1, <3>2, <3>4
  <2> QED BY <2>1, <2>2, <2>3 DEF LockInv
<1> QED
  BY <1>3, <1>4, <1>5, <1>6, <1>8, <1>9, <1>10, <1>11, <1>12, <1>13, <1>14 DEF Next

\* The effect a command may be answered with stays in the history.
LEMMA AnswerNext ==
  ASSUME TypeOK, TypeOK', HistoryInv, AnswerInv, [Next]_vars
  PROVE  AnswerInv'
<1>0. Len(log) \in Nat /\ Len(log') \in Nat
  BY LenProperties DEF TypeOK
<1>1. /\ Len(log) <= Len(log')
      /\ \A n \in 1..Len(log) : log'[n] = log[n]
  <2>1. CASE UNCHANGED <<log, receipt>>
    BY <1>0, <2>1
  <2>2. ASSUME NEW s \in Slot, Commit(s), ~ DuplicateReceipt(tx[s].cmd)
        PROVE  /\ Len(log) <= Len(log')
               /\ \A n \in 1..Len(log) : log'[n] = log[n]
    <3>1. /\ Len(log') = Len(log) + 1
          /\ \A n \in 1..Len(log) : log'[n] = log[n]
      BY <2>2, CommitEffect
    <3> QED BY <1>0, <3>1
  <2> QED BY <2>1, <2>2, HistoryFrame
<1>2. ASSUME NEW c, NEW n \in 1..Len(log), Realizes(log, n, c)
      PROVE  n \in 1..Len(log') /\ Realizes(log', n, c)
  BY <1>0, <1>1, <1>2 DEF Realizes, KeepsReceipt
<1>3. ASSUME NEW t \in {Free} \cup Running, AnswerOK(t) PROVE AnswerOK(t)'
  <2>1. CASE t.step = "answered" /\ t.version > 0
    <3>1. t.version \in 1..Len(log) /\ Realizes(log, t.version, t.cmd)
      BY <1>0, <1>3, <2>1 DEF AnswerOK, version, Running, Free
    <3> QED BY <1>2, <2>1, <3>1 DEF AnswerOK, version
  <2> QED BY <1>3, <2>1 DEF AnswerOK, KeepsReceipt
<1>4. ASSUME acked' = acked PROVE AckedIsApplied'
  <2> SUFFICES ASSUME NEW c \in Cmd, acked[c] > 0
               PROVE  acked[c] <= Len(log') /\ Realizes(log', acked[c], c)
    BY <1>4 DEF AckedIsApplied, version
  <2>1. acked[c] \in 1..Len(log) /\ Realizes(log, acked[c], c)
    BY <1>0 DEF TypeOK, AnswerInv, AckedIsApplied, version
  <2> QED BY <1>0, <1>2, <2>1 DEF TypeOK
<1>5. ASSUME acked' = acked, NEW s \in Slot, AnswerOK(tx[s])',
             \A t \in Slot \ {s} : tx'[t] = tx[t]
      PROVE  AnswerInv'
  <2>1. ASSUME NEW t \in Slot PROVE AnswerOK(tx[t])'
    <3>1. CASE t = s
      BY <1>5, <3>1 DEF AnswerOK
    <3>2. CASE t # s
      <4>1. tx'[t] = tx[t] /\ tx[t] \in {Free} \cup Running /\ AnswerOK(tx[t])
        BY <1>5, <3>2 DEF TypeOK, AnswerInv
      <4> QED BY <1>3, <4>1 DEF AnswerOK
    <3> QED BY <3>1, <3>2
  <2> QED BY <1>4, <1>5, <2>1 DEF AnswerInv
<1>6. ASSUME UNCHANGED <<tx, acked>> PROVE AnswerInv'
  <2>1. \A s \in Slot : AnswerOK(tx[s])'
    <3> TAKE s \in Slot
    <3>1. tx'[s] = tx[s] /\ tx[s] \in {Free} \cup Running /\ AnswerOK(tx[s])
      BY <1>6 DEF TypeOK, AnswerInv
    <3> QED BY <1>3, <3>1 DEF AnswerOK
  <2> QED BY <1>4, <1>6, <2>1 DEF AnswerInv
<1>7. \* What is neither looking for a receipt nor a positive answer is fine.
      /\ \A c, e, i, n, w :
             LET u == Attempt(c, e, i, n, w)
             IN  u.step = "answered" => FALSE
      /\ \A c, e, i, n, w :
             LET u == Attempt(c, e, i, n, w)
             IN  u.step = "begin" => KeepsReceipt(u.cmd)
      /\ \A t, again : Answered(t, 0, again).step # "begin"
      /\ \A t, again : Answered(t, 0, again).version = 0
  BY DEF Attempt, Begin, Answered, Free
<1>8. CASE \/ Reschedule \/ UNCHANGED vars \/ \E c \in Cmd : Submit(c)
           \/ \E i \in Inst : Claim(i) \/ AdvanceRouteEpoch(i) \/ ColdLoadFails(i)
  BY <1>6, <1>8 DEF Reschedule, vars, Submit, Claim, AdvanceRouteEpoch, ColdLoadFails
<1>9. ASSUME NEW i \in Inst, NEW c \in Cmd, NEW e \in Epoch, Call(i, c, e),
             acked' = acked
      PROVE  AnswerInv'
  <2>0. \E s \in Slot : /\ tx[s] = Free
                        /\ tx'[s] = Attempt(c, e, i, 1, TRUE)
                        /\ \A t \in Slot \ {s} : tx'[t] = tx[t]
    BY <1>9, CallFrame, Zenon
  <2>1. PICK s \in Slot : /\ tx'[s] = Attempt(c, e, i, 1, TRUE)
                          /\ \A t \in Slot \ {s} : tx'[t] = tx[t]
    BY <2>0
  <2>2. AnswerOK(tx[s])'
    BY <2>1 DEF AnswerOK, KeepsReceipt, Attempt, Begin
  <2> QED BY <1>5, <1>9, <2>1, <2>2
<1>10. ASSUME NEW i \in Inst, Take(i) PROVE AnswerInv'
  <2> PICK r \in requests : \/ UNCHANGED tx
                            \/ Call(i, r.cmd, r.epoch)
    BY <1>10 DEF Take
  <2>1. r.cmd \in Cmd /\ r.epoch \in Epoch
    BY DEF TypeOK, Request, Epoch
  <2>2. acked' = acked
    BY <1>10 DEF Take
  <2> QED BY <1>6, <1>9, <2>1, <2>2
<1>11. ASSUME NEW i \in Inst, LoadSnapshot(i) PROVE AnswerInv'
  <2>1. actor[i].cmd \in Cmd /\ actor[i].epoch \in Epoch
    BY <1>11 DEF TypeOK, LoadSnapshot, Idle, Executing
  <2> QED BY <1>9, <1>11, <2>1 DEF LoadSnapshot
<1>12. ASSUME NEW i \in Inst, Receive(i) PROVE AnswerInv'
  <2> PICK s \in Slot :
        /\ tx[s].step = "answered" /\ tx' = [tx EXCEPT ![s] = Free]
        /\ acked' = IF tx[s].version > 0
                    THEN [acked EXCEPT ![tx[s].cmd] = tx[s].version] ELSE acked
    BY <1>12 DEF Receive
  <2>1. \A t \in Slot : AnswerOK(tx[t])'
    <3> TAKE t \in Slot
    <3>1. CASE t = s
      BY <3>1 DEF TypeOK, AnswerOK, Free
    <3>2. CASE t # s
      <4>1. tx'[t] = tx[t] /\ tx[t] \in {Free} \cup Running /\ AnswerOK(tx[t])
        BY <3>2 DEF TypeOK, AnswerInv
      <4> QED BY <1>3, <4>1 DEF AnswerOK
    <3> QED BY <3>1, <3>2
  <2>2. CASE tx[s].version > 0
    <3>1. tx[s] \in Running /\ tx[s].cmd \in Cmd
      BY DEF TypeOK, Free, Running
    <3>2. tx[s].version \in 1..Len(log) /\ Realizes(log, tx[s].version, tx[s].cmd)
      BY <1>0, <2>2, <3>1 DEF AnswerInv, AnswerOK, Running, version
    <3>3. UNCHANGED log
      BY <1>12 DEF Receive
    <3>4. AckedIsApplied'
      <4> SUFFICES ASSUME NEW c \in Cmd, acked'[c] > 0
                   PROVE  acked'[c] <= Len(log') /\ Realizes(log', acked'[c], c)
        BY DEF AckedIsApplied, version
      <4>1. CASE c = tx[s].cmd
        <5>1. acked'[c] = tx[s].version
          BY <2>2, <3>1, <4>1 DEF TypeOK
        <5> QED BY <3>2, <3>3, <4>1, <5>1 DEF Realizes, KeepsReceipt
      <4>2. CASE c # tx[s].cmd
        <5>1. acked'[c] = acked[c]
          BY <2>2, <3>1, <4>2 DEF TypeOK
        <5> QED BY <3>3, <5>1
            DEF AnswerInv, AckedIsApplied, version, Realizes, KeepsReceipt
      <4> QED BY <4>1, <4>2
    <3> QED BY <2>1, <3>4 DEF AnswerInv
  <2>3. CASE ~ (tx[s].version > 0)
    BY <1>4, <2>1, <2>3 DEF AnswerInv
  <2> QED BY <2>2, <2>3
<1>13. ASSUME NEW i \in Inst, Timeout(i) \/ Crash(i) PROVE AnswerInv'
  <2>1. acked' = acked /\ Forsake(i)
    BY <1>13 DEF Timeout, Crash
  <2>2. \A s \in Slot : AnswerOK(tx[s])'
    <3> TAKE s \in Slot
    <3>1. tx[s] \in {Free} \cup Running /\ AnswerOK(tx[s])
      BY DEF TypeOK, AnswerInv
    <3>2. CASE tx'[s] = Free
      BY <3>2 DEF AnswerOK, Free
    <3>3. CASE tx'[s] = tx[s]
      BY <1>3, <3>1, <3>3 DEF AnswerOK
    <3>4. CASE tx'[s] = [tx[s] EXCEPT !.waited = FALSE] /\ tx[s].step # "answered"
      BY <3>1, <3>4 DEF AnswerOK, Free, Running, KeepsReceipt
    <3> QED BY <2>1, <3>2, <3>3, <3>4, ForsakeFrame
  <2> QED BY <1>4, <2>1, <2>2 DEF AnswerInv
<1>14. ASSUME NEW s \in Slot, SlotStep(s),
              tx'[s].step = "begin" => KeepsReceipt(tx'[s].cmd),
              tx'[s].step = "answered" => tx'[s].version = 0
       PROVE  AnswerInv'
  <2>1. AnswerOK(tx[s])'
    BY <1>14 DEF AnswerOK, KeepsReceipt
  <2>2. acked' = acked /\ \A t \in Slot \ {s} : tx'[t] = tx[t]
    BY <1>14, SlotFrame
  <2> QED BY <1>5, <2>1, <2>2
<1>15. ASSUME NEW t \in Running
       PROVE  /\ RolledBack(t).step = "begin" => KeepsReceipt(RolledBack(t).cmd)
              /\ RolledBack(t).step = "answered" => RolledBack(t).version = 0
  BY <1>7 DEF RolledBack
<1>16. ASSUME NEW s \in Slot, LockRow(s) \/ Refuse(s) \/ TransientError(s)
       PROVE  AnswerInv'
  <2>1. tx[s] \in Running
    BY <1>16, SlotFrame DEF SlotStep
  <2>2. [tx[s] EXCEPT !.step = "locked"].step = "locked"
    BY <2>1 DEF Running
  <2>3. \/ tx' = [tx EXCEPT ![s] = [tx[s] EXCEPT !.step = "locked"]]
        \/ tx' = [tx EXCEPT ![s] = Answered(tx[s], 0, FALSE)]
        \/ tx' = [tx EXCEPT ![s] = RolledBack(tx[s])]
    BY <1>16 DEF LockRow, Refuse, TransientError
  <2>4. /\ tx'[s].step = "begin" => KeepsReceipt(tx'[s].cmd)
        /\ tx'[s].step = "answered" => tx'[s].version = 0
    <3>1. \/ tx'[s] = [tx[s] EXCEPT !.step = "locked"]
          \/ tx'[s] = Answered(tx[s], 0, FALSE)
          \/ tx'[s] = RolledBack(tx[s])
      BY <2>3, SlotSet
    <3>2. CASE tx'[s] = [tx[s] EXCEPT !.step = "locked"]
      BY <2>2, <3>2
    <3>3. CASE tx'[s] = Answered(tx[s], 0, FALSE)
      BY <1>7, <3>3
    <3>4. CASE tx'[s] = RolledBack(tx[s])
      BY <1>15, <2>1, <3>4
    <3> QED BY <3>1, <3>2, <3>3, <3>4
  <2> QED BY <1>14, <1>16, <2>4 DEF SlotStep
<1>17. ASSUME NEW s \in Slot, CheckReceipt(s) PROVE AnswerInv'
  <2> DEFINE n == receipt[KeyOf[tx[s].cmd]]
  <2>1. /\ tx[s] \in Running /\ tx[s].step = "begin" /\ acked' = acked
        /\ \A t \in Slot \ {s} : tx'[t] = tx[t]
    BY <1>17, SlotFrame DEF SlotStep, CheckReceipt
  <2>2. CASE n > 0
    <3>1. KeepsReceipt(tx[s].cmd) /\ KeyOf[tx[s].cmd] \in Key /\ n \in Nat
      BY <2>1, CommandAssumption DEF TypeOK, AnswerInv, AnswerOK, Running
    <3>2. n \in 1..Len(log) /\ Realizes(log, n, tx[s].cmd)
      BY <1>0, <2>2, <3>1 DEF HistoryInv, ReceiptNames, Realizes, version
    <3>3. tx'[s] = Answered(tx[s], n, TRUE)
      BY <1>17, <2>2 DEF TypeOK, CheckReceipt
    <3>4. AnswerOK(tx[s])'
      <4>1. n <= Len(log') /\ Realizes(log', n, tx[s].cmd)
        BY <1>0, <1>2, <3>2
      <4> QED BY <3>3, <4>1 DEF AnswerOK, Answered, Free, version
    <3> QED BY <1>5, <2>1, <3>4
  <2>3. CASE ~ (n > 0)
    <3>1. tx'[s] = [tx[s] EXCEPT !.step = "checked"]
      BY <1>17, <2>3 DEF TypeOK, CheckReceipt
    <3>2. tx'[s].step = "checked"
      BY <2>1, <3>1 DEF Running
    <3> QED BY <1>14, <1>17, <3>2 DEF SlotStep
  <2> QED BY <2>2, <2>3
<1>18. ASSUME NEW s \in Slot, Commit(s) PROVE AnswerInv'
  <2>1. tx[s] \in Running /\ acked' = acked /\ \A t \in Slot \ {s} : tx'[t] = tx[t]
    BY <1>18, SlotFrame DEF SlotStep
  <2>2. CASE DuplicateReceipt(tx[s].cmd)
    <3>1. tx'[s] = RolledBack(tx[s])
      BY <1>18, <2>2 DEF TypeOK, Commit
    <3> QED BY <1>14, <1>15, <1>18, <2>1, <3>1 DEF SlotStep
  <2>3. CASE ~ DuplicateReceipt(tx[s].cmd)
    <3>1. /\ tx'[s] = Answered(tx[s], Len(log) + 1, FALSE)
          /\ Len(log') = Len(log) + 1
          /\ log'[Len(log) + 1].cmd = tx[s].cmd
      BY <1>18, <2>3, CommitEffect DEF TypeOK
    <3>2. AnswerOK(tx[s])'
      BY <1>0, <3>1 DEF AnswerOK, Answered, Free, version, Realizes
    <3> QED BY <1>5, <2>1, <3>2
  <2> QED BY <2>2, <2>3
<1> QED
  BY <1>8, <1>10, <1>11, <1>12, <1>13, <1>16, <1>17, <1>18 DEF Next

-----------------------------------------------------------------------------
(* What an actor waits for and what its snapshot holds.                    *)

\* An instance that waits for nothing stays so while only others call, finish
\* or give up.
LEMMA WaitNext ==
  ASSUME TypeOK, TypeOK', WaitInv, [Next]_vars
  PROVE  WaitInv'
<1>1. ASSUME UNCHANGED tx,
             \A i \in Inst : actor[i].step = "wait" => actor'[i].step = "wait"
      PROVE  WaitInv'
  BY <1>1 DEF TypeOK, WaitInv, Running, Free
<1>2. CASE \/ Reschedule \/ UNCHANGED vars \/ \E c \in Cmd : Submit(c)
           \/ \E i \in Inst : Claim(i)
  BY <1>1, <1>2 DEF Reschedule, vars, Submit, Claim
<1>3. ASSUME NEW i \in Inst, AdvanceRouteEpoch(i) \/ ColdLoadFails(i) PROVE WaitInv'
  <2>1. actor[i].step # "wait" /\ \A j \in Inst \ {i} : actor'[j] = actor[j]
    BY <1>3 DEF TypeOK, AdvanceRouteEpoch, ColdLoadFails
  <2>2. UNCHANGED tx
    BY <1>3 DEF AdvanceRouteEpoch, ColdLoadFails
  <2> QED BY <1>1, <2>1, <2>2
<1>4. ASSUME NEW i \in Inst, NEW c \in Cmd, NEW e \in Epoch, Call(i, c, e),
             actor[i].step # "wait"
      PROVE  WaitInv'
  <2>0. /\ actor' = [actor EXCEPT ![i] = [step |-> "wait", cmd |-> c, epoch |-> e]]
        /\ \E s \in Slot :
              /\ tx[s] = Free
              /\ tx'[s] = Attempt(c, e, i, 1, TRUE)
              /\ \A t \in Slot \ {s} : tx'[t] = tx[t]
    BY <1>4, CallFrame, Zenon
  <2>1. PICK s \in Slot : /\ tx'[s] = Attempt(c, e, i, 1, TRUE)
                          /\ \A t \in Slot \ {s} : tx'[t] = tx[t]
    BY <2>0
  <2>2. /\ tx'[s].inst = i /\ tx'[s].step # "answered"
        /\ \A t \in Slot : tx[t].waited => tx[t].inst # i
    BY <1>4, <2>1 DEF Attempt, Begin, WaitInv
  <2>3. actor'[i].step = "wait" /\ \A j \in Inst \ {i} : actor'[j] = actor[j]
    BY <2>0 DEF TypeOK
  <2>4. \A t \in Slot : tx[t].waited => tx[t].inst \in Inst
    BY DEF TypeOK, Running, Free
  <2>5. \A t \in Slot : tx'[t].step = "answered" => tx'[t].waited
    BY <2>1, <2>2 DEF WaitInv
  <2>6. \A t \in Slot : tx'[t].waited => actor'[tx'[t].inst].step = "wait"
    <3> TAKE t \in Slot
    <3>1. CASE t = s
      BY <2>2, <2>3, <3>1
    <3>2. CASE t # s
      BY <2>1, <2>2, <2>3, <2>4, <3>2 DEF WaitInv
    <3> QED BY <3>1, <3>2
  <2>7. \A t, u \in Slot :
            tx'[t].waited /\ tx'[u].waited /\ tx'[t].inst = tx'[u].inst => t = u
    <3> TAKE t, u \in Slot
    <3>1. CASE t # s /\ u # s
      BY <2>1, <3>1 DEF WaitInv
    <3>2. CASE t = s \/ u = s
      BY <2>1, <2>2, <3>2
    <3> QED BY <3>1, <3>2
  <2> QED BY <2>5, <2>6, <2>7 DEF WaitInv
<1>5. ASSUME NEW i \in Inst, Take(i) PROVE WaitInv'
  <2> PICK r \in requests :
        \/ /\ actor' = [actor EXCEPT ![i] =
                  [step |-> "fence", cmd |-> r.cmd, epoch |-> r.epoch]]
           /\ UNCHANGED tx
        \/ Call(i, r.cmd, r.epoch)
    BY <1>5 DEF Take
  <2>1. r.cmd \in Cmd /\ r.epoch \in Epoch
    BY DEF TypeOK, Request, Epoch
  <2>2. actor[i].step # "wait"
    BY <1>5 DEF Take, Idle
  <2>3. CASE Call(i, r.cmd, r.epoch)
    BY <1>4, <2>1, <2>2, <2>3
  <2>4. CASE ~ Call(i, r.cmd, r.epoch)
    BY <1>1, <2>2, <2>4 DEF TypeOK
  <2> QED BY <2>3, <2>4
<1>6. ASSUME NEW i \in Inst, LoadSnapshot(i) PROVE WaitInv'
  <2>1. actor[i].cmd \in Cmd /\ actor[i].epoch \in Epoch /\ actor[i].step # "wait"
    BY <1>6 DEF TypeOK, LoadSnapshot, Idle, Executing
  <2> QED BY <1>4, <1>6, <2>1 DEF LoadSnapshot
<1>7. ASSUME NEW i \in Inst, actor' = [actor EXCEPT ![i] = Idle],
             \A s \in Slot : tx'[s].waited => tx'[s] = tx[s] /\ tx[s].inst # i,
             \A s \in Slot : tx'[s].step = "answered" => tx'[s] = tx[s]
      PROVE  WaitInv'
  <2>1. \A s \in Slot : tx[s].waited => tx[s].inst \in Inst
    BY DEF TypeOK, Running, Free
  <2>2. \A j \in Inst \ {i} : actor'[j] = actor[j]
    BY <1>7 DEF TypeOK
  <2> QED BY <1>7, <2>1, <2>2 DEF WaitInv
<1>8. ASSUME NEW i \in Inst, Receive(i) PROVE WaitInv'
  <2>1. PICK s \in Slot : /\ tx[s].waited /\ tx[s].inst = i
                          /\ tx' = [tx EXCEPT ![s] = Free]
    BY <1>8 DEF Receive
  <2>2. tx'[s] = Free /\ \A t \in Slot \ {s} : tx'[t] = tx[t]
    BY <2>1 DEF TypeOK
  <2>3. \A t \in Slot : tx'[t].waited => tx'[t] = tx[t] /\ tx[t].inst # i
    BY <2>1, <2>2 DEF WaitInv, Free
  <2>4. \A t \in Slot : tx'[t].step = "answered" => tx'[t] = tx[t]
    BY <2>2 DEF Free
  <2> QED BY <1>7, <1>8, <2>3, <2>4 DEF Receive
<1>9. ASSUME NEW i \in Inst, Timeout(i) \/ Crash(i) PROVE WaitInv'
  <2>1. Forsake(i) /\ actor' = [actor EXCEPT ![i] = Idle]
    BY <1>9 DEF Timeout, Crash
  <2>2. ASSUME NEW s \in Slot PROVE
           /\ tx'[s].waited => tx'[s] = tx[s] /\ tx[s].inst # i
           /\ tx'[s].step = "answered" => tx'[s] = tx[s]
    <3>1. CASE tx[s] = Free
      BY <2>1, <3>1 DEF Forsake, Free
    <3>2. CASE tx[s] \in Running
      BY <2>1, <3>2 DEF Forsake, Abandoned, Free, Running
    <3> QED BY <3>1, <3>2 DEF TypeOK
  <2> QED BY <1>7, <2>1, <2>2
<1>10. ASSUME NEW s \in Slot, SlotStep(s) PROVE WaitInv'
  <2>1. /\ tx[s] \in Running /\ Continues(tx[s], tx'[s]) /\ actor' = actor
        /\ \A t \in Slot \ {s} : tx'[t] = tx[t]
    BY <1>10, SlotFrame
  <2>2. tx'[s].step = "answered" => tx'[s].waited
    <3>1. \A n, again : LET u == Answered(tx[s], n, again)
                        IN  u.step = "answered" => u.waited
      BY DEF Answered, Free
    <3>2. RolledBack(tx[s]).step = "answered" => RolledBack(tx[s]).waited
      BY <3>1 DEF RolledBack, Attempt, Begin
    <3>3. \A w \in {"checked", "locked"} : [tx[s] EXCEPT !.step = w].step = w
      BY <2>1 DEF Running
    <3>4. \/ \E n, again : tx' = [tx EXCEPT ![s] = Answered(tx[s], n, again)]
          \/ tx' = [tx EXCEPT ![s] = RolledBack(tx[s])]
          \/ \E w \in {"checked", "locked"} :
                 tx' = [tx EXCEPT ![s] = [tx[s] EXCEPT !.step = w]]
      <4>1. CASE CheckReceipt(s)
        BY <4>1 DEF CheckReceipt
      <4>2. CASE LockRow(s)
        BY <4>2 DEF LockRow
      <4>3. CASE Refuse(s)
        BY <4>3 DEF Refuse
      <4>4. CASE TransientError(s)
        BY <4>4 DEF TransientError
      <4>5. CASE Commit(s)
        BY <4>5 DEF Commit
      <4> QED BY <1>10, <4>1, <4>2, <4>3, <4>4, <4>5 DEF SlotStep
    <3>5. \/ \E n, again : tx'[s] = Answered(tx[s], n, again)
          \/ tx'[s] = RolledBack(tx[s])
          \/ \E w \in {"checked", "locked"} : tx'[s] = [tx[s] EXCEPT !.step = w]
      BY <3>4, SlotSet
    <3>6. CASE \E n, again : tx'[s] = Answered(tx[s], n, again)
      BY <3>1, <3>6, Zenon
    <3>7. CASE tx'[s] = RolledBack(tx[s])
      BY <3>2, <3>7, Zenon
    <3>8. CASE \E w \in {"checked", "locked"} : tx'[s] = [tx[s] EXCEPT !.step = w]
      BY <3>3, <3>8
    <3> QED BY <3>5, <3>6, <3>7, <3>8
  <2>3. tx'[s].waited => tx'[s].inst = tx[s].inst /\ tx[s].waited
    <3>1. CASE tx'[s] = Free
      BY <3>1 DEF Free
    <3>2. CASE tx'[s] \in Running
      BY <2>1, <3>2 DEF Continues, Running
    <3> QED BY <3>1, <3>2 DEF TypeOK
  <2> QED BY <2>1, <2>2, <2>3 DEF WaitInv
<1> QED
  BY <1>2, <1>3, <1>5, <1>6, <1>8, <1>9, <1>10 DEF Next, SlotStep

\* A snapshot moves only when no fresh answer is due to its actor, or to the
\* version of that very answer.
LEMMA HotNext ==
  ASSUME TypeOK, TypeOK', AnswerInv, WaitInv, HotInv, [Next]_vars
  PROVE  HotInv'
<1>0. /\ Len(log) \in Nat /\ Len(log') \in Nat /\ Len(log) <= Len(log')
      /\ \A i \in Inst : hot[i].version \in Nat /\ hot'[i].version \in Nat
  <2>1. Len(log) \in Nat /\ Len(log') \in Nat
    BY LenProperties DEF TypeOK
  <2>2. CASE UNCHANGED <<log, receipt>>
    BY <2>1, <2>2 DEF TypeOK, Snapshot
  <2>3. ASSUME NEW s \in Slot, Commit(s), ~ DuplicateReceipt(tx[s].cmd)
        PROVE  Len(log) <= Len(log')
    <3>1. Len(log') = Len(log) + 1
      BY <2>3, CommitEffect
    <3> QED BY <2>1, <3>1
  <2> QED BY <2>1, <2>2, <2>3, HistoryFrame DEF TypeOK, Snapshot
<1>1. ASSUME UNCHANGED hot,
             \A s \in Slot : tx'[s].step = "answered" =>
                 \/ tx'[s] = tx[s]
                 \/ tx'[s].version = 0
                 \/ tx'[s].replayed
      PROVE  HotInv'
  BY <1>0, <1>1 DEF HotInv, version
<1>2. CASE \/ Reschedule \/ UNCHANGED vars \/ \E c \in Cmd : Submit(c)
           \/ \E i \in Inst : Claim(i)
  BY <1>1, <1>2 DEF Reschedule, vars, Submit, Claim
<1>3. ASSUME NEW i \in Inst, hot' = [hot EXCEPT ![i] = Cold],
             \A s \in Slot : tx'[s].step = "answered" => tx'[s] = tx[s]
      PROVE  HotInv'
  <2>1. hot'[i].loaded = FALSE /\ \A j \in Inst \ {i} : hot'[j] = hot[j]
    BY <1>3 DEF TypeOK, Cold
  <2>2. \A s \in Slot : tx[s].step = "answered" => tx[s].inst \in Inst
    BY DEF TypeOK, Running, Free
  <2> QED BY <1>0, <1>3, <2>1, <2>2 DEF HotInv, version
<1>4. ASSUME NEW i \in Inst, AdvanceRouteEpoch(i) \/ ColdLoadFails(i) PROVE HotInv'
  <2>1. UNCHANGED tx /\ (hot' = hot \/ hot' = [hot EXCEPT ![i] = Cold])
    BY <1>4 DEF AdvanceRouteEpoch, ColdLoadFails
  <2>2. CASE hot' = hot
    BY <1>1, <2>1, <2>2
  <2>3. CASE hot' = [hot EXCEPT ![i] = Cold]
    BY <1>3, <2>1, <2>3
  <2> QED BY <2>1, <2>2, <2>3
<1>5. ASSUME NEW i \in Inst, NEW c \in Cmd, NEW e \in Epoch, Call(i, c, e)
      PROVE  \A t \in Slot : tx'[t].step = "answered" => tx'[t] = tx[t]
  <2>0. \E s \in Slot : /\ tx[s] = Free
                        /\ tx'[s] = Attempt(c, e, i, 1, TRUE)
                        /\ \A t \in Slot \ {s} : tx'[t] = tx[t]
    BY <1>5, CallFrame, Zenon
  <2> QED BY <2>0 DEF Attempt, Begin
<1>6. ASSUME NEW i \in Inst, Take(i) PROVE HotInv'
  <2> PICK r \in requests : UNCHANGED tx \/ Call(i, r.cmd, r.epoch)
    BY <1>6 DEF Take
  <2>1. r.cmd \in Cmd /\ r.epoch \in Epoch
    BY DEF TypeOK, Request, Epoch
  <2>2. \A t \in Slot : tx'[t].step = "answered" => tx'[t] = tx[t]
    BY <1>5, <2>1
  <2> QED BY <1>1, <1>6, <2>2 DEF Take
<1>7. ASSUME NEW i \in Inst, LoadSnapshot(i) PROVE HotInv'
  <2>1. actor[i].cmd \in Cmd /\ actor[i].epoch \in Epoch /\ actor[i].step # "wait"
    BY <1>7 DEF TypeOK, LoadSnapshot, Idle, Executing
  <2>2. \A t \in Slot : tx'[t].step = "answered" => tx'[t] = tx[t]
    BY <1>5, <1>7, <2>1 DEF LoadSnapshot
  <2>3. \A t \in Slot : tx[t].step = "answered" => tx[t].inst \in Inst \ {i}
    BY <2>1 DEF TypeOK, WaitInv, Running, Free
  <2>4. /\ hot'[i].version = Len(log) /\ log' = log
        /\ \A j \in Inst \ {i} : hot'[j] = hot[j]
    BY <1>7 DEF TypeOK, LoadSnapshot, version
  <2> QED BY <1>0, <2>2, <2>3, <2>4 DEF HotInv, version
<1>8. ASSUME NEW i \in Inst, Receive(i) PROVE HotInv'
  <2>1. PICK s \in Slot :
          /\ tx[s].step = "answered" /\ tx[s].waited /\ tx[s].inst = i
          /\ tx' = [tx EXCEPT ![s] = Free]
          /\ hot' = [hot EXCEPT ![i] = HotAfter(@, tx[s])]
    BY <1>8 DEF Receive
  <2>2. tx'[s] = Free /\ \A t \in Slot \ {s} : tx'[t] = tx[t]
    BY <2>1 DEF TypeOK
  <2>3. \A t \in Slot : tx'[t].step = "answered" =>
            tx'[t] = tx[t] /\ tx[t].inst \in Inst \ {i}
    BY <2>1, <2>2 DEF TypeOK, WaitInv, Running, Free
  <2>4. \A j \in Inst \ {i} : hot'[j] = hot[j]
    BY <2>1 DEF TypeOK
  <2>5. log' = log
    BY <1>8 DEF Receive
  <2>6. hot'[i].loaded => hot'[i].version <= Len(log)
    <3>1. hot'[i] = HotAfter(hot[i], tx[s])
      BY <2>1 DEF TypeOK
    <3>2. tx[s].version > 0 => tx[s].version <= Len(log)
      BY <2>1 DEF AnswerInv, AnswerOK, version
    <3>3. hot[i] \in Snapshot
      BY DEF TypeOK
    <3> QED BY <3>1, <3>2, <3>3 DEF HotAfter, Snapshot, HotInv, version
  <2> QED BY <1>0, <2>3, <2>4, <2>5, <2>6 DEF HotInv, version
<1>9. ASSUME NEW i \in Inst, Timeout(i) \/ Crash(i) PROVE HotInv'
  <2>1. Forsake(i) /\ (hot' = hot \/ hot' = [hot EXCEPT ![i] = Cold])
    BY <1>9 DEF Timeout, Crash
  <2>2. ASSUME NEW s \in Slot, tx'[s].step = "answered" PROVE tx'[s] = tx[s]
    <3>1. CASE tx[s] = Free
      BY <2>1, <2>2, <3>1 DEF Forsake, Free
    <3>2. CASE tx[s] \in Running
      BY <2>1, <2>2, <3>2 DEF Forsake, Abandoned, Free, Running
    <3> QED BY <3>1, <3>2 DEF TypeOK
  <2>3. CASE hot' = hot
    BY <1>1, <2>2, <2>3
  <2>4. CASE hot' = [hot EXCEPT ![i] = Cold]
    BY <1>3, <2>2, <2>4
  <2> QED BY <2>1, <2>3, <2>4
<1>10. ASSUME NEW s \in Slot, SlotStep(s),
              tx'[s].step = "answered" => tx'[s].version = 0 \/ tx'[s].replayed
       PROVE  HotInv'
  <2>1. hot' = hot /\ \A t \in Slot \ {s} : tx'[t] = tx[t]
    BY <1>10, SlotFrame
  <2> QED BY <1>1, <1>10, <2>1
<1>11. /\ \A t : Answered(t, 0, FALSE).version = 0
       /\ \A t, n : Answered(t, n, TRUE).step = "answered" =>
                        Answered(t, n, TRUE).replayed
       /\ \A t : RolledBack(t).version = 0
  BY DEF RolledBack, Answered, Attempt, Free
<1>12. ASSUME NEW s \in Slot, CheckReceipt(s) PROVE HotInv'
  <2>1. tx[s] \in Running
    BY <1>12, SlotFrame DEF SlotStep
  <2>2. [tx[s] EXCEPT !.step = "checked"].step = "checked"
    BY <2>1 DEF Running
  <2>3. \/ tx' = [tx EXCEPT ![s] = Answered(tx[s], receipt[KeyOf[tx[s].cmd]], TRUE)]
        \/ tx' = [tx EXCEPT ![s] = [tx[s] EXCEPT !.step = "checked"]]
    BY <1>12 DEF CheckReceipt
  <2>4. \/ tx'[s] = Answered(tx[s], receipt[KeyOf[tx[s].cmd]], TRUE)
        \/ tx'[s] = [tx[s] EXCEPT !.step = "checked"]
    BY <2>3, SlotSet
  <2>5. CASE tx'[s] = Answered(tx[s], receipt[KeyOf[tx[s].cmd]], TRUE)
    <3>1. tx'[s].step = "answered" => tx'[s].replayed
      BY <1>11, <2>5, Zenon
    <3> QED BY <1>10, <1>12, <3>1 DEF SlotStep
  <2>6. CASE tx'[s] = [tx[s] EXCEPT !.step = "checked"]
    BY <1>10, <1>12, <2>2, <2>6 DEF SlotStep
  <2> QED BY <2>4, <2>5, <2>6
<1>13. ASSUME NEW s \in Slot, LockRow(s) \/ Refuse(s) \/ TransientError(s)
       PROVE  HotInv'
  <2>1. tx[s] \in Running
    BY <1>13, SlotFrame DEF SlotStep
  <2>2. [tx[s] EXCEPT !.step = "locked"].step = "locked"
    BY <2>1 DEF Running
  <2>3. \/ tx' = [tx EXCEPT ![s] = [tx[s] EXCEPT !.step = "locked"]]
        \/ tx' = [tx EXCEPT ![s] = Answered(tx[s], 0, FALSE)]
        \/ tx' = [tx EXCEPT ![s] = RolledBack(tx[s])]
    BY <1>13 DEF LockRow, Refuse, TransientError
  <2>4. \/ tx'[s] = [tx[s] EXCEPT !.step = "locked"]
        \/ tx'[s] = Answered(tx[s], 0, FALSE)
        \/ tx'[s] = RolledBack(tx[s])
    BY <2>3, SlotSet
  <2>5. tx'[s].step = "answered" => tx'[s].version = 0
    BY <1>11, <2>2, <2>4
  <2> QED BY <1>10, <1>13, <2>5 DEF SlotStep
<1>14. ASSUME NEW s \in Slot, Commit(s) PROVE HotInv'
  <2>1. /\ tx[s] \in Running /\ hot' = hot
        /\ \A t \in Slot \ {s} : tx'[t] = tx[t]
    BY <1>14, SlotFrame DEF SlotStep
  <2>2. CASE DuplicateReceipt(tx[s].cmd)
    <3>1. tx' = [tx EXCEPT ![s] = RolledBack(tx[s])]
      BY <1>14, <2>2 DEF Commit
    <3>2. tx'[s].version = 0
      BY <1>11, <3>1, SlotSet
    <3> QED BY <1>10, <1>14, <3>2 DEF SlotStep
  <2>3. CASE ~ DuplicateReceipt(tx[s].cmd)
    <3>1. tx' = [tx EXCEPT ![s] = Answered(tx[s], Len(log) + 1, FALSE)]
      BY <1>14, <2>3, CommitEffect
    <3>2. tx'[s] = Answered(tx[s], Len(log) + 1, FALSE)
      BY <3>1, SlotSet
    <3>3. tx[s].inst \in Inst
      BY <2>1 DEF Running
    <3>4. tx'[s].step = "answered" =>
              tx'[s].inst = tx[s].inst /\ tx'[s].version = Len(log) + 1
      BY <3>2 DEF Answered, Free
    <3>5. hot[tx[s].inst].loaded => hot[tx[s].inst].version <= Len(log)
      BY <3>3 DEF HotInv, version
    <3> QED BY <1>0, <2>1, <3>3, <3>4, <3>5 DEF HotInv, version
  <2> QED BY <2>2, <2>3
<1> QED
  BY <1>2, <1>4, <1>6, <1>7, <1>8, <1>9, <1>12, <1>13, <1>14 DEF Next

-----------------------------------------------------------------------------
(* The theorems.                                                           *)

LEMMA InitIInv == Init => IInv
<1> SUFFICES ASSUME Init PROVE IInv
  OBVIOUS
<1>1. TypeOK
  BY TypeInit
<1>2. log = <<>> /\ Len(log) = 0
  BY DEF Init
<1>3. RouteInv
  BY DEF Init, RouteInv, RequestRoute, ActorRoute, TxRoute, HotRoute, Free, Cold
<1>4. LockInv
  BY DEF Init, LockInv, Free
<1>5. HistoryInv
  BY <1>2 DEF Init, HistoryInv, ReceiptNamed, ReceiptNames, EpochsInOrder,
              AppliedToSeenVersion, version
<1>6. AnswerInv
  BY DEF Init, AnswerInv, AnswerOK, AckedIsApplied, Free
<1>7. WaitInv /\ HotInv
  BY DEF Init, WaitInv, HotInv, Free, Cold
<1> QED BY <1>1, <1>3, <1>4, <1>5, <1>6, <1>7 DEF IInv

LEMMA NextIInv == IInv /\ [Next]_vars => IInv'
<1> SUFFICES ASSUME IInv, [Next]_vars PROVE IInv'
  OBVIOUS
<1>1. /\ TypeOK /\ RouteInv /\ LockInv /\ HistoryInv /\ AnswerInv /\ WaitInv
      /\ HotInv
  BY DEF IInv
<1>2. TypeOK'
  BY <1>1, TypeNext
<1>3. RouteInv'
  BY <1>1, <1>2, RouteNext
<1>4. LockInv'
  BY <1>1, <1>2, LockNext
<1>5. HistoryInv'
  BY <1>1, <1>2, HistoryNext
<1>6. AnswerInv'
  BY <1>1, <1>2, AnswerNext
<1>7. WaitInv'
  BY <1>1, <1>2, WaitNext
<1>8. HotInv'
  BY <1>1, <1>2, HotNext
<1> QED BY <1>2, <1>3, <1>4, <1>5, <1>6, <1>7, <1>8 DEF IInv

\* Every reachable state of the write path satisfies the inductive invariant.
THEOREM Invariance == Spec => []IInv
  BY InitIInv, NextIInv, PTL DEF Spec

\* Every variable keeps its type; in particular no transaction is tried more
\* often than mysqlretry allows.
THEOREM TypeCorrect == Spec => []TypeOK
<1>1. IInv => TypeOK
  BY DEF IInv
<1> QED BY <1>1, Invariance, PTL

\* A command, and a cmd_id that keeps a receipt, takes effect at most once:
\* whatever the retries, orphaned transactions and changes of owner.
THEOREM AtMostOnce == Spec => []AppliedAtMostOnce
<1>1. ASSUME IInv PROVE AppliedAtMostOnce
  <2> SUFFICES ASSUME NEW c \in Cmd, NEW m \in 1..version, NEW n \in 1..version,
                      Realizes(log, m, c), Realizes(log, n, c)
               PROVE  m = n
    BY DEF AppliedAtMostOnce
  <2>1. CASE KeepsReceipt(c)
    <3>1. ASSUME NEW l \in 1..version, Realizes(log, l, c)
          PROVE  receipt[KeyOf[c]] = l
      BY <1>1, <2>1, <3>1 DEF Realizes, IInv, HistoryInv, ReceiptNamed
    <3> QED BY <3>1
  <2>2. CASE ~ KeepsReceipt(c)
    <3>1. log[m].cmd = c /\ log[n].cmd = c /\ Kind[c] # "pet"
      BY <2>2 DEF Realizes, KeepsReceipt
    <3>2. version \in Nat
      BY <1>1, LenProperties DEF IInv, TypeOK, version
    <3> QED BY <1>1, <3>1, <3>2 DEF IInv, HistoryInv, AppliedToSeenVersion
  <2> QED BY <2>1, <2>2
<1> QED BY <1>1, Invariance, PTL

\* A version a client was told is in the durable history and holds the effect
\* of its command, also when the answer is a replay.
THEOREM AnswersTruthful == Spec => []AckedIsApplied
<1>1. IInv => AckedIsApplied
  BY DEF IInv, AnswerInv
<1> QED BY <1>1, Invariance, PTL

\* Every command but the pet's changed exactly the version it was issued
\* against: base_version admits no lost update.
THEOREM NoLostUpdate == Spec => []AppliedToSeenVersion
<1>1. IInv => AppliedToSeenVersion
  BY DEF IInv, HistoryInv
<1> QED BY <1>1, Invariance, PTL

\* Once a newer owner has written, no older owner's command gets in.
THEOREM OwnersInOrder == Spec => []EpochsInOrder
<1>1. IInv => EpochsInOrder
  BY DEF IInv, HistoryInv
<1> QED BY <1>1, Invariance, PTL

\* A transaction runs only under an epoch whose fence is already durable, and
\* only for the instance that epoch was published with.
THEOREM SingleWriter == Spec => []WritersFenced
<1>1. IInv => WritersFenced
  BY DEF IInv, RouteInv, TxRoute, WritersFenced
<1> QED BY <1>1, Invariance, PTL

\* While an actor keeps its snapshot, late answers and replays never take its
\* version back.
THEOREM HotMonotonic == Spec => HotNeverRewinds
<1> DEFINE Forward == \A i \in Inst : hot[i].loaded /\ hot'[i].loaded =>
                          hot'[i].version >= hot[i].version
<1>1. ASSUME IInv, Next PROVE Forward
  <2>0. TypeOK /\ AnswerInv /\ HotInv /\ \A i \in Inst : hot[i].version \in Nat
    BY <1>1 DEF IInv, TypeOK, Snapshot
  <2>1. ASSUME NEW i \in Inst, hot' = hot \/ hot' = [hot EXCEPT ![i] = Cold]
        PROVE  Forward
    <3>1. CASE hot' = hot
      BY <2>0, <3>1
    <3>2. CASE hot' = [hot EXCEPT ![i] = Cold]
      BY <2>0, <3>2 DEF TypeOK, Cold
    <3> QED BY <2>1, <3>1, <3>2
  <2>2. CASE hot' = hot
    BY <2>0, <2>2
  <2>3. ASSUME NEW i \in Inst, AdvanceRouteEpoch(i) \/ ColdLoadFails(i)
                               \/ Timeout(i) \/ Crash(i)
        PROVE  Forward
    <3>1. hot' = hot \/ hot' = [hot EXCEPT ![i] = Cold]
      BY <2>3 DEF AdvanceRouteEpoch, ColdLoadFails, Timeout, Crash
    <3> QED BY <2>1, <3>1
  <2>4. ASSUME NEW i \in Inst, LoadSnapshot(i) PROVE Forward
    BY <2>0, <2>4 DEF TypeOK, HotInv, LoadSnapshot, version
  <2>5. ASSUME NEW i \in Inst, Receive(i) PROVE Forward
    <3>1. PICK s \in Slot :
            /\ tx[s].step = "answered" /\ tx[s].inst = i
            /\ hot' = [hot EXCEPT ![i] = HotAfter(@, tx[s])]
      BY <2>5 DEF Receive
    <3>2. /\ hot'[i] = HotAfter(hot[i], tx[s])
          /\ \A j \in Inst \ {i} : hot'[j] = hot[j]
      BY <2>0, <3>1 DEF TypeOK
    <3>3. hot[i] \in Snapshot
      BY <2>0 DEF TypeOK
    <3>4. hot[i].loaded /\ tx[s].version > 0 /\ ~ tx[s].replayed =>
              tx[s].version >= hot[i].version
      BY <2>0, <3>1 DEF HotInv
    <3>5. hot[i].loaded => hot'[i].version >= hot[i].version
      BY <2>0, <3>2, <3>3, <3>4 DEF HotAfter, Snapshot
    <3> QED BY <2>0, <3>2, <3>5
  <2>6. CASE Reschedule \/ (\E c \in Cmd : Submit(c)) \/ (\E i \in Inst : Claim(i) \/ Take(i))
    BY <2>2, <2>6 DEF Reschedule, Submit, Claim, Take
  <2>7. ASSUME NEW s \in Slot, SlotStep(s) PROVE Forward
    BY <2>0, <2>2, <2>7, SlotFrame
  <2> QED BY <1>1, <2>3, <2>4, <2>5, <2>6, <2>7 DEF Next, SlotStep
<1>2. IInv /\ [Next]_vars => [Forward]_vars
  BY <1>1
<1> QED BY <1>2, Invariance, PTL DEF Spec, HotNeverRewinds

-----------------------------------------------------------------------------
(* Refinement.                                                             *)

LEMMA LedgerInit == Init => Ledger!Init
  BY DEF Init, Ledger!Init, Unsent, Ledger!Unsent

\* Commits are the ledger's Apply, Receive its Answer, Submit its Issue and a
\* fence update its Advance; every other step leaves the ledger alone.
LEMMA LedgerNext == IInv /\ IInv' /\ [Next]_vars => [Ledger!Next]_(Ledger!vars)
<1> SUFFICES ASSUME IInv, IInv', [Next]_vars
             PROVE  Ledger!Next \/ UNCHANGED Ledger!vars
  OBVIOUS
<1>0. /\ TypeOK /\ TypeOK' /\ RouteInv /\ LockInv /\ HistoryInv /\ AnswerInv
      /\ Len(log) \in Nat
  BY LenProperties DEF IInv, TypeOK
<1>1. \A n, c : Ledger!Realizes(log, n, c) <=> Realizes(log, n, c)
  BY DEF Ledger!Realizes, Ledger!KeepsReceipt, Realizes, KeepsReceipt
<1>2. CASE UNCHANGED <<log, fence, base, acked>>
  BY <1>2 DEF Ledger!vars
<1>3. ASSUME NEW c \in Cmd, Submit(c) PROVE Ledger!Next \/ UNCHANGED Ledger!vars
  <2>1. UNCHANGED <<log, fence, acked>>
    BY <1>3 DEF Submit
  <2>2. CASE base' = base
    BY <1>2, <2>1, <2>2
  <2>3. CASE base' # base
    <3>1. PICK b \in Issuable(c) : base' = [base EXCEPT ![c] = b]
      BY <1>3, <2>3 DEF Submit
    <3>2. base[c] = Unsent
      BY <1>3, <2>3 DEF Submit
    <3>3. base'[c] = b
      BY <1>0, <3>1 DEF TypeOK
    <3>4. /\ b # Unsent
          /\ Kind[c] # "pet" => b \in 0..Len(log) + 1
      BY <1>0 DEF TypeOK, Issuable, Unsent, version
    <3>5. Ledger!Issue(c)
      BY <2>1, <3>1, <3>2, <3>3, <3>4 DEF Ledger!Issue, Unsent, Ledger!Unsent
    <3> QED BY <3>5 DEF Ledger!Next
  <2> QED BY <2>2, <2>3
<1>4. ASSUME NEW i \in Inst, AdvanceRouteEpoch(i)
      PROVE  Ledger!Next \/ UNCHANGED Ledger!vars
  <2>1. UNCHANGED <<log, base, acked>>
    BY <1>4 DEF AdvanceRouteEpoch
  <2>2. fence \in Nat /\ fence' \in Nat /\ fence <= fence'
    BY <1>0, HistoryFrame DEF TypeOK, Epoch
  <2>3. CASE fence' = fence
    BY <1>2, <2>1, <2>3
  <2>4. CASE fence' # fence
    BY <2>1, <2>2, <2>4 DEF Ledger!Next, Ledger!Advance
  <2> QED BY <2>3, <2>4
<1>5. ASSUME NEW i \in Inst, Receive(i) PROVE Ledger!Next \/ UNCHANGED Ledger!vars
  <2>1. UNCHANGED <<log, fence, base>>
    BY <1>5 DEF Receive
  <2>2. PICK s \in Slot :
          /\ tx[s].step = "answered"
          /\ acked' = IF tx[s].version > 0
                      THEN [acked EXCEPT ![tx[s].cmd] = tx[s].version] ELSE acked
    BY <1>5 DEF Receive
  <2>3. CASE tx[s].version > 0
    <3>1. tx[s].cmd \in Cmd /\ tx[s].version \in Nat
      BY <1>0, <2>2 DEF TypeOK, Free, Running
    <3>2. /\ tx[s].version \in 1..Len(log)
          /\ Ledger!Realizes(log, tx[s].version, tx[s].cmd)
      BY <1>0, <1>1, <2>2, <2>3, <3>1 DEF AnswerInv, AnswerOK, version
    <3>3. Ledger!Answer(tx[s].cmd)
      BY <2>1, <2>2, <2>3, <3>2 DEF Ledger!Answer
    <3> QED BY <3>1, <3>3 DEF Ledger!Next
  <2>4. CASE ~ (tx[s].version > 0)
    BY <1>2, <2>1, <2>2, <2>4
  <2> QED BY <2>3, <2>4
<1>6. ASSUME NEW s \in Slot, Commit(s), ~ DuplicateReceipt(tx[s].cmd)
      PROVE  Ledger!Next
  <2>1. /\ tx[s] \in Running /\ tx[s].step = "locked"
        /\ UNCHANGED <<fence, base, acked>>
    BY <1>0, <1>6, CommitEffect
  <2>2. tx[s].cmd \in Cmd /\ KeyOf[tx[s].cmd] \in Key
    BY <2>1, CommandAssumption DEF Running
  <2>3. /\ base[tx[s].cmd] # Unsent
        /\ tx[s].epoch = fence
        /\ Kind[tx[s].cmd] # "pet" => base[tx[s].cmd] = Len(log)
    BY <1>0, <2>1 DEF RouteInv, TxRoute, LockInv, RowAccepts, version
  <2>4. log' = Append(log, [cmd |-> tx[s].cmd, epoch |-> fence])
    BY <1>6, <2>3 DEF Commit
  <2>5. KeepsReceipt(tx[s].cmd) => \A n \in 1..Len(log) : ~ Realizes(log, n, tx[s].cmd)
    <3> SUFFICES ASSUME KeepsReceipt(tx[s].cmd), NEW n \in 1..Len(log),
                        Realizes(log, n, tx[s].cmd)
                 PROVE  DuplicateReceipt(tx[s].cmd)
      BY <1>6
    <3>1. receipt[KeyOf[tx[s].cmd]] = n
      BY <1>0 DEF HistoryInv, ReceiptNamed, Realizes, version
    <3> QED BY <3>1 DEF DuplicateReceipt
  <2>6. Ledger!KeepsReceipt(tx[s].cmd) <=> KeepsReceipt(tx[s].cmd)
    BY DEF Ledger!KeepsReceipt, KeepsReceipt
  <2>7. Ledger!Apply(tx[s].cmd)
    BY <1>1, <2>1, <2>3, <2>4, <2>5, <2>6 DEF Ledger!Apply, Unsent, Ledger!Unsent
  <2> QED BY <2>2, <2>7 DEF Ledger!Next
<1>7. ASSUME NEW s \in Slot, SlotStep(s) PROVE Ledger!Next \/ UNCHANGED Ledger!vars
  <2>1. UNCHANGED <<fence, base, acked>>
    BY <1>0, <1>7, SlotFrame
  <2>2. CASE Commit(s) /\ ~ DuplicateReceipt(tx[s].cmd)
    BY <1>6, <2>2
  <2>3. CASE ~ (Commit(s) /\ ~ DuplicateReceipt(tx[s].cmd))
    <3>1. log' = log
      BY <1>7, <2>3 DEF SlotStep, CheckReceipt, LockRow, Refuse, TransientError, Commit
    <3> QED BY <1>2, <2>1, <3>1
  <2> QED BY <2>2, <2>3
<1>8. CASE \/ Reschedule \/ UNCHANGED vars
           \/ \E i \in Inst : \/ Claim(i) \/ Take(i) \/ LoadSnapshot(i)
                              \/ ColdLoadFails(i) \/ Timeout(i) \/ Crash(i)
  BY <1>2, <1>8 DEF Reschedule, vars, Claim, Take, LoadSnapshot, ColdLoadFails,
                    Timeout, Crash
<1> QED
  BY <1>3, <1>4, <1>5, <1>7, <1>8 DEF Next, SlotStep

\* The write path implements the ledger: clients see a history that only
\* grows, with each command in it at most once and each answer true of it.
THEOREM Refinement == Spec => ImplementsLedger
  BY LedgerInit, LedgerNext, Invariance, PTL
  DEF Spec, ImplementsLedger, Ledger!Spec
=============================================================================
