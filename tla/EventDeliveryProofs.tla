------------------------- MODULE EventDeliveryProofs -------------------------
(***************************************************************************)
(* The safety properties of EventDelivery, for every number of events,     *)
(* relays, consumers, faults and rebalances.                               *)
(***************************************************************************)
EXTENDS EventDelivery, FiniteSetTheorems, FunctionTheorems, TLAPS

-----------------------------------------------------------------------------
(* The inductive invariant.                                                *)

\* What relay r has in hand at each step of ScanAndPublish, one copy per row;
\* what it will mark PUBLISHED is in the topic.
InHand(r) ==
    LET at == relay[r] IN
    /\ at.step \in {"idle", "scan"} => at = [Idle EXCEPT !.step = at.step]
    /\ at.step = "publish" => at.failed = {} /\ at.ok = {}
    /\ at.step = "mark" => at.batch = {}
    /\ \A x, y \in at.batch : x.event = y.event => x = y
    /\ \A x, y \in at.failed : x.event = y.event => x = y
    /\ \A x \in at.failed : x.event \notin at.ok
    /\ \A e \in at.ok : InLog(e)

\* Only a claim runs out, and only a row given up has spent its retries.
RowStands(e) ==
    /\ row[e].expired => row[e].status = "PUBLISHING"
    /\ row[e].status # "DEAD" => row[e].retry <= MaxRetry

\* Without a fault, the relay that has an event in hand is the one its row names.
HolderIsNamed ==
    faults = 0 => \A e \in Event : \A r \in Relay :
        Holds(r, e) => /\ row[e].status = "PUBLISHING" /\ row[e].by = r
                       /\ ~ row[e].expired

RelayInv ==
    /\ RelayTypeOK
    /\ \A r \in Relay : InHand(r)
    /\ \A e \in Event : RowStands(e)
    /\ PublishedIsInLog
    /\ HolderIsNamed

\* Everything before the message a member is at is settled; the message itself
\* is when its commit is due, and is credited when its record is.
InTurn(m) ==
    LET at == member[m] IN
    /\ at.next <= Len(log) + 1
    /\ at.step # "idle" => at.offset >= 1 /\ at.next = at.offset + 1
    /\ \A o \in 1 .. at.next - 1 : C!Settled(o) \/ (at.step # "idle" /\ o = at.offset)
    /\ at.step = "commit" => C!Settled(at.offset)
    /\ at.step = "record" => C!EventOf(m) \in ledger

\* The ledger decides: a row there is one credit, and a record a row there.
OnLedger ==
    /\ \A e \in Event : credit[e] = IF e \in ledger THEN 1 ELSE 0
    /\ consumed \subseteq ledger

MemberInv ==
    /\ C!MemberTypeOK
    /\ committed <= Len(log)
    /\ C!CommittedIsSettled
    /\ \A m \in Member : InTurn(m)
    /\ OnLedger

IInv == RelayInv /\ MemberInv

-----------------------------------------------------------------------------
(* The topic: events are appended in the order of their rows.              *)

\* A batch in order holds each of its events.
LEMMA InOrderIsOnto ==
    ASSUME NEW E, E \subseteq Nat, IsFiniteSet(E), NEW q \in InOrder(E)
    PROVE  /\ Len(q) \in Nat /\ q \in [1 .. Len(q) -> E]
           /\ \A e \in E : \E i \in 1 .. Len(q) : q[i] = e
  <1> DEFINE n == Cardinality(E)
  <1>1. n \in Nat
    BY FS_CardinalityType
  <1>2. q \in [1 .. n -> E] /\ \A i, j \in 1 .. n : i < j => q[i] < q[j]
    BY DEF InOrder
  <1>3. q \in Seq(E) /\ Len(q) = n
    BY <1>1, <1>2
  <1>4. q \in Injection(1 .. n, E)
    <2>1. \A i, j \in 1 .. n : q[i] = q[j] => i = j
      <3>1. \A i \in 1 .. n : i \in Nat /\ q[i] \in Nat
        <4>1. \A i \in 1 .. n : i \in Nat /\ q[i] \in E
          BY <1>1, <1>2
        <4> QED BY <4>1
      <3>2. \A i, j \in 1 .. n : i < j => q[i] # q[j]
        BY <1>2, <3>1
      <3> QED BY <3>1, <3>2
    <2> QED BY <1>2, <2>1, Fun_IsInj
  <1>5. Cardinality(1 .. n) = n
    BY <1>1, FS_Interval
  <1>6. q \in Surjection(1 .. n, E)
    BY <1>4, <1>5, FS_Injection
  <1> QED BY <1>1, <1>2, <1>3, <1>6 DEF Surjection

\* Publishing keeps what the topic has and adds the batch.
LEMMA Appended ==
    ASSUME log \in Seq(Event), NEW E \in SUBSET Event, Event \subseteq Nat,
           IsFiniteSet(Event), NEW q \in InOrder(E), log' = log \o q
    PROVE  /\ log' \in Seq(Event) /\ Len(log') >= Len(log)
           /\ \A i \in 1 .. Len(log) : log'[i] = log[i]
           /\ \A e \in E : InLog(e)'
  <1>1. /\ Len(q) \in Nat /\ q \in [1 .. Len(q) -> E]
        /\ \A e \in E : \E i \in 1 .. Len(q) : q[i] = e
    <2>1. E \subseteq Nat /\ IsFiniteSet(E)
      BY FS_Subset
    <2> QED BY <2>1, InOrderIsOnto
  <1>2. q \in Seq(Event)
    <2>1. q \in [1 .. Len(q) -> Event]
      BY <1>1
    <2> QED BY <1>1, <2>1
  <1>3. /\ log' \in Seq(Event) /\ Len(log') = Len(log) + Len(q)
        /\ \A i \in 1 .. Len(log) : log'[i] = log[i]
    BY <1>2
  <1>4. \A i \in 1 .. Len(q) : Len(log) + i \in DOMAIN log' /\ log'[Len(log) + i] = q[i]
    BY <1>2, <1>3
  <1>5. \A e \in E : InLog(e)'
    BY <1>1, <1>4 DEF InLog
  <1> QED BY <1>2, <1>3, <1>5

-----------------------------------------------------------------------------
(* The consumer group.                                                     *)

MemberState ==
    [step : {"idle", "process", "handle", "record", "park", "commit"},
     next : Nat \ {0}, offset : Nat, tries : 0..MaxTries]

\* A topic that grows leaves the group where it is.
LEMMA GroupWaits ==
    ASSUME MemberInv, UNCHANGED groupVars, log \in Seq(Event), log' \in Seq(Event),
           Len(log') >= Len(log), \A i \in 1 .. Len(log) : log'[i] = log[i]
    PROVE  MemberInv'
  <1> USE DEF groupVars
  <1>1. C!MemberTypeOK' /\ OnLedger'
    BY DEF MemberInv, C!MemberTypeOK, OnLedger
  <1>2. Len(log) \in Nat /\ Len(log') \in Nat /\ committed \in Nat
    BY DEF MemberInv, C!MemberTypeOK
  <1>3. \A o \in 1 .. Len(log) : C!Settled(o) => C!Settled(o)'
    BY DEF C!Settled
  <1>4. committed' <= Len(log') /\ C!CommittedIsSettled'
    BY <1>2, <1>3 DEF MemberInv, C!CommittedIsSettled
  <1>5. ASSUME NEW m \in Member
        PROVE  InTurn(m)'
    <2>1. member[m] \in MemberState
      BY DEF MemberInv, C!MemberTypeOK, MemberState
    <2>2. member[m].next \in Nat /\ member[m].offset \in Nat
      BY <2>1 DEF MemberState
    <2>3. InTurn(m)
      BY DEF MemberInv
    <2>4. member' = member /\ ledger' = ledger
      OBVIOUS
    <2>5. \A o \in 1 .. member[m].next - 1 : o \in 1 .. Len(log)
      BY <1>2, <2>2, <2>3 DEF InTurn
    <2>6. member[m].step # "idle" => member[m].offset \in 1 .. Len(log)
      BY <1>2, <2>2, <2>3 DEF InTurn
    <2>7. member[m].step = "record" => C!EventOf(m)' = C!EventOf(m)
      BY <2>4, <2>6 DEF C!EventOf
    <2>8. \A o \in 1 .. member[m].next - 1 :
            C!Settled(o)' \/ (member[m].step # "idle" /\ o = member[m].offset)
      BY <1>3, <2>3, <2>5 DEF InTurn
    <2>9. member[m].step = "commit" => C!Settled(member[m].offset)'
      BY <1>3, <2>3, <2>6 DEF InTurn
    <2> QED BY <1>2, <2>2, <2>3, <2>4, <2>7, <2>8, <2>9 DEF InTurn
  <1> QED BY <1>1, <1>4, <1>5 DEF MemberInv

\* One member moves: the others stay in turn, for what is settled or credited
\* stays so.
LEMMA OneMoves ==
    ASSUME MemberInv, NEW m \in Member, log' = log,
           consumed \subseteq consumed', parked \subseteq parked', ledger \subseteq ledger',
           \A k \in Member \ {m} : member'[k] = member[k]
    PROVE  /\ \A o \in Nat : C!Settled(o) => C!Settled(o)'
           /\ \A k \in Member \ {m} : InTurn(k)'
  <1>1. \A o : C!Settled(o) => C!Settled(o)'
    BY DEF C!Settled
  <1>2. ASSUME NEW k \in Member \ {m}
        PROVE  InTurn(k)'
    <2>1. InTurn(k) /\ member'[k] = member[k]
      BY DEF MemberInv
    <2> QED BY <1>1, <2>1 DEF InTurn, C!EventOf
  <1> QED BY <1>1, <1>2

\* Member m goes on with its message.
Advances(m, s) ==
    /\ member' \in [Member -> MemberState]
    /\ \A k \in Member \ {m} : member'[k] = member[k]
    /\ member'[m].next = member[m].next /\ member'[m].offset = member[m].offset
    /\ member'[m].step = s

LEMMA GotoAdvances ==
    ASSUME C!MemberTypeOK, NEW m \in Member,
           NEW s \in {"process", "handle", "record", "park", "commit"}, C!Goto(m, s)
    PROVE  Advances(m, s)
  BY DEF C!MemberTypeOK, C!Goto, Advances, MemberState

LEMMA FailureAdvances ==
    ASSUME C!MemberTypeOK, NEW m \in Member, C!AttemptFails(m)
    PROVE  Advances(m, "process") \/ Advances(m, "park")
  <1>1. member \in [Member -> MemberState] /\ MaxTries \in Nat \ {0}
    BY DeliveryAssumption DEF C!MemberTypeOK, MemberState
  <1>2. member[m] \in MemberState
    BY <1>1
  <1>3. CASE member[m].tries < MaxTries
    <2>1. member' = [member EXCEPT ![m].step = "process", ![m].tries = member[m].tries + 1]
      BY <1>1, <1>2, <1>3 DEF C!AttemptFails, MemberState
    <2>2. member[m].tries + 1 \in 0 .. MaxTries
      BY <1>1, <1>2, <1>3 DEF MemberState
    <2> QED BY <1>1, <1>2, <2>1, <2>2 DEF Advances, MemberState
  <1>4. CASE ~ member[m].tries < MaxTries
    <2>1. C!Goto(m, "park")
      BY <1>4 DEF C!AttemptFails
    <2> QED BY <2>1, GotoAdvances
  <1> QED BY <1>3, <1>4

\* A member goes on with its message: it is still in turn if the message is
\* settled when a commit is next, and credited when a record is.
LEMMA StaysInTurn ==
    ASSUME MemberInv, NEW m \in Member, log' = log, member[m].step # "idle",
           consumed \subseteq consumed', parked \subseteq parked', ledger \subseteq ledger',
           NEW s \in {"process", "handle", "record", "park", "commit"}, Advances(m, s),
           s = "commit" => C!Settled(member[m].offset)',
           s = "record" => C!EventOf(m) \in ledger'
    PROVE  \A k \in Member : InTurn(k)'
  <1>1. \A o \in Nat : C!Settled(o) => C!Settled(o)'
    BY OneMoves DEF Advances
  <1>2. \A k \in Member \ {m} : InTurn(k)'
    BY OneMoves DEF Advances
  <1>3. /\ member'[m].next = member[m].next /\ member'[m].offset = member[m].offset
        /\ member'[m].step = s
    BY DEF Advances
  <1>4. InTurn(m) /\ member[m].next \in Nat
    BY DEF MemberInv, C!MemberTypeOK
  <1>5. InTurn(m)'
    <2>1. \A o \in 1 .. member[m].next - 1 : C!Settled(o)' \/ o = member[m].offset
      BY <1>1, <1>4 DEF InTurn
    <2>2. (C!EventOf(m))' = C!EventOf(m)
      BY <1>3 DEF C!EventOf
    <2> QED BY <1>3, <1>4, <2>1, <2>2 DEF InTurn
  <1> QED BY <1>2, <1>5

\* A member at a message has the offset of one, and its event.
LEMMA AtMessage ==
    ASSUME MemberInv, log \in Seq(Event), NEW m \in Member, member[m].step # "idle"
    PROVE  member[m].offset \in 1 .. Len(log) /\ C!EventOf(m) \in Event
  <1>1. member[m].offset \in Nat /\ member[m].next \in Nat /\ InTurn(m)
    BY DEF MemberInv, C!MemberTypeOK
  <1>2. member[m].offset \in 1 .. Len(log)
    BY <1>1 DEF InTurn
  <1> QED BY <1>2 DEF C!EventOf

LEMMA FetchStep ==
    ASSUME MemberInv, log \in Seq(Event), NEW m \in Member, C!FetchMessage(m)
    PROVE  MemberInv'
  <1> USE DEF C!FetchMessage
  <1>1. member \in [Member -> MemberState] /\ member[m] \in MemberState
    BY DEF MemberInv, C!MemberTypeOK, MemberState
  <1>2. 1 \in 0 .. MaxTries
    BY DeliveryAssumption
  <1> DEFINE n == member[m].next
             at == [step |-> "process", next |-> n + 1, offset |-> n, tries |-> 1]
  <1>3. member' = [member EXCEPT ![m] = at] /\ n \in Nat \ {0} /\ n <= Len(log)
    BY <1>1 DEF MemberState
  <1>4. at \in MemberState
    BY <1>2, <1>3 DEF MemberState
  <1>5. member' \in [Member -> MemberState] /\ member'[m] = at
    BY <1>1, <1>3, <1>4
  <1>6. C!MemberTypeOK' /\ OnLedger'
    BY <1>5 DEF MemberInv, C!MemberTypeOK, OnLedger, MemberState
  <1>7. C!CommittedIsSettled' /\ committed' <= Len(log')
    BY DEF MemberInv, C!CommittedIsSettled, C!Settled
  <1>8. /\ \A o \in Nat : C!Settled(o) => C!Settled(o)'
        /\ \A k \in Member \ {m} : InTurn(k)'
    BY <1>1, <1>3, OneMoves
  <1>9. InTurn(m)'
    <2>1. InTurn(m) /\ member[m].step = "idle"
      BY DEF MemberInv
    <2>2. \A o \in 1 .. n - 1 : C!Settled(o)'
      BY <1>3, <1>8, <2>1 DEF InTurn
    <2>3. \A o \in 1 .. n : C!Settled(o)' \/ o = n
      BY <1>3, <2>2
    <2>4. /\ at.step = "process" /\ at.next = n + 1 /\ at.offset = n
          /\ (n + 1) - 1 = n /\ n >= 1 /\ n + 1 <= Len(log) + 1
      BY <1>3
    <2> QED BY <1>5, <2>3, <2>4 DEF InTurn
  <1> QED BY <1>6, <1>7, <1>8, <1>9 DEF MemberInv

\* The steps between a fetch and a commit, but for what they write.
LEMMA WorkStep ==
    ASSUME MemberInv, NEW m \in Member, member[m].step # "idle",
           UNCHANGED <<log, committed, assigned, moves>>,
           consumed \subseteq consumed', parked \subseteq parked', ledger \subseteq ledger',
           consumed' \subseteq Event, parked' \subseteq Nat, ledger' \subseteq Event,
           credit' \in [Event -> Nat], OnLedger',
           NEW s \in {"process", "handle", "record", "park", "commit"}, Advances(m, s),
           s = "commit" => C!Settled(member[m].offset)',
           s = "record" => C!EventOf(m) \in ledger'
    PROVE  MemberInv'
  <1>1. C!MemberTypeOK'
    BY DEF MemberInv, C!MemberTypeOK, Advances, MemberState
  <1>2. \A k \in Member : InTurn(k)'
    BY StaysInTurn
  <1>3. C!CommittedIsSettled' /\ committed' <= Len(log')
    BY DEF MemberInv, C!CommittedIsSettled, C!Settled
  <1> QED BY <1>1, <1>2, <1>3 DEF MemberInv

LEMMA AlreadyConsumedStep ==
    ASSUME MemberInv, log \in Seq(Event), NEW m \in Member, C!AlreadyConsumed(m)
    PROVE  MemberInv'
  <1> USE DEF C!AlreadyConsumed
  <1>1. C!MemberTypeOK /\ OnLedger
    BY DEF MemberInv
  <1>2. member[m].step # "idle" /\ consumed \subseteq Event /\ parked \subseteq Nat
        /\ ledger \subseteq Event /\ credit' \in [Event -> Nat]
    BY <1>1 DEF C!MemberTypeOK
  <1>3. OnLedger'
    BY <1>1 DEF OnLedger
  <1>4. CASE C!Goto(m, "park")
    BY <1>1, <1>2, <1>3, <1>4, GotoAdvances, WorkStep
  <1>5. CASE C!Goto(m, "handle")
    BY <1>1, <1>2, <1>3, <1>5, GotoAdvances, WorkStep
  <1>6. CASE C!EventOf(m) \in consumed /\ C!Goto(m, "commit")
    <2>1. Advances(m, "commit")
      BY <1>1, <1>6, GotoAdvances
    <2>2. C!Settled(member[m].offset)'
      BY <1>6, <2>1 DEF Advances, C!EventOf, C!Settled
    <2> QED BY <1>2, <1>3, <2>1, <2>2, WorkStep
  <1>7. CASE C!AttemptFails(m)
    BY <1>1, <1>2, <1>3, <1>7, FailureAdvances, WorkStep
  <1> QED BY <1>4, <1>5, <1>6, <1>7

\* The projector's transaction: one ledger row, one credit.
LEMMA CreditStep ==
    ASSUME C!MemberTypeOK, OnLedger, NEW e \in Event, C!Credit(e), consumed' = consumed
    PROVE  /\ ledger \subseteq ledger' /\ ledger' \subseteq Event /\ e \in ledger'
           /\ credit' \in [Event -> Nat] /\ OnLedger'
  <1>1. CASE e \in ledger /\ UNCHANGED <<ledger, credit>>
    BY <1>1 DEF C!MemberTypeOK, OnLedger
  <1>2. CASE e \notin ledger /\ ledger' = ledger \cup {e} /\ credit' = [credit EXCEPT ![e] = @ + 1]
    <2>1. credit[e] = 0 /\ credit \in [Event -> Nat] /\ ledger \subseteq Event
      BY <1>2 DEF C!MemberTypeOK, OnLedger
    <2>2. credit' \in [Event -> Nat] /\ \A d \in Event : credit'[d] = IF d = e THEN 1 ELSE credit[d]
      BY <1>2, <2>1
    <2>3. \A d \in Event : d \in ledger' <=> d = e \/ d \in ledger
      BY <1>2
    <2> QED BY <1>2, <2>1, <2>2, <2>3 DEF OnLedger
  <1> QED BY <1>1, <1>2 DEF C!Credit

LEMMA HandleStep ==
    ASSUME MemberInv, log \in Seq(Event), NEW m \in Member, C!Handle(m)
    PROVE  MemberInv'
  <1> USE DEF C!Handle
  <1>1. C!MemberTypeOK /\ OnLedger
    BY DEF MemberInv
  <1>2. /\ member[m].step # "idle" /\ consumed \subseteq Event /\ parked \subseteq Nat
        /\ C!EventOf(m) \in Event
    BY <1>1, AtMessage DEF C!MemberTypeOK
  <1>3. /\ ledger \subseteq ledger' /\ ledger' \subseteq Event
        /\ credit' \in [Event -> Nat] /\ OnLedger'
    <2>1. CASE C!Credit(C!EventOf(m))
      BY <1>1, <1>2, <2>1, CreditStep
    <2>2. CASE UNCHANGED <<ledger, credit>>
      BY <1>1, <2>2 DEF C!MemberTypeOK, OnLedger
    <2> QED BY <2>1, <2>2
  <1>4. CASE C!Credit(C!EventOf(m)) /\ C!Goto(m, "record")
    <2>1. C!EventOf(m) \in ledger'
      BY <1>1, <1>2, <1>4, CreditStep
    <2>2. Advances(m, "record")
      BY <1>1, <1>4, GotoAdvances
    <2> QED BY <1>2, <1>3, <2>1, <2>2, WorkStep
  <1>5. CASE C!AttemptFails(m)
    <2>1. Advances(m, "process") \/ Advances(m, "park")
      BY <1>1, <1>5, FailureAdvances
    <2> QED BY <1>2, <1>3, <2>1, WorkStep
  <1> QED BY <1>4, <1>5

LEMMA MarkConsumedStep ==
    ASSUME MemberInv, log \in Seq(Event), NEW m \in Member, C!MarkConsumed(m)
    PROVE  MemberInv'
  <1> USE DEF C!MarkConsumed
  <1>1. C!MemberTypeOK /\ OnLedger /\ InTurn(m)
    BY DEF MemberInv
  <1>2. /\ member[m].step = "record" /\ consumed \subseteq Event /\ parked \subseteq Nat
        /\ ledger \subseteq Event /\ credit' \in [Event -> Nat]
    BY <1>1 DEF C!MemberTypeOK
  <1>3. C!EventOf(m) \in ledger /\ C!EventOf(m) \in Event
    BY <1>1, <1>2, AtMessage DEF InTurn
  <1>4. consumed \subseteq consumed' /\ consumed' \subseteq consumed \cup {C!EventOf(m)}
    OBVIOUS
  <1>5. consumed' \subseteq Event /\ OnLedger'
    BY <1>1, <1>2, <1>3, <1>4 DEF OnLedger
  <1>6. CASE consumed' = consumed \cup {C!EventOf(m)} /\ C!Goto(m, "commit")
    <2>1. Advances(m, "commit")
      BY <1>1, <1>6, GotoAdvances
    <2>2. C!Settled(member[m].offset)'
      BY <1>6, <2>1 DEF Advances, C!EventOf, C!Settled
    <2> QED BY <1>2, <1>4, <1>5, <2>1, <2>2, WorkStep
  <1>7. CASE C!AttemptFails(m)
    <2>1. Advances(m, "process") \/ Advances(m, "park")
      BY <1>1, <1>7, FailureAdvances
    <2> QED BY <1>2, <1>4, <1>5, <2>1, WorkStep
  <1> QED BY <1>6, <1>7

LEMMA RecordFailureStep ==
    ASSUME MemberInv, log \in Seq(Event), NEW m \in Member, C!RecordFailure(m)
    PROVE  MemberInv'
  <1> USE DEF C!RecordFailure
  <1>1. C!MemberTypeOK /\ OnLedger
    BY DEF MemberInv
  <1>2. /\ member[m].step # "idle" /\ consumed \subseteq Event /\ parked' \subseteq Nat
        /\ ledger \subseteq Event /\ credit' \in [Event -> Nat] /\ parked \subseteq parked'
    BY <1>1 DEF C!MemberTypeOK
  <1>3. OnLedger'
    BY <1>1 DEF OnLedger
  <1>4. Advances(m, "commit")
    BY <1>1, GotoAdvances
  <1>5. C!Settled(member[m].offset)'
    BY <1>4 DEF Advances, C!Settled
  <1> QED BY <1>2, <1>3, <1>4, <1>5, WorkStep

\* A member starts over at a place before which everything is settled.
LEMMA ReadyStep ==
    ASSUME MemberInv, log \in Seq(Event), NEW m \in Member,
           NEW n \in 1 .. Len(log) + 1, member' = [member EXCEPT ![m] = C!Ready(n)],
           UNCHANGED <<log, consumed, parked, ledger, credit>>,
           \A o \in 1 .. n - 1 : C!Settled(o),
           committed' \in 0 .. Len(log), \A o \in 1 .. committed' : C!Settled(o),
           assigned' \in Member, moves' \in 0 .. MaxMoves
    PROVE  MemberInv'
  <1>1. member \in [Member -> MemberState]
    BY DEF MemberInv, C!MemberTypeOK, MemberState
  <1>2. C!Ready(n) \in MemberState
    BY DeliveryAssumption DEF C!Ready, C!NoMessage, MemberState
  <1>3. /\ member' \in [Member -> MemberState] /\ member'[m] = C!Ready(n)
        /\ \A k \in Member \ {m} : member'[k] = member[k]
    BY <1>1, <1>2
  <1>4. C!MemberTypeOK' /\ OnLedger'
    <2>1. /\ consumed \subseteq Event /\ parked \subseteq Nat /\ ledger \subseteq Event
          /\ credit \in [Event -> Nat] /\ OnLedger
      BY DEF MemberInv, C!MemberTypeOK
    <2>2. committed' \in Nat
      OBVIOUS
    <2>3. OnLedger'
      BY <2>1 DEF OnLedger
    <2> QED BY <1>3, <2>1, <2>2, <2>3 DEF C!MemberTypeOK, MemberState
  <1>5. \A o : C!Settled(o)' <=> C!Settled(o)
    BY DEF C!Settled
  <1>6. C!CommittedIsSettled' /\ committed' <= Len(log')
    BY <1>5 DEF C!CommittedIsSettled, C!Settled
  <1>7. \A k \in Member \ {m} : InTurn(k)'
    BY <1>3, OneMoves
  <1>8. InTurn(m)'
    <2>1. member'[m].step = "idle" /\ member'[m].next = n
      BY <1>3 DEF C!Ready
    <2> QED BY <1>5, <2>1 DEF InTurn
  <1> QED BY <1>4, <1>6, <1>7, <1>8 DEF MemberInv

LEMMA CommitStep ==
    ASSUME MemberInv, log \in Seq(Event), NEW m \in Member, C!CommitMessages(m)
    PROVE  MemberInv'
  <1> USE DEF C!CommitMessages
  <1>1. C!MemberTypeOK /\ InTurn(m) /\ committed <= Len(log)
    BY DEF MemberInv
  <1>2. /\ member[m].next \in Nat \ {0} /\ member[m].offset \in Nat
        /\ committed \in Nat /\ assigned \in Member /\ moves \in 0 .. MaxMoves
    BY <1>1 DEF C!MemberTypeOK
  <1>3. /\ member[m].offset \in 1 .. Len(log) /\ member[m].next = member[m].offset + 1
        /\ \A o \in 1 .. member[m].offset : C!Settled(o)
    <2>1. member[m].step = "commit"
      OBVIOUS
    <2>2. member[m].offset \in 1 .. Len(log) /\ member[m].next = member[m].offset + 1
      BY <1>1, <1>2, <2>1, AtMessage DEF InTurn
    <2>3. \A o \in 1 .. member[m].offset : o \in 1 .. member[m].next - 1
      BY <1>2, <2>2
    <2> QED BY <1>1, <2>1, <2>2, <2>3 DEF InTurn
  <1>4. \A o \in 1 .. committed : C!Settled(o)
    BY DEF MemberInv, C!CommittedIsSettled
  <1>5. committed' \in 0 .. Len(log) /\ \A o \in 1 .. committed' : C!Settled(o)
    BY <1>1, <1>2, <1>3, <1>4
  <1>6. member' = [member EXCEPT ![m] = C!Ready(member[m].next)]
    BY <1>1 DEF C!MemberTypeOK
  <1>7. /\ member[m].next \in 1 .. Len(log) + 1
        /\ \A o \in 1 .. member[m].next - 1 : C!Settled(o)
    BY <1>2, <1>3
  <1> QED BY <1>2, <1>5, <1>6, <1>7, ReadyStep

LEMMA MoveStep ==
    ASSUME MemberInv, log \in Seq(Event), NEW m \in Member, C!Rebalance(m) \/ C!Restart(m)
    PROVE  MemberInv'
  <1>1. /\ committed \in Nat /\ committed <= Len(log) /\ assigned \in Member
        /\ moves \in 0 .. MaxMoves /\ MaxMoves \in Nat
    BY DeliveryAssumption DEF MemberInv, C!MemberTypeOK
  <1>2. \A o \in 1 .. committed : C!Settled(o)
    BY DEF MemberInv, C!CommittedIsSettled
  <1>3. committed + 1 \in 1 .. Len(log) + 1 /\ (committed + 1) - 1 = committed
    BY <1>1
  <1>4. /\ member' = [member EXCEPT ![m] = C!Ready(committed + 1)]
        /\ UNCHANGED <<log, committed, consumed, parked, ledger, credit>>
        /\ assigned' \in Member /\ moves' \in 0 .. MaxMoves
    BY <1>1 DEF C!Rebalance, C!Restart
  <1>5. committed' \in 0 .. Len(log) /\ \A o \in 1 .. committed' : C!Settled(o)
    BY <1>1, <1>2, <1>4
  <1> QED BY <1>2, <1>3, <1>4, <1>5, ReadyStep

LEMMA MembersKeepInv ==
    ASSUME MemberInv, log \in Seq(Event), C!MemberNext
    PROVE  MemberInv' /\ log' = log
  <1>1. PICK m \in Member : C!Consume(m) \/ C!Rebalance(m) \/ C!Restart(m)
    BY DEF C!MemberNext
  <1>2. MemberInv'
    BY <1>1, FetchStep, AlreadyConsumedStep, HandleStep, MarkConsumedStep,
       RecordFailureStep, CommitStep, MoveStep DEF C!Consume
  <1>3. log' = log
    BY <1>1 DEF C!Consume, C!FetchMessage, C!AlreadyConsumed, C!Handle, C!MarkConsumed,
       C!RecordFailure, C!CommitMessages, C!Rebalance, C!Restart
  <1> QED BY <1>2, <1>3

-----------------------------------------------------------------------------
(* The relays.                                                             *)

RelayState == [step : {"idle", "scan", "publish", "mark"},
               batch : SUBSET ClaimedRow, failed : SUBSET ClaimedRow, ok : SUBSET Event]

\* The types of the relays' state, one by one.
LEMMA RelayTypes ==
    ASSUME RelayTypeOK
    PROVE  /\ row \in [Event -> Row] /\ relay \in [Relay -> RelayState]
           /\ log \in Seq(Event) /\ faults \in Nat /\ faults <= MaxFaults
           /\ MaxFaults \in Nat /\ MaxRetry \in Nat
  BY DeliveryAssumption DEF RelayTypeOK, RelayState

\* Faults are counted up to their bound.
LEMMA FaultsCounted ==
    ASSUME RelayTypeOK, faults' = faults \/ UpdateFails
    PROVE  faults' \in 0 .. MaxFaults /\ (faults' = 0 => faults = 0)
  <1>1. faults \in Nat /\ faults <= MaxFaults /\ MaxFaults \in Nat
    BY RelayTypes
  <1>2. CASE faults' = faults
    BY <1>1, <1>2
  <1>3. CASE faults < MaxFaults /\ faults' = faults + 1
    BY <1>1, <1>3
  <1> QED BY <1>2, <1>3 DEF UpdateFails

\* A row the database may hold, with these values.
LEMMA RowOf ==
    ASSUME MaxRetry \in Nat,
           NEW s \in {"none", "PENDING", "PUBLISHING", "PUBLISHED", "DEAD"},
           NEW b \in BOOLEAN, NEW n \in 0 .. MaxRetry + 1
    PROVE  /\ [NoRow EXCEPT !.status = s, !.retry = n] \in Row
           /\ [NoRow EXCEPT !.status = s] \in Row
           /\ [Pending EXCEPT !.backoff = b, !.retry = n] \in Row
  <1>1. 0 \in 0 .. MaxRetry + 1
    OBVIOUS
  <1> QED BY <1>1 DEF NoRow, Pending, Row

\* The outbox is written to, a lease runs out, or a backoff ends: no relay moves.
LEMMA RowStep ==
    ASSUME RelayInv, NEW e \in Event, Insert(e) \/ BackoffEnds(e) \/ LeaseExpires(e)
    PROVE  RelayInv' /\ log' = log
  <1>1. /\ row \in [Event -> Row] /\ row[e] \in Row
        /\ faults \in Nat /\ faults <= MaxFaults /\ MaxFaults \in Nat /\ MaxRetry \in Nat
    BY RelayTypes, DeliveryAssumption DEF RelayInv
  <1>2. relay' = relay /\ log' = log /\ faults' \in 0 .. MaxFaults /\ (faults' = 0 => faults = 0)
    BY <1>1 DEF Insert, BackoffEnds, LeaseExpires
  <1>3. row' \in [Event -> Row] /\ \A d \in Event \ {e} : row'[d] = row[d]
    <2>1. CASE Insert(e)
      <3>1. Pending \in Row
        <4>1. 0 \in 0 .. MaxRetry + 1
          BY <1>1
        <4> QED BY <1>1, <4>1, RowOf DEF Pending
      <3> QED BY <1>1, <2>1, <3>1 DEF Insert
    <2>2. CASE BackoffEnds(e)
      BY <1>1, <2>2 DEF BackoffEnds, Row
    <2>3. CASE LeaseExpires(e)
      BY <1>1, <2>3 DEF LeaseExpires, Row
    <2> QED BY <2>1, <2>2, <2>3
  <1>4. /\ row'[e].by = row[e].by /\ row'[e].retry = row[e].retry
        /\ row'[e].expired => row'[e].status = "PUBLISHING"
        /\ row'[e].status = "PUBLISHED" => row[e].status = "PUBLISHED"
        /\ row'[e].status = "DEAD" <=> row[e].status = "DEAD"
        /\ row[e].status = "PUBLISHING" => row'[e].status = "PUBLISHING"
        /\ faults' = 0 /\ row[e].status = "PUBLISHING" /\ Holds(row[e].by, e)
             => row'[e].expired = row[e].expired
    <2>1. CASE Insert(e)
      <3>1. row[e] = NoRow /\ row'[e] = Pending
        BY <1>1, <2>1 DEF Insert
      <3> QED BY <3>1 DEF Pending, NoRow
    <2>2. CASE BackoffEnds(e)
      <3>1. row'[e] = [row[e] EXCEPT !.backoff = FALSE]
        BY <1>1, <2>2 DEF BackoffEnds
      <3>2. RowStands(e)
        BY DEF RelayInv
      <3> QED BY <1>1, <3>1, <3>2 DEF RowStands, Row
    <2>3. CASE LeaseExpires(e)
      <3>1. row'[e] = [row[e] EXCEPT !.expired = TRUE] /\ row[e].status = "PUBLISHING"
        BY <1>1, <2>3 DEF LeaseExpires
      <3>2. Holds(row[e].by, e) => faults' # 0
        BY <1>1, <2>3 DEF LeaseExpires
      <3> QED BY <1>1, <3>1, <3>2 DEF Row
    <2> QED BY <2>1, <2>2, <2>3
  <1>5. RelayTypeOK'
    BY <1>2, <1>3 DEF RelayInv, RelayTypeOK
  <1>6. \A r \in Relay : InHand(r)'
    BY <1>2 DEF RelayInv, InHand, InLog
  <1>7. \A d \in Event : RowStands(d)'
    BY <1>3, <1>4 DEF RelayInv, RowStands
  <1>8. PublishedIsInLog'
    BY <1>2, <1>3, <1>4 DEF RelayInv, PublishedIsInLog, InLog
  <1>9. HolderIsNamed'
    <2>1. \A d \in Event, r \in Relay : Holds(r, d)' <=> Holds(r, d)
      BY <1>2 DEF Holds
    <2> QED BY <1>2, <1>3, <1>4, <2>1 DEF RelayInv, HolderIsNamed
  <1> QED BY <1>2, <1>5, <1>6, <1>7, <1>8, <1>9 DEF RelayInv

\* What a step of relay r alone leaves to the others.
LEMMA OthersInHand ==
    ASSUME RelayInv, NEW r \in Relay, \A q \in Relay \ {r} : relay'[q] = relay[q],
           \A e \in Event : InLog(e) => InLog(e)'
    PROVE  \A q \in Relay \ {r} : InHand(q)'
  <1>1. ASSUME NEW q \in Relay \ {r}
        PROVE  InHand(q)'
    <2>1. InHand(q) /\ relay'[q] = relay[q] /\ relay[q].ok \subseteq Event
      BY RelayTypes DEF RelayInv, RelayState
    <2> QED BY <2>1 DEF InHand, Idle
  <1> QED BY <1>1

\* A relay that drops what it has: a crash, or the end of its work.
LEMMA DropsInHand ==
    ASSUME RelayInv, NEW r \in Relay, log' = log,
           NEW s \in {"idle", "scan"}, relay' = [relay EXCEPT ![r] = [Idle EXCEPT !.step = s]]
    PROVE  /\ relay' \in [Relay -> RelayState]
           /\ \A q \in Relay : InHand(q)'
           /\ \A q \in Relay, e \in Event : Holds(q, e)' => Holds(q, e) /\ q # r
  <1>1. relay \in [Relay -> RelayState]
    BY RelayTypes DEF RelayInv
  <1>2. [Idle EXCEPT !.step = s] \in RelayState
    BY DEF Idle, RelayState
  <1>3. /\ relay' \in [Relay -> RelayState] /\ relay'[r] = [Idle EXCEPT !.step = s]
        /\ \A q \in Relay \ {r} : relay'[q] = relay[q]
    BY <1>1, <1>2
  <1>4. \A q \in Relay \ {r} : InHand(q)'
    BY <1>3, OthersInHand DEF InLog
  <1>5. InHand(r)'
    BY <1>3 DEF InHand, Idle
  <1>6. \A q \in Relay, e \in Event : Holds(q, e)' => Holds(q, e) /\ q # r
    BY <1>3 DEF Holds, Idle
  <1> QED BY <1>3, <1>4, <1>5, <1>6

LEMMA ReclaimStep ==
    ASSUME RelayInv, NEW r \in Relay, ReclaimStale(r)
    PROVE  RelayInv' /\ log' = log
  <1> USE DEF ReclaimStale
  <1>1. row \in [Event -> Row] /\ relay \in [Relay -> RelayState] /\ faults \in 0 .. MaxFaults
    BY RelayTypes DEF RelayInv, RelayTypeOK
  <1>2. relay' = [relay EXCEPT ![r] = [Idle EXCEPT !.step = "scan"]]
    BY <1>1
  <1>3. /\ relay' \in [Relay -> RelayState]
        /\ \A q \in Relay : InHand(q)'
        /\ \A q \in Relay, e \in Event : Holds(q, e)' => Holds(q, e) /\ q # r
    BY <1>2, DropsInHand
  <1>4. row' \in [Event -> Row]
    BY <1>1 DEF Row
  <1>5. \A e \in Event : /\ ~ row[e].expired => row'[e] = row[e]
                         /\ row[e].expired => /\ row'[e].status = "PENDING"
                                              /\ ~ row'[e].expired
                                              /\ row'[e].retry = row[e].retry
    BY <1>1 DEF Row
  <1>6. RelayTypeOK'
    BY <1>1, <1>3, <1>4 DEF RelayInv, RelayTypeOK, RelayState
  <1>7. \A e \in Event : RowStands(e)'
    BY <1>5 DEF RelayInv, RowStands
  <1>8. PublishedIsInLog'
    BY <1>5 DEF RelayInv, PublishedIsInLog, InLog
  <1>9. HolderIsNamed'
    BY <1>3, <1>5 DEF RelayInv, HolderIsNamed
  <1> QED BY <1>3, <1>6, <1>7, <1>8, <1>9 DEF RelayInv

LEMMA CrashStep ==
    ASSUME RelayInv, NEW r \in Relay, Crash(r)
    PROVE  RelayInv' /\ log' = log
  <1> USE DEF Crash
  <1>1. relay' = [relay EXCEPT ![r] = [Idle EXCEPT !.step = "idle"]]
    BY DEF Idle
  <1>2. faults' \in 0 .. MaxFaults /\ faults' # 0
    <2>1. faults \in Nat /\ MaxFaults \in Nat /\ faults < MaxFaults /\ faults' = faults + 1
      BY RelayTypes DEF RelayInv
    <2> QED BY <2>1
  <1>3. relay' \in [Relay -> RelayState] /\ \A q \in Relay : InHand(q)'
    BY <1>1, DropsInHand
  <1>4. RelayTypeOK'
    BY <1>2, <1>3 DEF RelayInv, RelayTypeOK, RelayState
  <1>5. PublishedIsInLog' /\ \A e \in Event : RowStands(e)'
    BY DEF RelayInv, PublishedIsInLog, InLog, RowStands
  <1>6. HolderIsNamed'
    BY <1>2 DEF HolderIsNamed
  <1> QED BY <1>3, <1>4, <1>5, <1>6 DEF RelayInv

LEMMA MarkPublishedStep ==
    ASSUME RelayInv, NEW r \in Relay, MarkPublishedBatch(r)
    PROVE  RelayInv' /\ log' = log
  <1> USE DEF MarkPublishedBatch
  <1>1. /\ row \in [Event -> Row] /\ relay \in [Relay -> RelayState]
        /\ faults \in Nat /\ faults <= MaxFaults /\ MaxFaults \in Nat /\ MaxRetry \in Nat
    BY RelayTypes DEF RelayInv
  <1>2. relay' = [relay EXCEPT ![r] = [Idle EXCEPT !.step = "idle"]]
    BY DEF Idle
  <1>3. /\ relay' \in [Relay -> RelayState]
        /\ \A q \in Relay : InHand(q)'
        /\ \A q \in Relay, e \in Event : Holds(q, e)' => Holds(q, e) /\ q # r
    BY <1>2, DropsInHand
  <1>4. faults' \in 0 .. MaxFaults /\ (faults' = 0 => faults = 0)
    BY FaultsCounted DEF RelayInv
  <1>5. row' \in [Event -> Row]
    <2>1. \A e \in Event : [NoRow EXCEPT !.status = "PUBLISHED", !.retry = row[e].retry] \in Row
      <3>1. \A e \in Event : row[e].retry \in 0 .. MaxRetry + 1
        BY <1>1 DEF Row
      <3> QED BY <1>1, <3>1, RowOf
    <2> QED BY <1>1, <2>1 DEF UpdateFails
  <1>6. \A e \in Event :
          \/ row'[e] = row[e]
          \/ /\ e \in relay[r].ok /\ row[e].status = "PUBLISHING" /\ row[e].by = r
             /\ row'[e].status = "PUBLISHED" /\ ~ row'[e].expired
             /\ row'[e].retry = row[e].retry
    <2> DEFINE Marked(e) == [NoRow EXCEPT !.status = "PUBLISHED", !.retry = row[e].retry]
    <2>1. \A e \in Event : /\ Marked(e).status = "PUBLISHED" /\ Marked(e).retry = row[e].retry
                           /\ ~ Marked(e).expired
      BY DEF NoRow
    <2> QED BY <2>1 DEF UpdateFails
  <1>7. RelayTypeOK'
    BY <1>3, <1>4, <1>5 DEF RelayInv, RelayTypeOK, RelayState
  <1>8. \A e \in Event : RowStands(e)'
    BY <1>6 DEF RelayInv, RowStands
  <1>9. PublishedIsInLog'
    <2>1. \A e \in relay[r].ok : InLog(e)
      BY DEF RelayInv, InHand
    <2> QED BY <1>6, <2>1 DEF RelayInv, PublishedIsInLog, InLog
  <1>10. HolderIsNamed'
    <2>1. ASSUME faults' = 0, NEW q \in Relay, NEW e \in Event, Holds(q, e)'
          PROVE  row'[e].status = "PUBLISHING" /\ row'[e].by = q /\ ~ row'[e].expired
      <3>1. row[e].status = "PUBLISHING" /\ row[e].by = q /\ q # r /\ ~ row[e].expired
        BY <1>3, <1>4, <2>1 DEF RelayInv, HolderIsNamed
      <3>2. row'[e] = row[e]
        BY <1>6, <3>1
      <3> QED BY <3>1, <3>2
    <2> QED BY <2>1 DEF HolderIsNamed
  <1> QED BY <1>3, <1>7, <1>8, <1>9, <1>10 DEF RelayInv

LEMMA ClaimStep ==
    ASSUME RelayInv, NEW r \in Relay, ClaimBatch(r)
    PROVE  RelayInv' /\ log' = log
  <1>1. /\ row \in [Event -> Row] /\ relay \in [Relay -> RelayState]
        /\ log' = log /\ faults' = faults /\ MaxRetry \in Nat
    BY RelayTypes DEF RelayInv, ClaimBatch
  <1> DEFINE due == {e \in Event : row[e].status = "PENDING" /\ ~ row[e].backoff}
             work(B) == [Idle EXCEPT !.step = "publish", !.batch = {Claimed(e) : e \in B}]
  <1>2. PICK B \in SUBSET due :
          /\ relay' = [relay EXCEPT ![r] = IF B = {} THEN Idle ELSE work(B)]
          /\ row' = [e \in Event |->
                IF e \in B THEN [row[e] EXCEPT !.status = "PUBLISHING", !.by = r] ELSE row[e]]
    BY DEF ClaimBatch
  <1>3. \A e \in B : /\ e \in Event /\ row[e].status = "PENDING" /\ ~ row[e].expired
                     /\ row[e].retry \in 0 .. MaxRetry
    <2>1. ASSUME NEW e \in B
          PROVE  /\ e \in Event /\ row[e].status = "PENDING" /\ ~ row[e].expired
                 /\ row[e].retry \in 0 .. MaxRetry
      <3>1. e \in Event /\ row[e].status = "PENDING" /\ RowStands(e) /\ row[e] \in Row
        BY <1>1, <2>1 DEF RelayInv
      <3>2. row[e].retry \in 0 .. MaxRetry + 1 /\ row[e].retry <= MaxRetry
        BY <3>1 DEF RowStands, Row
      <3> QED BY <1>1, <3>1, <3>2 DEF RowStands
    <2> QED BY <2>1
  <1>4. work(B) \in RelayState
    <2>1. \A e \in B : Claimed(e) \in ClaimedRow
      BY <1>3 DEF Claimed, ClaimedRow
    <2> QED BY <2>1 DEF Idle, RelayState
  <1>5. /\ relay' \in [Relay -> RelayState]
        /\ relay'[r] = IF B = {} THEN Idle ELSE work(B)
        /\ \A q \in Relay \ {r} : relay'[q] = relay[q]
    <2>1. Idle \in RelayState
      BY DEF Idle, RelayState
    <2> QED BY <1>1, <1>2, <1>4, <2>1
  <1>6. /\ row' \in [Event -> Row]
        /\ \A e \in Event \ B : row'[e] = row[e]
        /\ \A e \in B : /\ row'[e].status = "PUBLISHING" /\ row'[e].by = r
                        /\ row'[e].retry = row[e].retry /\ ~ row'[e].expired
    BY <1>1, <1>2, <1>3 DEF Row
  <1>7. RelayTypeOK'
    BY <1>1, <1>5, <1>6 DEF RelayInv, RelayTypeOK, RelayState
  <1>8. \A q \in Relay : InHand(q)'
    <2>1. \A q \in Relay \ {r} : InHand(q)'
      BY <1>1, <1>5, OthersInHand DEF InLog
    <2>2. InHand(r)'
      <3>1. CASE B = {}
        BY <1>5, <3>1 DEF InHand, Idle
      <3>2. CASE B # {}
        <4>1. \A x, y \in {Claimed(e) : e \in B} : x.event = y.event => x = y
          BY DEF Claimed
        <4> QED BY <1>5, <3>2, <4>1 DEF InHand, Idle
      <3> QED BY <3>1, <3>2
    <2> QED BY <2>1, <2>2
  <1>9. \A e \in Event : RowStands(e)'
    BY <1>3, <1>6 DEF RelayInv, RowStands
  <1>10. PublishedIsInLog'
    BY <1>1, <1>6 DEF RelayInv, PublishedIsInLog, InLog
  <1>11. HolderIsNamed'
    <2>1. \A e \in Event : Holds(r, e)' => e \in B
      BY <1>5 DEF Holds, Idle, Claimed
    <2>2. \A q \in Relay \ {r}, e \in Event : Holds(q, e)' => Holds(q, e)
      BY <1>5 DEF Holds
    <2>3. ASSUME faults' = 0, NEW q \in Relay, NEW e \in Event, Holds(q, e)'
          PROVE  row'[e].status = "PUBLISHING" /\ row'[e].by = q /\ ~ row'[e].expired
      <3>1. CASE q = r
        BY <1>6, <2>1, <2>3, <3>1
      <3>2. CASE q # r
        <4>1. row[e].status = "PUBLISHING" /\ row[e].by = q /\ ~ row[e].expired
          BY <1>1, <2>2, <2>3, <3>2 DEF RelayInv, HolderIsNamed
        <4> QED BY <1>3, <1>6, <4>1
      <3> QED BY <3>1, <3>2
    <2> QED BY <2>3 DEF HolderIsNamed
  <1> QED BY <1>1, <1>7, <1>8, <1>9, <1>10, <1>11 DEF RelayInv

\* Publishing: what is acknowledged is in the topic, and the topic grows.
LEMMA PublishStep ==
    ASSUME RelayInv, NEW r \in Relay, PublishBatch(r)
    PROVE  /\ RelayInv' /\ Len(log') >= Len(log)
           /\ \A i \in 1 .. Len(log) : log'[i] = log[i]
  <1>1. /\ relay \in [Relay -> RelayState] /\ log \in Seq(Event)
        /\ row' = row /\ faults' = faults
    BY RelayTypes DEF RelayInv, PublishBatch
  <1> DEFINE batch == relay[r].batch
  <1>2. PICK outcome :
          LET Those(outs) == {x \in batch : outcome[KeyOf[x.event]] \in outs} IN
          /\ \E q \in InOrder(Events(Those({"ok", "unacked"}))) : log' = log \o q
          /\ relay' = [relay EXCEPT ![r] =
                 [step |-> "mark", batch |-> {}, failed |-> Those({"unacked", "failed"}),
                  ok |-> Events(Those({"ok"}))]]
    BY DEF PublishBatch
  <1> DEFINE Sent == {x \in batch : outcome[KeyOf[x.event]] \in {"ok", "unacked"}}
             Fail == {x \in batch : outcome[KeyOf[x.event]] \in {"unacked", "failed"}}
             Good == {x \in batch : outcome[KeyOf[x.event]] \in {"ok"}}
  <1>3. /\ \E q \in InOrder(Events(Sent)) : log' = log \o q
        /\ relay' = [relay EXCEPT ![r] =
               [step |-> "mark", batch |-> {}, failed |-> Fail, ok |-> Events(Good)]]
    BY <1>2
  <1>4. /\ batch \subseteq ClaimedRow /\ Good \subseteq Sent /\ Fail \subseteq batch
        /\ Sent \subseteq batch /\ Fail \cap Good = {} /\ Good \subseteq batch
    BY <1>1 DEF RelayState
  <1> HIDE DEF Sent, Fail, Good
  <1>5. Events(Sent) \in SUBSET Event /\ Events(Good) \subseteq Events(Sent)
    BY <1>4 DEF Events, ClaimedRow
  <1>6. /\ log' \in Seq(Event) /\ Len(log') >= Len(log)
        /\ \A i \in 1 .. Len(log) : log'[i] = log[i]
        /\ \A e \in Events(Sent) : InLog(e)'
    <2>1. PICK q \in InOrder(Events(Sent)) : log' = log \o q
      BY <1>3
    <2>2. Event \subseteq Nat /\ IsFiniteSet(Event)
      BY DeliveryAssumption
    <2> QED BY <1>1, <1>5, <2>1, <2>2, Appended
  <1>7. \A e : InLog(e) => InLog(e)'
    BY <1>1, <1>6 DEF InLog
  <1>8. /\ relay' \in [Relay -> RelayState]
        /\ relay'[r] = [step |-> "mark", batch |-> {}, failed |-> Fail, ok |-> Events(Good)]
        /\ \A q \in Relay \ {r} : relay'[q] = relay[q]
    <2>1. [step |-> "mark", batch |-> {}, failed |-> Fail, ok |-> Events(Good)] \in RelayState
      BY <1>4, <1>5 DEF RelayState
    <2> QED BY <1>1, <1>3, <2>1
  <1>9. RelayTypeOK'
    BY <1>1, <1>6, <1>8 DEF RelayInv, RelayTypeOK, RelayState
  <1>10. \A q \in Relay : InHand(q)'
    <2>1. \A q \in Relay \ {r} : InHand(q)'
      BY <1>7, <1>8, OthersInHand
    <2>2. \A x, y \in batch : x.event = y.event => x = y
      BY DEF RelayInv, InHand
    <2>3. \A x \in Fail : x.event \notin Events(Good)
      BY <1>4, <2>2 DEF Events
    <2>4. \A x, y \in Fail : x.event = y.event => x = y
      BY <1>4, <2>2
    <2>5. \A e \in Events(Good) : InLog(e)'
      BY <1>5, <1>6
    <2>6. InHand(r)'
      BY <1>8, <2>3, <2>4, <2>5 DEF InHand
    <2> QED BY <2>1, <2>6
  <1>11. \A e \in Event : RowStands(e)'
    BY <1>1 DEF RelayInv, RowStands
  <1>12. PublishedIsInLog'
    BY <1>1, <1>7 DEF RelayInv, PublishedIsInLog
  <1>13. HolderIsNamed'
    <2>1. \A q \in Relay, e \in Event : Holds(q, e)' => Holds(q, e)
      BY <1>4, <1>8 DEF Holds, Events
    <2> QED BY <1>1, <2>1 DEF RelayInv, HolderIsNamed
  <1> QED BY <1>6, <1>9, <1>10, <1>11, <1>12, <1>13 DEF RelayInv

LEMMA RetryStep ==
    ASSUME RelayInv, NEW r \in Relay, MarkRetryOrDead(r)
    PROVE  RelayInv' /\ log' = log
  <1>1. /\ row \in [Event -> Row] /\ relay \in [Relay -> RelayState] /\ MaxRetry \in Nat
    BY RelayTypes DEF RelayInv
  <1>2. PICK x \in relay[r].failed :
          /\ \/ row' = [row EXCEPT ![x.event] = Retried(x)] /\ UNCHANGED faults
             \/ UpdateFails
          /\ relay' = [relay EXCEPT ![r].failed = @ \ {x}]
          /\ log' = log
    BY DEF MarkRetryOrDead
  <1>3. x \in ClaimedRow /\ x.event \in Event /\ x.retry \in 0 .. MaxRetry
    BY <1>1 DEF RelayState, ClaimedRow
  <1>4. faults' \in 0 .. MaxFaults /\ (faults' = 0 => faults = 0)
    BY <1>2, FaultsCounted DEF RelayInv
  <1>5. /\ relay' \in [Relay -> RelayState]
        /\ \A q \in Relay \ {r} : relay'[q] = relay[q]
        /\ relay'[r].step = relay[r].step /\ relay'[r].batch = relay[r].batch
        /\ relay'[r].ok = relay[r].ok /\ relay'[r].failed = relay[r].failed \ {x}
    BY <1>1, <1>2 DEF RelayState
  <1>6. /\ Retried(x) \in Row /\ Retried(x).status \in {"DEAD", "PENDING"}
        /\ ~ Retried(x).expired
        /\ Retried(x).status # "DEAD" => Retried(x).retry <= MaxRetry
    <2>1. x.retry + 1 \in 0 .. MaxRetry + 1
      BY <1>1, <1>3
    <2>2. CASE x.retry + 1 > MaxRetry
      BY <1>1, <2>1, <2>2, RowOf DEF Retried, NoRow
    <2>3. CASE ~ x.retry + 1 > MaxRetry
      <3>1. Retried(x) = [Pending EXCEPT !.backoff = TRUE, !.retry = x.retry + 1]
        BY <2>3 DEF Retried
      <3>2. Retried(x) \in Row
        BY <1>1, <2>1, <3>1, RowOf
      <3>3. x.retry + 1 <= MaxRetry
        BY <1>1, <2>1, <2>3
      <3> QED BY <3>1, <3>2, <3>3 DEF Pending, NoRow
    <2> QED BY <2>2, <2>3
  <1>7. /\ row' \in [Event -> Row]
        /\ \A e \in Event \ {x.event} : row'[e] = row[e]
        /\ row'[x.event] = Retried(x) \/ row'[x.event] = row[x.event]
    BY <1>1, <1>2, <1>3, <1>6 DEF UpdateFails
  <1>8. RelayTypeOK'
    BY <1>2, <1>4, <1>5, <1>7 DEF RelayInv, RelayTypeOK, RelayState
  <1>9. \A q \in Relay : InHand(q)'
    <2>1. \A q \in Relay \ {r} : InHand(q)'
      BY <1>2, <1>5, OthersInHand DEF InLog
    <2>2. InHand(r) /\ relay[r].step = "mark"
      BY <1>1, <1>2 DEF RelayInv, InHand, Idle, RelayState
    <2>3. InHand(r)'
      BY <1>2, <1>5, <2>2 DEF InHand, InLog
    <2> QED BY <2>1, <2>3
  <1>10. \A e \in Event : RowStands(e)'
    BY <1>6, <1>7 DEF RelayInv, RowStands
  <1>11. PublishedIsInLog'
    BY <1>2, <1>6, <1>7 DEF RelayInv, PublishedIsInLog, InLog
  <1>12. HolderIsNamed'
    <2>1. InHand(r) /\ relay[r].batch = {}
      BY <1>1, <1>2 DEF RelayInv, InHand, Idle, RelayState
    <2>2. ~ Holds(r, x.event)'
      BY <1>5, <2>1 DEF Holds, InHand
    <2>3. \A q \in Relay, e \in Event : Holds(q, e)' => Holds(q, e)
      BY <1>5 DEF Holds
    <2>4. Holds(r, x.event)
      BY <1>2 DEF Holds
    <2>5. ASSUME faults' = 0, NEW q \in Relay, NEW e \in Event, Holds(q, e)'
          PROVE  row'[e].status = "PUBLISHING" /\ row'[e].by = q /\ ~ row'[e].expired
      <3>1. row[e].status = "PUBLISHING" /\ row[e].by = q /\ ~ row[e].expired
        BY <1>4, <2>3, <2>5 DEF RelayInv, HolderIsNamed
      <3>2. row[x.event].by = r
        BY <1>3, <1>4, <2>4, <2>5 DEF RelayInv, HolderIsNamed
      <3>3. e # x.event
        BY <2>2, <2>5, <3>1, <3>2
      <3> QED BY <1>7, <3>1, <3>3
    <2> QED BY <2>5 DEF HolderIsNamed
  <1> QED BY <1>2, <1>8, <1>9, <1>10, <1>11, <1>12 DEF RelayInv

\* Every relay step, and the topic only grows.
LEMMA RelaysKeepInv ==
    ASSUME RelayInv, RelayNext
    PROVE  /\ RelayInv' /\ Len(log') >= Len(log)
           /\ \A i \in 1 .. Len(log) : log'[i] = log[i]
  <1>1. Len(log) \in Nat
    BY RelayTypes DEF RelayInv
  <1>2. ASSUME NEW e \in Event, Insert(e) \/ BackoffEnds(e) \/ LeaseExpires(e)
        PROVE  RelayInv' /\ log' = log
    BY <1>2, RowStep
  <1>3. ASSUME NEW r \in Relay, Crash(r) \/ Scan(r)
        PROVE  RelayInv' /\ (log' = log \/ PublishBatch(r))
    BY <1>3, CrashStep, ReclaimStep, ClaimStep, PublishStep, RetryStep, MarkPublishedStep
    DEF Scan
  <1> QED BY <1>1, <1>2, <1>3, PublishStep DEF RelayNext

-----------------------------------------------------------------------------
(* The theorems.                                                           *)

LEMMA InitIInv == Init => IInv
  <1> SUFFICES ASSUME Init PROVE IInv
    OBVIOUS
  <1> USE DEF Init, RelayInit, C!MemberInit
  <1>1. /\ MaxRetry \in Nat /\ MaxFaults \in Nat /\ MaxMoves \in Nat
    BY DeliveryAssumption
  <1>2. RelayInv
    <2>1. NoRow \in Row
      BY <1>1 DEF NoRow, Row
    <2>2. RelayTypeOK
      BY <1>1, <2>1 DEF RelayTypeOK, Idle
    <2>3. \A r \in Relay : InHand(r)
      BY DEF InHand, Idle
    <2>4. \A r \in Relay, e \in Event : ~ Holds(r, e)
      BY DEF Holds, Idle
    <2>5. (\A e \in Event : RowStands(e)) /\ PublishedIsInLog
      BY <1>1 DEF RowStands, PublishedIsInLog, NoRow
    <2> QED BY <2>2, <2>3, <2>4, <2>5 DEF RelayInv, HolderIsNamed
  <1>3. MemberInv
    <2>1. C!Ready(1) \in MemberState
      BY DeliveryAssumption DEF C!Ready, C!NoMessage, MemberState
    <2>2. C!MemberTypeOK
      BY <1>1, <2>1 DEF C!MemberTypeOK, MemberState
    <2>3. \A m \in Member : InTurn(m)
      BY DEF InTurn, C!Ready
    <2> QED BY <2>2, <2>3 DEF MemberInv, C!CommittedIsSettled, OnLedger
  <1> QED BY <1>2, <1>3 DEF IInv

LEMMA StepIInv == IInv /\ [Next]_vars => IInv'
  <1> SUFFICES ASSUME IInv, [Next]_vars PROVE IInv'
    OBVIOUS
  <1>1. RelayInv /\ MemberInv /\ log \in Seq(Event)
    BY RelayTypes DEF IInv, RelayInv
  <1>2. CASE RelayNext /\ UNCHANGED groupVars
    <2>1. /\ RelayInv' /\ Len(log') >= Len(log)
          /\ \A i \in 1 .. Len(log) : log'[i] = log[i]
      BY <1>1, <1>2, RelaysKeepInv
    <2>2. log' \in Seq(Event)
      BY <2>1 DEF RelayInv, RelayTypeOK
    <2> QED BY <1>1, <1>2, <2>1, <2>2, GroupWaits DEF IInv
  <1>3. ASSUME UNCHANGED <<rowVars, log>>
        PROVE  RelayInv'
    BY <1>1, <1>3 DEF rowVars, RelayInv, RelayTypeOK, InHand, RowStands, PublishedIsInLog,
       HolderIsNamed, Holds, InLog
  <1>4. CASE C!MemberNext /\ UNCHANGED rowVars
    BY <1>1, <1>3, <1>4, MembersKeepInv DEF IInv
  <1>5. CASE UNCHANGED vars
    <2>1. UNCHANGED <<rowVars, log>> /\ UNCHANGED groupVars
      BY <1>5 DEF vars
    <2>2. Len(log) \in Nat
      BY <1>1
    <2> QED BY <1>1, <1>3, <2>1, <2>2, GroupWaits DEF IInv
  <1> QED BY <1>2, <1>4, <1>5 DEF Next

\* The delivery's invariant (ScanAndPublish of the relay, Run of the consumer).
THEOREM Invariance == Spec => []IInv
  BY InitIInv, StepIInv, PTL DEF Spec

\* However many relays crash, stall and overtake one another, a row is marked
\* PUBLISHED only for an event of the topic; SKIP LOCKED claims are exclusive
\* as long as nothing goes wrong (claimBatch, markPublishedBatch).
THEOREM RelaysStayInStep == Spec => []RelaysInStep
  <1>1. IInv => RelaysInStep
    BY DEF IInv, RelayInv, MemberInv, RelaysInStep, TypeOK, HolderIsNamed, ClaimsExclusive
  <1> QED BY <1>1, Invariance, PTL

\* Whatever fails, restarts or is reassigned, the group's offset passes a message
\* only when it is consumed or parked (Run, recordFailure).
THEOREM NothingSkipped == Spec => []CommittedIsSettled
  <1>1. IInv => CommittedIsSettled
    BY DEF IInv, MemberInv, CommittedIsSettled
  <1> QED BY <1>1, Invariance, PTL

\* However often an event is published, fetched and handled, its crop is credited
\* once, and it is recorded as consumed only after (creditCrossShardSteal).
THEOREM CreditsOnce == Spec => []CreditedOnce
  <1>1. IInv => CreditedOnce
    BY DEF IInv, MemberInv, OnLedger, C!MemberTypeOK, CreditedOnce, C!CreditedOnce
  <1> QED BY <1>1, Invariance, PTL
=============================================================================
