------------------------- MODULE ActorRuntimeProofs -------------------------
(***************************************************************************)
(* ActorRuntime's safety properties, for every number of farms, tasks,     *)
(* shards and workers, and every capacity.                                 *)
(***************************************************************************)
EXTENDS ActorRuntime, FiniteSetTheorems, SequenceTheorems, TLAPS

-----------------------------------------------------------------------------
(* The inductive invariant.                                                *)

\* Sequence s of work items has one of farm f.
Has(s, f) == \E i \in ToSet(s) : FarmOf[i.task] = f

\* No two of them agree on the farm, or the shard, K gives.
OnePer(K, s) == \A k, l \in DOMAIN s : K[s[k].task] = K[s[l].task] => k = l
HomeOf == [t \in Task |-> Home(t)]

AtWorker(f) == \E w \in Worker : Serves(w, f)
Dispatched(f) == Has(ready, f) \/ AtWorker(f) \/ Has(completed[ShardOf[f]], f)

\* A farm has one place in each line, a shard one blocked handoff, completions
\* come back to their shard, and a farm queues its own tasks.
Lines ==
    /\ OnePer(FarmOf, ready)
    /\ OnePer(HomeOf, parked)
    /\ \A sh \in Shard : /\ OnePer(FarmOf, completed[sh])
                         /\ \A i \in ToSet(completed[sh]) : Home(i.task) = sh
    /\ \A f \in Farm : \A v, w \in Worker : Serves(v, f) /\ Serves(w, f) => v = w
    /\ \A w \in Worker : worker[w].step \in {"run", "done"} => worker[w].task \in Task
    /\ \A f \in Farm : \A t \in ToSet(actors[f].queue) : FarmOf[t] = f

\* A farm has one place in all lines, and the running flag covers them.
Apart ==
    \A f \in Farm :
        /\ Has(ready, f) => ~ AtWorker(f) /\ ~ Has(completed[ShardOf[f]], f)
        /\ AtWorker(f) => ~ Has(completed[ShardOf[f]], f)
        /\ Dispatched(f) => actors[f].running
        /\ Has(parked, f) => ~ actors[f].running

\* Until the runtime stops, a running farm is somewhere, and a farm that is
\* nowhere has nothing to do.
Marked ==
    ~ stopped => \A f \in Farm :
        /\ actors[f].running => Dispatched(f)
        /\ ~ actors[f].running /\ ~ Has(parked, f) => actors[f].queue = <<>>

\* Every item belongs to the actor its farm has.
Alive ==
    /\ \A f \in Farm : actors[f] = NoActor \/ actors[f].life >= 1
    /\ \A i \in ToSet(ready) \cup ToSet(parked) \cup UNION {ToSet(completed[sh]) : sh \in Shard} :
           i.life >= 1 /\ i.life = actors[FarmOf[i.task]].life
    /\ \A w \in Worker : worker[w].step \in {"run", "done"} =>
           /\ worker[w].life >= 1
           /\ worker[w].life = actors[FarmOf[worker[w].task]].life

\* Every snapshot on its way is the one the farm's last execution left, or none.
Current ==
    /\ \A i \in ToSet(ready) \cup ToSet(parked) : i.snapshot \in {Cold, left[FarmOf[i.task]]}
    /\ \A w \in Worker :
        /\ worker[w].step = "run" =>
               worker[w].snapshot \in {Cold, left[FarmOf[worker[w].task]]}
        /\ worker[w].step = "done" => worker[w].snapshot = left[FarmOf[worker[w].task]]
    /\ \A sh \in Shard : \A i \in ToSet(completed[sh]) : i.snapshot = left[FarmOf[i.task]]
    /\ \A f \in Farm : ~ actors[f].running => actors[f].snapshot \in {Cold, left[f]}

\* What farm f's actor took on has started, waits for a worker, or is queued.
InOrder(f) == \E s \in Waiting(f) : accepted[f] = ran[f] \o s \o actors[f].queue
Ordered == ~ stopped => \A f \in Farm : InOrder(f)

\* All about the tasks on their way.
Placed == Lines /\ Apart /\ Marked /\ Alive /\ Current /\ Ordered

\* A task is asked for once: one in an inbox is neither taken on nor turned away.
Pending(t) ==
    t \in submitted /\ result[t] # "busy" /\ t \notin ToSet(accepted[FarmOf[t]])
Asked ==
    /\ \A sh \in Shard : \A k \in DOMAIN inbox[sh] :
           Home(inbox[sh][k]) = sh /\ Pending(inbox[sh][k])
    /\ \A sh \in Shard : \A k, l \in DOMAIN inbox[sh] : inbox[sh][k] = inbox[sh][l] => k = l
    /\ \A f \in Farm : \A t \in ToSet(accepted[f]) :
           FarmOf[t] = f /\ t \in submitted /\ result[t] # "busy"
    /\ \A t \in Task : result[t] = "busy" => t \in submitted

\* The actors of schedulers that run are the ones counted.
Live == {f \in Farm : actors[f] # NoActor /\ ShardOf[f] \notin exited}
Counted ==
    /\ IsFiniteSet(Live) /\ activeActors = Cardinality(Live)
    /\ activeActors <= MaxActiveActors

IInv == TypeOK /\ Placed /\ Asked /\ Counted

-----------------------------------------------------------------------------
(* Lines of items: what a send and a receive do to them.                   *)

\* A send adds one item.
LEMMA SetOfAppend ==
    ASSUME NEW S, NEW q \in Seq(S), NEW x \in S
    PROVE  ToSet(Append(q, x)) \subseteq ToSet(q) \cup {x}
  <1>1. Len(q) \in Nat /\ DOMAIN q = 1..Len(q)
    BY LenProperties
  <1>2. DOMAIN Append(q, x) = 1..Len(q) + 1
    BY <1>1
  <1>3. \A i \in 1..Len(q) : Append(q, x)[i] = q[i]
    BY <1>1
  <1>4. Append(q, x)[Len(q) + 1] = x
    BY <1>1
  <1>5. \A i \in 1..Len(q) + 1 : i \in 1..Len(q) \/ i = Len(q) + 1
    BY <1>1
  <1> QED BY <1>1, <1>2, <1>3, <1>4, <1>5 DEF ToSet


LEMMA Sent ==
    ASSUME NEW s \in Seq(Item), NEW i \in Item, NEW K
    PROVE  /\ Append(s, i) \in Seq(Item) /\ Len(Append(s, i)) = Len(s) + 1
           /\ ToSet(Append(s, i)) = ToSet(s) \cup {i}
           /\ \A f : Has(Append(s, i), f) <=> Has(s, f) \/ f = FarmOf[i.task]
           /\ OnePer(K, s) /\ (\A j \in ToSet(s) : K[j.task] # K[i.task])
                => OnePer(K, Append(s, i))
  <1> DEFINE r == Append(s, i)
  <1>1. /\ r \in Seq(Item) /\ Len(r) = Len(s) + 1 /\ Len(s) \in Nat
        /\ DOMAIN s = 1 .. Len(s) /\ DOMAIN r = 1 .. Len(s) + 1
        /\ \A k \in 1 .. Len(s) : r[k] = s[k]
        /\ r[Len(s) + 1] = i
    OBVIOUS
  <1> HIDE DEF r
  <1>2. ToSet(r) = ToSet(s) \cup {i}
    <2>1. \A j \in ToSet(r) : j \in ToSet(s) \cup {i}
      BY <1>1 DEF ToSet
    <2>2. \A j \in ToSet(s) : j \in ToSet(r)
      BY <1>1 DEF ToSet
    <2>3. i \in ToSet(r)
      BY <1>1 DEF ToSet
    <2> QED BY <2>1, <2>2, <2>3
  <1>3. \A f : Has(r, f) <=> Has(s, f) \/ f = FarmOf[i.task]
    BY <1>2 DEF Has
  <1>4. ASSUME OnePer(K, s), \A j \in ToSet(s) : K[j.task] # K[i.task]
        PROVE  OnePer(K, r)
    <2>1. \A k \in 1 .. Len(s) : K[r[k].task] # K[i.task]
      BY <1>1, <1>4 DEF ToSet
    <2>2. \A k, l \in 1 .. Len(s) : K[r[k].task] = K[r[l].task] => k = l
      BY <1>1, <1>4 DEF OnePer
    <2>3. \A k \in DOMAIN r : k \in 1 .. Len(s) \/ (k = Len(s) + 1 /\ r[k] = i)
      BY <1>1
    <2> QED BY <2>1, <2>2, <2>3 DEF OnePer
  <1> QED BY <1>1, <1>2, <1>3, <1>4 DEF r

LEMMA Received ==
    ASSUME NEW s \in Seq(Item), s # <<>>, NEW K, OnePer(K, s)
    PROVE  /\ Head(s) \in Item /\ Tail(s) \in Seq(Item) /\ Len(Tail(s)) = Len(s) - 1
           /\ ToSet(s) = ToSet(Tail(s)) \cup {Head(s)}
           /\ \A j \in ToSet(Tail(s)) : K[j.task] # K[Head(s).task]
           /\ OnePer(K, Tail(s))
  <1> DEFINE h == Head(s)
             r == Tail(s)
  <1>1. /\ Len(s) \in Nat \ {0} /\ DOMAIN s = 1 .. Len(s) /\ s \in [1 .. Len(s) -> Item]
        /\ h = s[1] /\ r \in Seq(Item) /\ Len(r) = Len(s) - 1
    OBVIOUS
  <1>2. DOMAIN r = 1 .. Len(s) - 1 /\ \A k \in 1 .. Len(s) - 1 : r[k] = s[k + 1]
    BY <1>1
  <1> HIDE DEF r, h
  <1>3. \A k \in DOMAIN s : k = 1 \/ (k - 1 \in DOMAIN r /\ s[k] = r[k - 1])
    BY <1>1, <1>2
  <1>4. \A k \in DOMAIN r : k + 1 \in DOMAIN s /\ k + 1 # 1 /\ r[k] = s[k + 1]
    BY <1>1, <1>2
  <1>5. h \in Item /\ 1 \in DOMAIN s
    BY <1>1
  <1>6. ToSet(s) = ToSet(r) \cup {h}
    <2>1. \A j \in ToSet(s) : j \in ToSet(r) \cup {h}
      BY <1>1, <1>3 DEF ToSet
    <2>2. \A j \in ToSet(r) : j \in ToSet(s)
      BY <1>4 DEF ToSet
    <2>3. h \in ToSet(s)
      BY <1>1, <1>5 DEF ToSet
    <2> QED BY <2>1, <2>2, <2>3
  <1>7. \A j \in ToSet(r) : K[j.task] # K[h.task]
    BY <1>1, <1>4, <1>5 DEF OnePer, ToSet
  <1>8. OnePer(K, r)
    <2>1. \A k, l \in DOMAIN r : K[r[k].task] = K[r[l].task] => k + 1 = l + 1
      BY <1>4 DEF OnePer
    <2>2. \A k, l \in DOMAIN r : k + 1 = l + 1 => k = l
      BY <1>1, <1>2
    <2> QED BY <2>1, <2>2 DEF OnePer
  <1> QED BY <1>1, <1>5, <1>6, <1>7, <1>8 DEF r, h

LEMMA Removed ==
    ASSUME NEW s \in Seq(Item), NEW k \in DOMAIN s, NEW K, OnePer(K, s)
    PROVE  /\ RemoveAt(s, k) \in Seq(Item)
           /\ ToSet(RemoveAt(s, k)) \subseteq ToSet(s)
           /\ OnePer(K, RemoveAt(s, k))
  <1> DEFINE a == SubSeq(s, 1, k - 1)
             b == SubSeq(s, k + 1, Len(s))
             r == RemoveAt(s, k)
  <1>1. Len(s) \in Nat /\ DOMAIN s = 1 .. Len(s) /\ k \in 1 .. Len(s)
        /\ s \in [1 .. Len(s) -> Item]
    OBVIOUS
  <1>2. /\ a \in Seq(Item) /\ Len(a) = k - 1
        /\ \A i \in 1 .. k - 1 : a[i] = s[i]
    BY <1>1, SubSeqProperties
  <1>3. /\ b \in Seq(Item) /\ Len(b) = Len(s) - k
        /\ \A i \in 1 .. Len(s) - k : b[i] = s[k + i]
    <2>1. k + 1 \in Int /\ Len(s) \in Int /\ \A i \in k + 1 .. Len(s) : s[i] \in Item
      BY <1>1
    <2>2. /\ b \in Seq(Item)
          /\ Len(b) = IF k + 1 <= Len(s) THEN Len(s) - (k + 1) + 1 ELSE 0
          /\ \A i \in 1 .. Len(s) - (k + 1) + 1 : b[i] = s[(k + 1) + i - 1]
      BY <2>1, SubSeqProperties
    <2>3. \A i \in 1 .. Len(s) - k : (k + 1) + i - 1 = k + i /\ i \in 1 .. Len(s) - (k + 1) + 1
      BY <1>1
    <2>4. Len(b) = Len(s) - k
      BY <1>1, <2>2
    <2> QED BY <2>2, <2>3, <2>4
  <1> HIDE DEF a, b
  <1>4. /\ r \in Seq(Item) /\ Len(r) = Len(s) - 1
        /\ \A i \in 1 .. Len(s) - 1 : r[i] = IF i <= k - 1 THEN a[i] ELSE b[i - (k - 1)]
    <2>1. r = a \o b
      BY DEF RemoveAt, a, b
    <2>2. Len(a) + Len(b) = Len(s) - 1
      BY <1>1, <1>2, <1>3
    <2>3. /\ r \in Seq(Item) /\ Len(r) = Len(a) + Len(b)
          /\ \A i \in 1 .. Len(a) + Len(b) : r[i] = IF i <= Len(a) THEN a[i] ELSE b[i - Len(a)]
      BY <1>2, <1>3, <2>1, ConcatProperties
    <2> HIDE DEF r
    <2> QED BY <1>2, <2>2, <2>3
  <1> HIDE DEF r
  <1> DEFINE at(i) == IF i < k THEN i ELSE i + 1
  <1>5. DOMAIN r = 1 .. Len(s) - 1
    BY <1>1, <1>4
  <1>6. \A i \in DOMAIN r : at(i) \in DOMAIN s /\ r[i] = s[at(i)]
    <2> SUFFICES ASSUME NEW i \in 1 .. Len(s) - 1
                 PROVE  at(i) \in DOMAIN s /\ r[i] = s[at(i)]
      BY <1>5
    <2>1. CASE i < k
      <3>1. i \in 1 .. k - 1 /\ i <= k - 1 /\ i \in 1 .. Len(s)
        BY <1>1, <2>1
      <3> QED BY <1>1, <1>2, <1>4, <2>1, <3>1
    <2>2. CASE ~ i < k
      <3>1. /\ ~ i <= k - 1 /\ i - (k - 1) \in 1 .. Len(s) - k
            /\ k + (i - (k - 1)) = i + 1 /\ i + 1 \in 1 .. Len(s)
        BY <1>1, <2>2
      <3> QED BY <1>1, <1>3, <1>4, <2>2, <3>1
    <2> QED BY <2>1, <2>2
  <1>7. \A i, j \in DOMAIN r : at(i) = at(j) => i = j
    BY <1>1, <1>5
  <1> HIDE DEF at
  <1>8. ToSet(r) \subseteq ToSet(s) /\ OnePer(K, r)
    BY <1>6, <1>7 DEF ToSet, OnePer
  <1> QED BY <1>4, <1>8 DEF r

-----------------------------------------------------------------------------
(* What waits for a worker, and the order of a farm's tasks.               *)

\* The items that wait: ready ones, and those of blocked handoffs.
Waits(i) == i \in ToSet(ready) \cup ToSet(parked)

LEMMA NoneWaits ==
    ASSUME NEW f, \A i : Waits(i) => FarmOf[i.task] # f
    PROVE  Waiting(f) = {<<>>}
  BY DEF Waiting, Waits

LEMMA NoneWaitsNext ==
    ASSUME NEW f, \A i : Waits(i)' => FarmOf[i.task] # f
    PROVE  Waiting(f)' = {<<>>}
  <1>1. {j \in ToSet(ready') \cup ToSet(parked') : FarmOf[j.task] = f} = {}
    BY DEF Waits
  <1> QED BY <1>1 DEF Waiting

LEMMA OneWaits ==
    ASSUME NEW f, NEW i, Waits(i), FarmOf[i.task] = f,
           \A j : Waits(j) /\ FarmOf[j.task] = f => j = i
    PROVE  Waiting(f) = {<<i.task>>}
  <1>1. {x.task : x \in {j \in ToSet(ready) \cup ToSet(parked) : FarmOf[j.task] = f}} = {i.task}
    BY DEF Waits
  <1> QED BY <1>1 DEF Waiting

LEMMA OneWaitsNext ==
    ASSUME NEW f, NEW i, Waits(i)', FarmOf[i.task] = f,
           \A j : Waits(j)' /\ FarmOf[j.task] = f => j = i
    PROVE  Waiting(f)' = {<<i.task>>}
  <1>1. {x.task : x \in {j \in ToSet(ready') \cup ToSet(parked') : FarmOf[j.task] = f}} = {i.task}
    BY DEF Waits
  <1> QED BY <1>1 DEF Waiting

LEMMA SameWait ==
    ASSUME NEW f, \A i : FarmOf[i.task] = f => (Waits(i)' <=> Waits(i))
    PROVE  Waiting(f)' = Waiting(f)
  <1>1. {j \in ToSet(ready) \cup ToSet(parked) : FarmOf[j.task] = f}
          = {j \in ToSet(ready') \cup ToSet(parked') : FarmOf[j.task] = f}
    BY DEF Waits
  <1> QED BY <1>1 DEF Waiting

\* A task moves from the queue to the line, and from the line to a worker.
LEMMA TaskMoves ==
    ASSUME NEW r \in Seq(Task), NEW q \in Seq(Task), NEW t \in Task
    PROVE  /\ (r \o <<t>>) \o q = (Append(r, t) \o <<>>) \o q
           /\ q # <<>> => (r \o <<>>) \o q = (r \o <<Head(q)>>) \o Tail(q)
           /\ Append((r \o <<>>) \o <<>>, t) = (r \o <<t>>) \o <<>>
  <1>1. <<t>> \in Seq(Task) /\ <<>> \in Seq(Task) /\ r \o <<>> = r
    BY ConcatEmptySeq
  <1>2. (r \o <<t>>) \o q = (Append(r, t) \o <<>>) \o q
    <2>1. Append(r, t) = r \o <<t>> /\ Append(r, t) \in Seq(Task)
      BY AppendIsConcat, AppendProperties
    <2>2. Append(r, t) \o <<>> = Append(r, t)
      BY <2>1, ConcatEmptySeq
    <2> QED BY <2>1, <2>2
  <1>3. ASSUME q # <<>>
        PROVE  (r \o <<>>) \o q = (r \o <<Head(q)>>) \o Tail(q)
    <2>1. Head(q) \in Task /\ Tail(q) \in Seq(Task) /\ <<Head(q)>> \in Seq(Task)
      BY <1>3, HeadTailProperties
    <2>2. <<Head(q)>> \o Tail(q) = q
      BY <1>3, <2>1
    <2>3. (r \o <<Head(q)>>) \o Tail(q) = r \o (<<Head(q)>> \o Tail(q))
      BY <2>1, ConcatAssociative
    <2> QED BY <1>1, <2>2, <2>3
  <1>4. Append((r \o <<>>) \o <<>>, t) = (r \o <<t>>) \o <<>>
    <2>1. (r \o <<>>) \o <<>> = r /\ Append(r, t) = r \o <<t>>
      BY <1>1, AppendIsConcat
    <2>2. r \o <<t>> \in Seq(Task)
      BY <1>1, ConcatProperties
    <2>3. (r \o <<t>>) \o <<>> = r \o <<t>>
      BY <2>2, ConcatEmptySeq
    <2> QED BY <2>1, <2>3
  <1> QED BY <1>2, <1>3, <1>4

LEMMA TaskQueues ==
    ASSUME NEW r \in Seq(Task), NEW s \in Seq(Task), NEW q \in Seq(Task), NEW t \in Task
    PROVE  Append((r \o s) \o q, t) = (r \o s) \o Append(q, t)
  <1>1. <<t>> \in Seq(Task) /\ r \o s \in Seq(Task) /\ (r \o s) \o q \in Seq(Task)
    BY ConcatProperties
  <1>2. Append((r \o s) \o q, t) = ((r \o s) \o q) \o <<t>> /\ Append(q, t) = q \o <<t>>
    BY <1>1, AppendIsConcat
  <1>3. ((r \o s) \o q) \o <<t>> = (r \o s) \o (q \o <<t>>)
    BY <1>1, ConcatAssociative
  <1> QED BY <1>2, <1>3

-----------------------------------------------------------------------------
(* What a step that leaves some of the state alone keeps.                  *)

LEMMA PlacedStands ==
    ASSUME Placed, UNCHANGED <<actors, ready, parked, worker, completed, accepted, ran, left>>,
           ~ stopped' => ~ stopped
    PROVE  Placed'
  <1> USE DEF Placed
  <1>1. Lines'
    BY DEF Lines, OnePer, Serves, Home, HomeOf, ToSet
  <1>2. \A f : /\ Has(ready, f)' <=> Has(ready, f)
               /\ AtWorker(f)' <=> AtWorker(f)
               /\ Has(completed[ShardOf[f]], f)' <=> Has(completed[ShardOf[f]], f)
               /\ Has(parked, f)' <=> Has(parked, f)
    BY DEF Has, AtWorker, Serves
  <1>3. \A f : Dispatched(f)' <=> Dispatched(f)
    BY <1>2 DEF Dispatched
  <1>4. Apart' /\ Marked'
    BY <1>2, <1>3 DEF Apart, Marked
  <1>5. Alive' /\ Current'
    BY DEF Alive, Current
  <1>6. Ordered'
    <2>1. \A f : Waiting(f)' = Waiting(f)
      BY SameWait DEF Waits
    <2> QED BY <2>1 DEF Ordered, InOrder
  <1> QED BY <1>1, <1>4, <1>5, <1>6

LEMMA AskedStands ==
    ASSUME Asked, UNCHANGED <<inbox, submitted, accepted>>,
           TypeOK, TypeOK', \A t \in Task : result'[t] = "busy" => result[t] = "busy"
    PROVE  Asked'
  <1>1. /\ \A sh \in Shard : \A k \in DOMAIN inbox[sh] : inbox[sh][k] \in Task
        /\ \A f \in Farm : \A t \in ToSet(accepted[f]) : t \in Task
    BY DEF TypeOK, ToSet
  <1>2. \A t \in Task : Pending(t) => Pending(t)'
    BY DEF Pending
  <1> QED BY <1>1, <1>2 DEF Asked, Home

LEMMA CountedStands ==
    ASSUME Counted, UNCHANGED activeActors, Live' = Live
    PROVE  Counted'
  BY DEF Counted

\* An answer that is no rejection takes nothing back.
LEMMA Delivered ==
    ASSUME TypeOK, NEW t \in Task, NEW o \in {"done", "busy"}, result' = Deliver(t, o)
    PROVE  /\ result' \in [Task -> {"none", "done", "busy"}]
           /\ \A x \in Task : result'[x] = "busy" => result[x] = "busy" \/ (o = "busy" /\ x = t)
           /\ result[t] # "busy" /\ o = "done" => result'[t] # "busy"
  BY DEF TypeOK, Deliver

\* The types of the state, one by one.
LEMMA Types ==
    ASSUME TypeOK
    PROVE  /\ submitted \subseteq Task
           /\ inbox \in [Shard -> Seq(Task)] /\ actors \in [Farm -> ActorState]
           /\ activeActors \in Nat /\ created \in [Farm -> Nat]
           /\ ready \in Seq(Item) /\ parked \in Seq(Item)
           /\ completed \in [Shard -> Seq(Item)]
           /\ accepted \in [Farm -> Seq(Task)] /\ ran \in [Farm -> Seq(Task)]
           /\ left \in [Farm -> Version]
  BY DEF TypeOK

\* The items on their way, and what waits of a farm, have types too.
LEMMA Items ==
    ASSUME TypeOK
    PROVE  /\ \A i \in ToSet(ready) \cup ToSet(parked)
                     \cup UNION {ToSet(completed[sh]) : sh \in Shard} :
                  i \in Item /\ i.task \in Task /\ FarmOf[i.task] \in Farm
           /\ \A g : \A s \in Waiting(g) : s \in Seq(Task)
  <1>1. \A s \in Seq(Item) : \A i \in ToSet(s) : i \in Item
    <2>1. ASSUME NEW s \in Seq(Item), NEW k \in DOMAIN s PROVE s[k] \in Item
      OBVIOUS
    <2> QED BY <2>1 DEF ToSet
  <1>2. \A i \in ToSet(ready) \cup ToSet(parked)
             \cup UNION {ToSet(completed[sh]) : sh \in Shard} : i \in Item
    BY <1>1 DEF TypeOK
  <1>3. \A i \in Item : i.task \in Task /\ FarmOf[i.task] \in Farm
    BY RuntimeAssumption DEF Item
  <1>4. ASSUME NEW g, NEW s \in Waiting(g)
        PROVE  s \in Seq(Task)
    <2>1. s = <<>> \/ \E i \in ToSet(ready) \cup ToSet(parked) : s = <<i.task>>
      BY <1>4 DEF Waiting
    <2>2. \A x \in Task : <<x>> \in Seq(Task)
      OBVIOUS
    <2>3. <<>> \in Seq(Task)
      OBVIOUS
    <2> QED BY <1>2, <1>3, <2>1, <2>2, <2>3
  <1> QED BY <1>2, <1>3, <1>4

LEMMA Homes ==
    /\ \A t \in Task : FarmOf[t] \in Farm /\ Home(t) \in Shard /\ HomeOf[t] = Home(t)
    /\ \A f \in Farm : ShardOf[f] \in Shard
  BY RuntimeAssumption DEF Home, HomeOf

-----------------------------------------------------------------------------
(* Callers, and the stop.                                                  *)

LEMMA SubmitStep ==
    ASSUME IInv, NEW t \in Task, Submit(t)
    PROVE  IInv'
  <1> USE DEF Submit
  <1>1. TypeOK /\ Placed /\ Asked /\ Counted
    BY DEF IInv
  <1> DEFINE sh == Home(t)
  <1>2. inbox \in [Shard -> Seq(Task)] /\ sh \in Shard /\ t \notin submitted /\ IngressCap \in Nat
    BY <1>1, Types, Homes, RuntimeAssumption
  <1>3. TypeOK'
    <2>1. CASE /\ Len(inbox[sh]) < IngressCap /\ UNCHANGED result
               /\ inbox' = [inbox EXCEPT ![sh] = Append(@, t)]
      <3>1. inbox' \in [Shard -> Seq(Task)] /\ \A h \in Shard : Len(inbox'[h]) <= IngressCap
        BY <1>1, <1>2, <2>1 DEF TypeOK
      <3> QED BY <1>1, <2>1, <3>1 DEF TypeOK
    <2>2. CASE UNCHANGED inbox /\ \E o \in {"done", "busy"} : result' = Deliver(t, o)
      BY <1>1, <2>2, Delivered DEF TypeOK
    <2> QED BY <2>1, <2>2
  <1>4. Placed'
    BY <1>1, PlacedStands
  <1>5. Asked'
    <2>1. \A h \in Shard : \A k \in DOMAIN inbox[h] : inbox[h][k] # t /\ inbox[h][k] \in Task
      BY <1>1, <1>2 DEF Asked, Pending
    <2>2. \A f \in Farm : \A x \in ToSet(accepted[f]) : x # t /\ x \in Task
      BY <1>1, <1>2 DEF Asked, TypeOK, ToSet
    <2>3. \A x \in Task : x # t /\ result'[x] = "busy" => result[x] = "busy"
      BY <1>1, Delivered
    <2>4. \A x \in Task : x # t /\ Pending(x) => Pending(x)'
      BY <2>3 DEF Pending
    <2>5. \A f \in Farm : \A x \in ToSet(accepted'[f]) :
            FarmOf[x] = f /\ x \in submitted' /\ result'[x] # "busy"
      BY <1>1, <2>2, <2>3 DEF Asked
    <2>6. \A x \in Task : result'[x] = "busy" => x \in submitted'
      BY <1>1, <2>3 DEF Asked
    <2>7. CASE UNCHANGED inbox
      BY <1>1, <2>1, <2>4, <2>5, <2>6, <2>7 DEF Asked, Home
    <2>8. CASE UNCHANGED result /\ inbox' = [inbox EXCEPT ![sh] = Append(@, t)]
      <3> DEFINE s == inbox[sh]
      <3>1. /\ \A h \in Shard \ {sh} : inbox'[h] = inbox[h]
            /\ s \in Seq(Task) /\ inbox'[sh] = Append(s, t)
        BY <1>2, <2>8
      <3>2. /\ DOMAIN Append(s, t) = 1 .. Len(s) + 1 /\ DOMAIN s = 1 .. Len(s) /\ Len(s) \in Nat
            /\ \A k \in DOMAIN s : Append(s, t)[k] = s[k]
            /\ Append(s, t)[Len(s) + 1] = t
        BY <3>1
      <3>3. \A k \in DOMAIN inbox'[sh] :
              (k \in DOMAIN s /\ inbox'[sh][k] = s[k]) \/ (k = Len(s) + 1 /\ inbox'[sh][k] = t)
        BY <3>1, <3>2
      <3>4. Pending(t)'
        BY <1>1, <1>2, <2>2, <2>8, Homes DEF Asked, Pending
      <3>5. \A h \in Shard : \A k, l \in DOMAIN inbox'[h] : inbox'[h][k] = inbox'[h][l] => k = l
        <4>1. \A h \in Shard \ {sh} : \A k, l \in DOMAIN inbox'[h] :
                inbox'[h][k] = inbox'[h][l] => k = l
          BY <1>1, <3>1 DEF Asked
        <4>2. \A k \in DOMAIN s : s[k] # t
          BY <1>2, <2>1
        <4>3. \A k, l \in DOMAIN s : s[k] = s[l] => k = l
          BY <1>1, <1>2 DEF Asked
        <4>4. \A k, l \in DOMAIN inbox'[sh] : inbox'[sh][k] = inbox'[sh][l] => k = l
          BY <3>3, <4>2, <4>3
        <4> QED BY <4>1, <4>4
      <3>6. \A h \in Shard : \A k \in DOMAIN inbox'[h] :
              (Home(inbox[h][k]) = h /\ Pending(inbox[h][k]))'
        <4>1. ASSUME NEW h \in Shard \ {sh}, NEW k \in DOMAIN inbox'[h]
              PROVE  (Home(inbox[h][k]) = h /\ Pending(inbox[h][k]))'
          BY <1>1, <2>1, <2>4, <3>1, <4>1 DEF Asked
        <4>2. ASSUME NEW k \in DOMAIN inbox'[sh]
              PROVE  (Home(inbox[sh][k]) = sh /\ Pending(inbox[sh][k]))'
          BY <1>1, <1>2, <2>1, <2>4, <3>3, <3>4 DEF Asked
        <4> QED BY <4>1, <4>2
      <3> QED BY <2>5, <2>6, <3>5, <3>6 DEF Asked, Home
    <2> QED BY <2>7, <2>8
  <1>6. Counted'
    BY <1>1 DEF Counted, Live
  <1> QED BY <1>3, <1>4, <1>5, <1>6 DEF IInv

LEMMA StopStep ==
    ASSUME IInv, Stop
    PROVE  IInv'
  <1> USE DEF Stop
  <1>1. TypeOK /\ Placed /\ Asked /\ Counted
    BY DEF IInv
  <1>2. TypeOK'
    BY <1>1 DEF TypeOK
  <1>3. Placed' /\ Asked' /\ Counted'
    BY <1>1, <1>2, PlacedStands, AskedStands DEF Counted, Live
  <1> QED BY <1>2, <1>3 DEF IInv

-----------------------------------------------------------------------------
(* A scheduler accepts.                                                    *)

\* The head of an inbox is taken on or turned away.
LEMMA Popped ==
    ASSUME TypeOK, Asked, NEW sh \in Shard, inbox[sh] # <<>>,
           inbox' = [inbox EXCEPT ![sh] = Tail(@)], submitted' = submitted,
           \A x \in Task : result'[x] = "busy" =>
               result[x] = "busy" \/ (x = Head(inbox[sh]) /\ accepted' = accepted),
           \A f \in Farm : \A x \in ToSet(accepted'[f]) :
               x \in ToSet(accepted[f]) \/ (x = Head(inbox[sh]) /\ FarmOf[x] = f)
    PROVE  /\ Asked' /\ inbox' \in [Shard -> Seq(Task)]
           /\ \A h \in Shard : Len(inbox'[h]) <= IngressCap
  <1> DEFINE s == inbox[sh]
             r == Tail(s)
             t == Head(s)
  <1>1. inbox \in [Shard -> Seq(Task)] /\ s \in Seq(Task) /\ IngressCap \in Nat
    BY Types, RuntimeAssumption
  <1>2. /\ Len(s) \in Nat \ {0} /\ DOMAIN s = 1 .. Len(s) /\ t = s[1] /\ t \in Task
        /\ r \in Seq(Task) /\ Len(r) = Len(s) - 1 /\ DOMAIN r = 1 .. Len(s) - 1
        /\ \A k \in 1 .. Len(s) - 1 : r[k] = s[k + 1]
    BY <1>1
  <1>3. /\ inbox' \in [Shard -> Seq(Task)] /\ inbox'[sh] = r
        /\ \A h \in Shard \ {sh} : inbox'[h] = inbox[h]
    BY <1>1, <1>2
  <1>4. \A h \in Shard : Len(inbox'[h]) <= IngressCap
    <2>1. \A h \in Shard : Len(inbox[h]) <= IngressCap
      BY DEF TypeOK
    <2> QED BY <1>1, <1>2, <1>3, <2>1
  <1> HIDE DEF r, t
  <1>5. \A k \in DOMAIN r : k + 1 \in DOMAIN s /\ r[k] = s[k + 1] /\ r[k] # t
    <2>1. \A k \in DOMAIN r : k + 1 \in DOMAIN s /\ r[k] = s[k + 1] /\ k + 1 # 1 /\ 1 \in DOMAIN s
      BY <1>2
    <2> QED BY <1>2, <2>1 DEF Asked
  <1>6. Pending(t) /\ Home(t) = sh
    BY <1>2 DEF Asked
  <1>7. \A x \in Task : x # t /\ Pending(x) => Pending(x)'
    BY Homes DEF Pending, t
  <1>8. \A h \in Shard : \A k \in DOMAIN inbox'[h] : (Home(inbox[h][k]) = h /\ Pending(inbox[h][k]))'
    <2>1. ASSUME NEW h \in Shard \ {sh}, NEW k \in DOMAIN inbox'[h]
          PROVE  (Home(inbox[h][k]) = h /\ Pending(inbox[h][k]))'
      <3>1. inbox[h][k] \in Task /\ Home(inbox[h][k]) = h /\ Pending(inbox[h][k])
        BY <1>1, <1>3 DEF Asked
      <3> QED BY <1>3, <1>6, <1>7, <3>1 DEF Home
    <2>2. ASSUME NEW k \in DOMAIN inbox'[sh]
          PROVE  (Home(inbox[sh][k]) = sh /\ Pending(inbox[sh][k]))'
      <3>1. k + 1 \in DOMAIN s /\ inbox'[sh][k] = s[k + 1] /\ s[k + 1] # t
        BY <1>3, <1>5
      <3>2. s[k + 1] \in Task /\ Home(s[k + 1]) = sh /\ Pending(s[k + 1])
        BY <1>1, <3>1 DEF Asked
      <3> QED BY <1>7, <3>1, <3>2 DEF Home
    <2> QED BY <2>1, <2>2
  <1>9. \A h \in Shard : \A k, l \in DOMAIN inbox'[h] : inbox'[h][k] = inbox'[h][l] => k = l
    <2>1. \A h \in Shard \ {sh} : \A k, l \in DOMAIN inbox'[h] :
            inbox'[h][k] = inbox'[h][l] => k = l
      BY <1>3 DEF Asked
    <2>2. \A k, l \in DOMAIN r : r[k] = r[l] => k + 1 = l + 1
      BY <1>5 DEF Asked
    <2>3. \A k, l \in DOMAIN r : k + 1 = l + 1 => k = l
      BY <1>2
    <2> QED BY <1>3, <2>1, <2>2, <2>3
  <1>10. \A f \in Farm : \A x \in ToSet(accepted'[f]) :
            FarmOf[x] = f /\ x \in submitted /\ result'[x] # "busy"
    <2>1. ASSUME NEW f \in Farm, NEW x \in ToSet(accepted'[f]), x # t
          PROVE  FarmOf[x] = f /\ x \in submitted /\ result'[x] # "busy"
      <3>1. x \in ToSet(accepted[f]) /\ x \in Task
        <4>1. x \in ToSet(accepted[f])
          BY <2>1 DEF t
        <4>2. accepted[f] \in Seq(Task)
          BY Types
        <4> QED BY <4>1, <4>2 DEF ToSet
      <3> QED BY <2>1, <3>1 DEF Asked, t
    <2>2. ASSUME NEW f \in Farm, t \in ToSet(accepted'[f])
          PROVE  FarmOf[t] = f /\ t \in submitted /\ result'[t] # "busy"
      <3>1. FarmOf[t] = f
        BY <2>2 DEF Asked, t
      <3>2. t \notin ToSet(accepted[f]) /\ t \in submitted /\ result[t] # "busy"
        BY <1>6, <3>1 DEF Pending
      <3> QED BY <1>2, <2>2, <3>1, <3>2 DEF t
    <2> QED BY <2>1, <2>2
  <1>11. \A x \in Task : result'[x] = "busy" => x \in submitted
    BY <1>6 DEF Asked, Pending, t
  <1>12. Asked'
    BY <1>8, <1>9, <1>10, <1>11 DEF Asked
  <1> QED BY <1>3, <1>4, <1>12

\* Accept, but for what the three branches do to the line and the actor.
LEMMA AcceptedStep ==
    ASSUME IInv, NEW sh \in Shard, AtSelect(sh), inbox[sh] # <<>>,
           NEW t, t = Head(inbox[sh]), inbox' = [inbox EXCEPT ![sh] = Tail(@)],
           UNCHANGED <<submitted, parked, worker, completed, stopped, exited, ran, left>>,
           \/ UNCHANGED accepted /\ result' = Deliver(t, "busy")
           \/ /\ accepted' = [accepted EXCEPT ![FarmOf[t]] = Append(@, t)]
              /\ UNCHANGED result,
           actors' \in [Farm -> ActorState], activeActors' \in Nat, created' \in [Farm -> Nat],
           ready' \in Seq(Item), Len(ready') <= ReadyCap, Placed', Counted'
    PROVE  IInv'
  <1>1. TypeOK /\ Asked
    BY DEF IInv
  <1>2. t \in Task
    <2>1. inbox[sh] \in Seq(Task)
      BY <1>1, Types
    <2> QED BY <2>1, HeadTailProperties
  <1>3. result' \in [Task -> {"none", "done", "busy"}]
    BY <1>1, <1>2, Delivered DEF TypeOK
  <1>4. \A x \in Task : result'[x] = "busy" => result[x] = "busy" \/ (x = t /\ accepted' = accepted)
    BY <1>1, <1>2, Delivered
  <1>5. accepted' \in [Farm -> Seq(Task)]
        /\ \A f \in Farm : \A x \in ToSet(accepted'[f]) :
               x \in ToSet(accepted[f]) \/ (x = t /\ FarmOf[t] = f)
    <2>1. accepted \in [Farm -> Seq(Task)]
      BY <1>1, Types
    <2>2. CASE UNCHANGED accepted
      BY <2>1, <2>2
    <2>3. CASE accepted' = [accepted EXCEPT ![FarmOf[t]] = Append(@, t)]
      <3>1. FarmOf[t] \in Farm
        BY <1>2, Homes
      <3>2. accepted' \in [Farm -> Seq(Task)]
            /\ \A f \in Farm \ {FarmOf[t]} : accepted'[f] = accepted[f]
            /\ accepted'[FarmOf[t]] = Append(accepted[FarmOf[t]], t)
        <4>1. Append(accepted[FarmOf[t]], t) \in Seq(Task)
          BY <1>2, <2>1, <3>1
        <4> QED BY <2>1, <2>3, <3>1, <4>1
      <3>3. ToSet(Append(accepted[FarmOf[t]], t)) \subseteq ToSet(accepted[FarmOf[t]]) \cup {t}
        <4>1. accepted[FarmOf[t]] \in Seq(Task)
          BY <2>1, <3>1
        <4> QED BY <1>2, <4>1, SetOfAppend
      <3> QED BY <3>1, <3>2, <3>3
    <2> QED BY <2>2, <2>3
  <1>6. /\ Asked' /\ inbox' \in [Shard -> Seq(Task)]
        /\ \A h \in Shard : Len(inbox'[h]) <= IngressCap
    <2>1. submitted' = submitted
      OBVIOUS
    <2>2. \A x \in Task : result'[x] = "busy" =>
            result[x] = "busy" \/ (x = Head(inbox[sh]) /\ accepted' = accepted)
      BY <1>4
    <2>3. \A f \in Farm : \A x \in ToSet(accepted'[f]) :
            x \in ToSet(accepted[f]) \/ (x = Head(inbox[sh]) /\ FarmOf[x] = f)
      BY <1>5
    <2> QED BY <1>1, <2>1, <2>2, <2>3, Popped
  <1>7. TypeOK'
    BY <1>1, <1>3, <1>5, <1>6 DEF TypeOK
  <1> QED BY <1>6, <1>7 DEF IInv

LEMMA BusyStep ==
    ASSUME IInv, NEW sh \in Shard, AtSelect(sh), inbox[sh] # <<>>,
           NEW t, t = Head(inbox[sh]), inbox' = [inbox EXCEPT ![sh] = Tail(@)],
           UNCHANGED <<submitted, parked, worker, completed, stopped, exited, ran, left>>,
           Busy(t)
    PROVE  IInv'
  <1>1. TypeOK /\ Placed /\ Counted
    BY DEF IInv
  <1>2. Placed' /\ Counted'
    BY <1>1, PlacedStands DEF Busy, Counted, Live
  <1>3. /\ actors' \in [Farm -> ActorState] /\ activeActors' \in Nat
        /\ created' \in [Farm -> Nat] /\ ready' \in Seq(Item) /\ Len(ready') <= ReadyCap
    BY <1>1 DEF Busy, TypeOK
  <1> QED BY <1>2, <1>3, AcceptedStep DEF Busy

LEMMA EnqueueStep ==
    ASSUME IInv, NEW sh \in Shard, AtSelect(sh), inbox[sh] # <<>>,
           NEW t, t = Head(inbox[sh]), inbox' = [inbox EXCEPT ![sh] = Tail(@)],
           UNCHANGED <<submitted, parked, worker, completed, stopped, exited, ran, left>>,
           Enqueue(t)
    PROVE  IInv'
  <1> DEFINE f == FarmOf[t]
  <1>1. TypeOK /\ Placed /\ Asked /\ Counted
    BY DEF IInv
  <1>2. t \in Task /\ f \in Farm
    <2>1. inbox[sh] \in Seq(Task)
      BY <1>1, Types
    <2>2. t \in Task
      BY <2>1, HeadTailProperties
    <2> QED BY <2>2, Homes
  <1>3. CASE Busy(t)
    BY <1>3, BusyStep
  <1>4. CASE /\ actors[f].running
             /\ actors' = [actors EXCEPT ![f].queue = Append(@, t)]
             /\ accepted' = [accepted EXCEPT ![f] = Append(@, t)]
             /\ UNCHANGED <<result, activeActors, created, ready>>
    <2>1. actors \in [Farm -> ActorState] /\ accepted \in [Farm -> Seq(Task)]
          /\ ran \in [Farm -> Seq(Task)]
      BY <1>1, Types
    <2>2. actors[f].queue \in Seq(Task) /\ Append(actors[f].queue, t) \in Seq(Task)
      BY <1>2, <2>1 DEF ActorState
    <2>3. /\ actors' \in [Farm -> ActorState]
          /\ \A g \in Farm : /\ actors'[g].life = actors[g].life
                              /\ actors'[g].running = actors[g].running
                              /\ actors'[g].snapshot = actors[g].snapshot
          /\ \A g \in Farm \ {f} : actors'[g] = actors[g]
          /\ actors'[f].queue = Append(actors[f].queue, t)
      <3>1. actors[f] \in ActorState
        BY <1>2, <2>1
      <3>2. [actors[f] EXCEPT !.queue = Append(@, t)] \in ActorState
        BY <2>2, <3>1 DEF ActorState
      <3>3. /\ \A g \in Farm \ {f} : actors'[g] = actors[g]
            /\ actors'[f] = [actors[f] EXCEPT !.queue = Append(@, t)]
            /\ actors' \in [Farm -> ActorState]
        BY <1>2, <1>4, <2>1, <3>2
      <3>4. /\ actors'[f].life = actors[f].life /\ actors'[f].running = actors[f].running
            /\ actors'[f].snapshot = actors[f].snapshot
            /\ actors'[f].queue = Append(actors[f].queue, t)
        BY <3>1, <3>3 DEF ActorState
      <3> QED BY <3>3, <3>4
    <2>4. actors[f] # NoActor /\ actors'[f] # NoActor
      <3>1. ~ NoActor.running
        BY DEF NoActor, NewActor
      <3>2. actors[f].running /\ actors'[f].running
        <4>1. actors'[f].running = actors[f].running
          BY <1>2, <2>3
        <4> QED BY <1>4, <4>1
      <3> QED BY <3>1, <3>2
    <2>5. \A g \in Farm : actors'[g] = NoActor <=> actors[g] = NoActor
      BY <2>3, <2>4
    <2>6. /\ \A g : /\ Has(ready, g)' <=> Has(ready, g)
                    /\ AtWorker(g)' <=> AtWorker(g)
                    /\ Has(completed[ShardOf[g]], g)' <=> Has(completed[ShardOf[g]], g)
                    /\ Has(parked, g)' <=> Has(parked, g)
                    /\ Dispatched(g)' <=> Dispatched(g)
      BY <1>4 DEF Has, AtWorker, Serves, Dispatched
    <2>7. Lines'
      <3>1. \A x \in ToSet(Append(actors[f].queue, t)) : x \in ToSet(actors[f].queue) \/ x = t
        <4>1. ToSet(Append(actors[f].queue, t)) \subseteq ToSet(actors[f].queue) \cup {t}
          BY <1>2, <2>2, SetOfAppend
        <4> QED BY <4>1
      <3>2. \A g \in Farm : \A x \in ToSet(actors'[g].queue) : FarmOf[x] = g
        <4>1. \A x \in ToSet(actors'[f].queue) : FarmOf[x] = f
          BY <1>1, <1>2, <2>3, <3>1 DEF Placed, Lines
        <4>2. \A g \in Farm \ {f} : \A x \in ToSet(actors'[g].queue) : FarmOf[x] = g
          BY <1>1, <2>3 DEF Placed, Lines
        <4> QED BY <4>1, <4>2
      <3> QED BY <1>1, <1>4, <3>2 DEF Placed, Lines, OnePer, Serves, Home, HomeOf
    <2>8. Apart' /\ Marked'
      <3>1. Apart'
        BY <1>1, <2>3, <2>6 DEF Placed, Apart
      <3>2. stopped' = stopped /\ actors[f].running
        BY <1>4
      <3>3. ASSUME ~ stopped, NEW g \in Farm
            PROVE  /\ actors'[g].running => Dispatched(g)
                   /\ ~ actors'[g].running /\ ~ Has(parked, g) => actors'[g].queue = <<>>
        <4>1. /\ actors[g].running => Dispatched(g)
              /\ ~ actors[g].running /\ ~ Has(parked, g) => actors[g].queue = <<>>
          BY <1>1, <3>3 DEF Placed, Marked
        <4>2. CASE g = f
          BY <2>3, <3>2, <4>1, <4>2
        <4>3. CASE g # f
          BY <2>3, <4>1, <4>3
        <4> QED BY <4>2, <4>3
      <3>4. Marked'
        BY <2>6, <3>2, <3>3 DEF Marked
      <3> QED BY <3>1, <3>4
    <2>9. Alive'
      <3>1. \A w \in Worker : worker[w].step \in {"run", "done"} => FarmOf[worker[w].task] \in Farm
        BY <1>1, Homes DEF Placed, Lines
      <3>2. \A g \in Farm : actors'[g] = NoActor \/ actors'[g].life >= 1
        BY <1>1, <2>3, <2>5 DEF Placed, Alive
      <3>3. \A i \in ToSet(ready) \cup ToSet(parked) \cup UNION {ToSet(completed[h]) : h \in Shard} :
              i.life >= 1 /\ i.life = actors'[FarmOf[i.task]].life
        BY <1>1, <2>3, Items DEF Placed, Alive
      <3>4. \A w \in Worker : worker[w].step \in {"run", "done"} =>
              worker[w].life >= 1 /\ worker[w].life = actors'[FarmOf[worker[w].task]].life
        BY <1>1, <2>3, <3>1 DEF Placed, Alive
      <3>5. UNCHANGED <<ready, parked, worker, completed>>
        BY <1>4
      <3> QED BY <3>2, <3>3, <3>4, <3>5 DEF Alive
    <2>10. Current'
      <3>1. UNCHANGED <<ready, parked, worker, completed, left>>
        BY <1>4
      <3>2. \A g \in Farm : ~ actors'[g].running => actors'[g].snapshot \in {Cold, left[g]}
        BY <1>1, <2>3 DEF Placed, Current
      <3> QED BY <1>1, <3>1, <3>2 DEF Placed, Current
    <2>11. Ordered'
      <3>1. \A g : Waiting(g)' = Waiting(g)
        BY <1>4, SameWait DEF Waits
      <3>3. ASSUME ~ stopped, NEW g \in Farm
            PROVE  InOrder(g)'
        <4>1. PICK s \in Waiting(g) : accepted[g] = ran[g] \o s \o actors[g].queue
          BY <1>1, <3>3 DEF Placed, Ordered, InOrder
        <4>2. CASE g # f
          BY <1>4, <2>1, <2>3, <3>1, <4>1, <4>2 DEF InOrder
        <4>3. CASE g = f
          <5>1. accepted'[f] = Append(accepted[f], t)
            BY <1>2, <1>4, <2>1
          <5>2. ran[f] \in Seq(Task) /\ s \in Seq(Task)
            BY <1>1, <1>2, <2>1, Items
          <5>3. Append(ran[f] \o s \o actors[f].queue, t) = ran[f] \o s \o Append(actors[f].queue, t)
            <6>1. \A r, z, q \in Seq(Task) : Append((r \o z) \o q, t) = (r \o z) \o Append(q, t)
              BY <1>2, TaskQueues
            <6> HIDE DEF f
            <6> QED BY <2>2, <5>2, <6>1
          <5>4. accepted'[f] = ran'[f] \o s \o actors'[f].queue
            BY <2>3, <4>1, <4>3, <5>1, <5>3
          <5> QED BY <3>1, <4>3, <5>4 DEF InOrder
        <4> QED BY <4>2, <4>3
      <3> QED BY <3>3 DEF Ordered
    <2>12. Placed'
      BY <2>7, <2>8, <2>9, <2>10, <2>11 DEF Placed
    <2>13. Counted'
      BY <1>1, <1>4, <2>5 DEF Counted, Live
    <2>14. ready' \in Seq(Item) /\ Len(ready') <= ReadyCap
           /\ activeActors' \in Nat /\ created' \in [Farm -> Nat]
      BY <1>1, <1>4 DEF TypeOK
    <2> QED BY <1>4, <2>3, <2>12, <2>13, <2>14, AcceptedStep
  <1> QED BY <1>3, <1>4 DEF Enqueue

\* A scheduler at its select has sent off nothing of a farm that is not running.
LEMMA NothingOut ==
    ASSUME TypeOK, Placed, NEW f \in Farm, ~ actors[f].running, AtSelect(ShardOf[f])
    PROVE  /\ ~ Has(ready, f) /\ ~ AtWorker(f) /\ ~ Has(completed[ShardOf[f]], f)
           /\ ~ Has(parked, f)
  <1>1. ~ Has(parked, f)
    BY DEF AtSelect, Parked, Has, Home, ToSet
  <1> QED BY <1>1 DEF Placed, Apart, Dispatched

\* An actor that is idle, or new, sends its task off.
LEMMA DispatchStep ==
    ASSUME IInv, NEW sh \in Shard, AtSelect(sh), inbox[sh] # <<>>,
           NEW t, t = Head(inbox[sh]), inbox' = [inbox EXCEPT ![sh] = Tail(@)],
           UNCHANGED <<submitted, parked, worker, completed, stopped, exited, ran, left>>,
           NEW a \in ActorState, Dispatch(t, a), ~ actors[FarmOf[t]].running,
           a.queue = actors[FarmOf[t]].queue, a.life >= 1,
           a.snapshot \in {Cold, actors[FarmOf[t]].snapshot},
           activeActors' \in Nat, created' \in [Farm -> Nat], Counted'
    PROVE  IInv'
  <1> DEFINE f == FarmOf[t]
             i == Work(t, a)
  <1>1. TypeOK /\ Placed /\ Asked /\ Counted
    BY DEF IInv
  <1>2. t \in Task /\ f \in Farm /\ sh = ShardOf[f]
    <2>1. inbox[sh] \in Seq(Task)
      BY <1>1, Types
    <2>2. t \in Task /\ 1 \in DOMAIN inbox[sh] /\ t = inbox[sh][1]
      BY <2>1
    <2> QED BY <1>1, <2>2, Homes DEF Asked, Home
  <1>3. ~ Has(ready, f) /\ ~ AtWorker(f) /\ ~ Has(completed[sh], f) /\ ~ Has(parked, f)
    BY <1>1, <1>2, NothingOut
  <1>4. i \in Item /\ i.task = t /\ i.life = a.life /\ i.snapshot = a.snapshot
    BY <1>2 DEF Work, Item, ActorState
  <1>5. /\ actors' \in [Farm -> ActorState]
        /\ \A g \in Farm \ {f} : actors'[g] = actors[g]
        /\ actors'[f].running /\ actors'[f].life = a.life
        /\ actors'[f].queue = actors[f].queue
    <2>1. [a EXCEPT !.running = TRUE, !.inflight = t] \in ActorState
      BY <1>2 DEF ActorState
    <2> QED BY <1>1, <1>2, <2>1, Types DEF Dispatch, ActorState
  <1>6. ready' = Append(ready, i) /\ Len(ready) < ReadyCap
        /\ accepted' = [accepted EXCEPT ![f] = Append(@, t)] /\ UNCHANGED result
    BY DEF Dispatch
  <1> HIDE DEF i
  <1>7. /\ ready' \in Seq(Item) /\ Len(ready') = Len(ready) + 1
        /\ ToSet(ready') = ToSet(ready) \cup {i}
        /\ \A g : Has(ready', g) <=> Has(ready, g) \/ g = f
        /\ OnePer(FarmOf, ready')
    <2>1. ready \in Seq(Item) /\ OnePer(FarmOf, ready)
      BY <1>1, Types DEF Placed, Lines
    <2>2. \A j \in ToSet(ready) : FarmOf[j.task] # FarmOf[i.task]
      BY <1>3, <1>4 DEF Has
    <2> QED BY <1>4, <1>6, <2>1, <2>2, Sent
  <1>8. Len(ready') <= ReadyCap
    BY <1>1, <1>6, <1>7, RuntimeAssumption DEF TypeOK
  <1>9. \A g : /\ Has(ready, g)' <=> Has(ready, g) \/ g = f
               /\ AtWorker(g)' <=> AtWorker(g)
               /\ Has(completed[ShardOf[g]], g)' <=> Has(completed[ShardOf[g]], g)
               /\ Has(parked, g)' <=> Has(parked, g)
    BY <1>7 DEF Has, AtWorker, Serves
  <1>10. \A g : Dispatched(g)' <=> Dispatched(g) \/ g = f
    BY <1>9 DEF Dispatched
  <1>11. Lines'
    <2>1. \A g \in Farm : \A x \in ToSet(actors'[g].queue) : FarmOf[x] = g
      BY <1>1, <1>5 DEF Placed, Lines
    <2> QED BY <1>1, <1>7, <2>1 DEF Placed, Lines, OnePer, Serves, Home, HomeOf
  <1>12. Apart' /\ Marked'
    <2>1. Apart'
      <3> SUFFICES ASSUME NEW g \in Farm
                   PROVE  (/\ Has(ready, g) => ~ AtWorker(g) /\ ~ Has(completed[ShardOf[g]], g)
                           /\ AtWorker(g) => ~ Has(completed[ShardOf[g]], g)
                           /\ Dispatched(g) => actors[g].running
                           /\ Has(parked, g) => ~ actors[g].running)'
        BY DEF Apart
      <3>1. CASE g = f
        BY <1>2, <1>3, <1>5, <1>9, <3>1
      <3>2. CASE g # f
        BY <1>1, <1>5, <1>9, <1>10, <3>2 DEF Placed, Apart
      <3> QED BY <3>1, <3>2
    <2>2. Marked'
      BY <1>1, <1>3, <1>5, <1>9, <1>10 DEF Placed, Marked
    <2> QED BY <2>1, <2>2
  <1>13. Alive'
    <2>1. \A g \in Farm : actors'[g] = NoActor \/ actors'[g].life >= 1
      BY <1>1, <1>5 DEF Placed, Alive
    <2>2. \A j \in ToSet(ready) \cup ToSet(parked) : FarmOf[j.task] # f /\ FarmOf[j.task] \in Farm
      BY <1>1, <1>3, Items DEF Has
    <2>3. \A h \in Shard : \A j \in ToSet(completed[h]) :
            FarmOf[j.task] # f /\ FarmOf[j.task] \in Farm
      <3> SUFFICES ASSUME NEW h \in Shard, NEW j \in ToSet(completed[h])
                   PROVE  FarmOf[j.task] # f /\ FarmOf[j.task] \in Farm
        OBVIOUS
      <3>1. FarmOf[j.task] \in Farm
        BY <1>1, Items
      <3>2. ShardOf[FarmOf[j.task]] = h
        BY <1>1 DEF Placed, Lines, Home
      <3>3. ~ Has(completed[sh], f) /\ ShardOf[f] = sh
        BY <1>2, <1>3
      <3> HIDE DEF f
      <3>4. FarmOf[j.task] = f => h = sh
        BY <3>2, <3>3
      <3> QED BY <3>1, <3>3, <3>4 DEF Has
    <2>4. \A w \in Worker : worker[w].step \in {"run", "done"} =>
            FarmOf[worker[w].task] # f /\ FarmOf[worker[w].task] \in Farm
      BY <1>1, <1>3, Homes DEF AtWorker, Serves, Placed, Lines
    <2>5. i.life >= 1 /\ i.life = actors'[FarmOf[i.task]].life
      BY <1>4, <1>5
    <2>6. \A j \in ToSet(ready') \cup ToSet(parked)
              \cup UNION {ToSet(completed[h]) : h \in Shard} :
            j.life >= 1 /\ j.life = actors'[FarmOf[j.task]].life
      <3>1. \A j \in ToSet(ready) \cup ToSet(parked)
                \cup UNION {ToSet(completed[h]) : h \in Shard} :
              FarmOf[j.task] \in Farm \ {f} /\ j.life >= 1 /\ j.life = actors[FarmOf[j.task]].life
        BY <1>1, <2>2, <2>3 DEF Placed, Alive
      <3>2. \A j \in ToSet(ready) \cup ToSet(parked)
                \cup UNION {ToSet(completed[h]) : h \in Shard} :
              j.life >= 1 /\ j.life = actors'[FarmOf[j.task]].life
        BY <1>5, <3>1
      <3> QED BY <1>7, <2>5, <3>2
    <2>7. \A w \in Worker : worker[w].step \in {"run", "done"} =>
            worker[w].life >= 1 /\ worker[w].life = actors'[FarmOf[worker[w].task]].life
      BY <1>1, <1>5, <2>4 DEF Placed, Alive
    <2> QED BY <2>1, <2>6, <2>7 DEF Alive
  <1>14. Current'
    <2>1. i.snapshot \in {Cold, left[f]}
      BY <1>1, <1>2, <1>4 DEF Placed, Current
    <2>2. \A j \in ToSet(ready') \cup ToSet(parked) : j.snapshot \in {Cold, left[FarmOf[j.task]]}
      BY <1>1, <1>4, <1>7, <2>1 DEF Placed, Current
    <2>3. \A g \in Farm : ~ actors'[g].running => actors'[g].snapshot \in {Cold, left[g]}
      BY <1>1, <1>5 DEF Placed, Current
    <2> QED BY <1>1, <2>2, <2>3 DEF Placed, Current
  <1>15. Ordered'
    <2>1. ASSUME ~ stopped, NEW g \in Farm, g # f
          PROVE  InOrder(g)'
      <3>1. Waiting(g)' = Waiting(g)
        BY <1>4, <1>7, <2>1, SameWait DEF Waits
      <3>2. accepted'[g] = accepted[g] /\ ran'[g] = ran[g] /\ actors'[g] = actors[g]
        BY <1>1, <1>5, <1>6, <2>1, Types
      <3> QED BY <1>1, <2>1, <3>1, <3>2 DEF Placed, Ordered, InOrder
    <2>2. ASSUME ~ stopped
          PROVE  InOrder(f)'
      <3>1. Waiting(f) = {<<>>}
        BY <1>3, NoneWaits DEF Waits, Has
      <3>2. Waiting(f)' = {<<t>>}
        <4>1. Waits(i)' /\ \A j : Waits(j)' /\ FarmOf[j.task] = f => j = i
          BY <1>3, <1>7 DEF Waits, Has
        <4> QED BY <1>4, <4>1, OneWaitsNext
      <3>3. actors[f].queue = <<>> /\ accepted[f] = ran[f] \o <<>> \o <<>>
        BY <1>1, <1>2, <1>3, <2>2, <3>1 DEF Placed, Marked, Ordered, InOrder
      <3>4. ran[f] \in Seq(Task) /\ accepted[f] \in Seq(Task) /\ ran'[f] = ran[f]
            /\ accepted'[f] = Append(accepted[f], t)
        BY <1>1, <1>2, <1>6, Types
      <3>5. Append((ran[f] \o <<>>) \o <<>>, t) = (ran[f] \o <<t>>) \o <<>>
        <4>1. <<>> \in Seq(Task)
          OBVIOUS
        <4>2. \A r \in Seq(Task) : Append((r \o <<>>) \o <<>>, t) = (r \o <<t>>) \o <<>>
          BY <1>2, <4>1, TaskMoves
        <4> QED BY <3>4, <4>2
      <3>6. accepted'[f] = ran'[f] \o <<t>> \o actors'[f].queue
        BY <1>5, <3>3, <3>4, <3>5
      <3> QED BY <3>2, <3>6 DEF InOrder
    <2> QED BY <2>1, <2>2 DEF Ordered
  <1>16. Placed'
    BY <1>11, <1>12, <1>13, <1>14, <1>15 DEF Placed
  <1> QED BY <1>5, <1>6, <1>7, <1>8, <1>16, AcceptedStep

LEMMA AcceptStep ==
    ASSUME IInv, NEW sh \in Shard, Accept(sh)
    PROVE  IInv'
  <1> DEFINE t == Head(inbox[sh])
             f == FarmOf[t]
             one == NewActor(created[f] + 1)
  <1>1. TypeOK /\ Placed /\ Asked /\ Counted
    BY DEF IInv
  <1>2. /\ AtSelect(sh) /\ inbox[sh] # <<>> /\ inbox' = [inbox EXCEPT ![sh] = Tail(@)]
        /\ UNCHANGED <<submitted, parked, worker, completed, stopped, exited, ran, left>>
        /\ Enqueue(t) \/ DispatchIdle(t) \/ DispatchNew(t)
    BY DEF Accept
  <1>3. t \in Task /\ f \in Farm /\ ShardOf[f] = sh
    <2>1. inbox[sh] \in Seq(Task)
      BY <1>1, Types
    <2>2. t \in Task /\ 1 \in DOMAIN inbox[sh] /\ t = inbox[sh][1]
      BY <1>2, <2>1
    <2> QED BY <1>1, <2>2, Homes DEF Asked, Home
  <1>4. /\ actors \in [Farm -> ActorState] /\ activeActors \in Nat
        /\ created \in [Farm -> Nat] /\ created[f] \in Nat
    BY <1>1, <1>3, Types
  <1> HIDE DEF t
  <1>5. CASE Busy(t)
    BY <1>2, <1>5, BusyStep DEF t
  <1>6. CASE Enqueue(t)
    BY <1>2, <1>6, EnqueueStep DEF t
  <1>7. CASE /\ actors[f] # NoActor /\ ~ actors[f].running
             /\ Dispatch(t, actors[f]) /\ UNCHANGED <<activeActors, created>>
    <2>1. actors[f] \in ActorState /\ actors[f].life >= 1
      BY <1>1, <1>3, <1>4, <1>7 DEF Placed, Alive
    <2>2. /\ \A g \in Farm \ {f} : actors'[g] = actors[g]
          /\ actors'[f].running
      BY <1>3, <1>4, <1>7, <2>1 DEF Dispatch, ActorState
    <2>3. ~ NoActor.running
      BY DEF NoActor, NewActor
    <2>4. Live' = Live
      BY <1>2, <1>7, <2>2, <2>3 DEF Live
    <2>5. Counted' /\ activeActors' \in Nat /\ created' \in [Farm -> Nat]
      BY <1>1, <1>4, <1>7, <2>4 DEF Counted
    <2>6. actors[f].snapshot \in {Cold, actors[f].snapshot}
      OBVIOUS
    <2> QED BY <1>2, <1>7, <2>1, <2>5, <2>6, DispatchStep DEF t
  <1>8. CASE /\ actors[f] = NoActor /\ activeActors < MaxActiveActors /\ Dispatch(t, one)
             /\ activeActors' = activeActors + 1
             /\ created' = [created EXCEPT ![f] = @ + 1]
    <2>1. /\ one \in ActorState /\ ~ one.running /\ one.queue = <<>>
          /\ one.life = created[f] + 1 /\ one.snapshot = Cold
          /\ ~ NoActor.running /\ NoActor.queue = <<>>
      <3>1. <<>> \in Seq(Task) /\ created[f] + 1 \in Nat /\ Cold \in Version
        BY <1>4 DEF Version
      <3> QED BY <3>1 DEF NewActor, NoActor, ActorState
    <2>2. one.life >= 1 /\ activeActors' \in Nat /\ created' \in [Farm -> Nat]
      BY <1>3, <1>4, <1>8, <2>1
    <2> HIDE DEF one
    <2>3. /\ \A g \in Farm \ {f} : actors'[g] = actors[g]
          /\ actors'[f].running
      BY <1>3, <1>4, <1>8, <2>1 DEF Dispatch, ActorState
    <2>4. Live' = Live \cup {f} /\ f \notin Live
      BY <1>2, <1>3, <1>8, <2>1, <2>3 DEF Live, AtSelect
    <2>5. IsFiniteSet(Live) /\ activeActors = Cardinality(Live)
      BY <1>1 DEF Counted
    <2>6. IsFiniteSet(Live') /\ Cardinality(Live') = Cardinality(Live) + 1
      BY <2>4, <2>5, FS_AddElement
    <2>7. Counted'
      <3>1. MaxActiveActors \in Nat /\ activeActors + 1 <= MaxActiveActors
        BY <1>4, <1>8, RuntimeAssumption
      <3> QED BY <1>8, <2>5, <2>6, <3>1 DEF Counted
    <2>8. ~ actors[f].running /\ one.queue = actors[f].queue
          /\ one.snapshot \in {Cold, actors[f].snapshot}
      BY <1>8, <2>1
    <2> QED BY <1>2, <1>8, <2>1, <2>2, <2>7, <2>8, DispatchStep DEF t
  <1> QED BY <1>2, <1>5, <1>6, <1>7, <1>8 DEF DispatchIdle, DispatchNew

-----------------------------------------------------------------------------
(* A scheduler completes.                                                  *)

\* What a completion at the head of its line says of its farm.
LEMMA AtHead ==
    ASSUME TypeOK, Placed, NEW sh \in Shard, AtSelect(sh), completed[sh] # <<>>,
           completed' = [completed EXCEPT ![sh] = Tail(@)]
    PROVE  LET c == Head(completed[sh])
               f == FarmOf[c.task]
           IN  /\ c \in Item /\ f \in Farm /\ ShardOf[f] = sh
               /\ actors[f].life = c.life /\ c.life >= 1 /\ c.snapshot = left[f]
               /\ actors[f].running
               /\ ~ Has(ready, f) /\ ~ AtWorker(f) /\ ~ Has(parked, f)
               /\ completed' \in [Shard -> Seq(Item)]
               /\ \A h \in Shard : /\ OnePer(FarmOf, completed'[h])
                                   /\ ToSet(completed'[h]) \subseteq ToSet(completed[h])
                                   /\ Len(completed'[h]) <= Cardinality(Worker)
               /\ ~ Has(completed'[sh], f)
               /\ \A g : g # f => \A h \in Shard : Has(completed'[h], g) <=> Has(completed[h], g)
  <1> DEFINE c == Head(completed[sh])
             f == FarmOf[c.task]
  <1>1. completed \in [Shard -> Seq(Item)] /\ completed[sh] \in Seq(Item)
        /\ OnePer(FarmOf, completed[sh])
    BY Types DEF Placed, Lines
  <1>2. /\ c \in Item /\ Tail(completed[sh]) \in Seq(Item)
        /\ Len(Tail(completed[sh])) = Len(completed[sh]) - 1
        /\ ToSet(completed[sh]) = ToSet(Tail(completed[sh])) \cup {c}
        /\ \A j \in ToSet(Tail(completed[sh])) : FarmOf[j.task] # f
        /\ OnePer(FarmOf, Tail(completed[sh]))
    BY <1>1, Received
  <1> HIDE DEF c
  <1>3. c \in ToSet(completed[sh]) /\ f \in Farm /\ ShardOf[f] = sh
    <2>1. c \in ToSet(completed[sh])
      BY <1>2
    <2>2. c.task \in Task /\ Home(c.task) = sh
      BY <1>2, <2>1 DEF Item, Placed, Lines
    <2> QED BY <2>1, <2>2, Homes DEF Home
  <1>4. Has(completed[sh], f)
    BY <1>3 DEF Has
  <1>5. actors[f].running /\ ~ Has(ready, f) /\ ~ AtWorker(f) /\ ~ Has(parked, f)
    BY <1>3, <1>4 DEF Placed, Apart, Dispatched
  <1>6. actors[f].life = c.life /\ c.life >= 1 /\ c.snapshot = left[f]
    BY <1>3 DEF Placed, Alive, Current
  <1>7. /\ completed' \in [Shard -> Seq(Item)] /\ completed'[sh] = Tail(completed[sh])
        /\ \A h \in Shard \ {sh} : completed'[h] = completed[h]
    BY <1>1, <1>2
  <1>8. \A h \in Shard : /\ OnePer(FarmOf, completed'[h])
                         /\ ToSet(completed'[h]) \subseteq ToSet(completed[h])
    BY <1>2, <1>7 DEF Placed, Lines
  <1>9. \A h \in Shard : Len(completed'[h]) <= Cardinality(Worker)
    <2>1. Len(completed'[sh]) <= Cardinality(Worker)
      <3>1. Len(completed[sh]) \in Nat /\ Len(completed[sh]) <= Cardinality(Worker)
        BY <1>1 DEF TypeOK
      <3>2. Cardinality(Worker) \in Nat
        BY RuntimeAssumption, FS_CardinalityType
      <3> QED BY <1>2, <1>7, <3>1, <3>2
    <2> QED BY <1>7, <2>1 DEF TypeOK
  <1>10. ~ Has(completed'[sh], f)
    BY <1>2, <1>7 DEF Has
  <1>11. \A g : g # f => \A h \in Shard : Has(completed'[h], g) <=> Has(completed[h], g)
    BY <1>2, <1>7 DEF Has
  <1> QED BY <1>2, <1>3, <1>5, <1>6, <1>7, <1>8, <1>9, <1>10, <1>11 DEF c

\* Farms other than f are where they were.
OthersStand(f) ==
    \A g : g # f =>
        /\ Has(ready, g)' <=> Has(ready, g)
        /\ Has(parked, g)' <=> Has(parked, g)
        /\ AtWorker(g)' <=> AtWorker(g)
        /\ g \in Farm => (Has(completed[ShardOf[g]], g)' <=> Has(completed[ShardOf[g]], g))
        /\ g \in Farm => actors'[g] = actors[g]

\* Farm f is in one place, which its running flag tells, or it is idle.
LEMMA FarmSettles ==
    ASSUME Apart, Marked, NEW f \in Farm, OthersStand(f), stopped' = stopped,
           \/ /\ ~ Has(ready, f)' /\ ~ AtWorker(f)' /\ ~ Has(completed[ShardOf[f]], f)'
              /\ ~ actors'[f].running
              /\ ~ stopped => Has(parked, f)' \/ actors'[f].queue = <<>>
           \/ /\ Has(ready, f)' /\ ~ AtWorker(f)' /\ ~ Has(completed[ShardOf[f]], f)'
              /\ actors'[f].running /\ ~ Has(parked, f)'
           \/ /\ ~ Has(ready, f)' /\ AtWorker(f)' /\ ~ Has(completed[ShardOf[f]], f)'
              /\ actors'[f].running /\ ~ Has(parked, f)'
           \/ /\ ~ Has(ready, f)' /\ ~ AtWorker(f)' /\ Has(completed[ShardOf[f]], f)'
              /\ actors'[f].running /\ ~ Has(parked, f)'
    PROVE  Apart' /\ Marked'
  <1>1. ASSUME NEW g \in Farm
        PROVE  (/\ Has(ready, g) => ~ AtWorker(g) /\ ~ Has(completed[ShardOf[g]], g)
                /\ AtWorker(g) => ~ Has(completed[ShardOf[g]], g)
                /\ Dispatched(g) => actors[g].running
                /\ Has(parked, g) => ~ actors[g].running)'
    <2>1. CASE g = f
      BY <2>1 DEF Dispatched
    <2>2. CASE g # f
      BY <2>2 DEF OthersStand, Apart, Dispatched
    <2> QED BY <2>1, <2>2
  <1>2. ASSUME NEW g \in Farm, ~ stopped
        PROVE  (/\ actors[g].running => Dispatched(g)
                /\ ~ actors[g].running /\ ~ Has(parked, g) => actors[g].queue = <<>>)'
    <2>1. CASE g = f
      BY <1>2, <2>1 DEF Dispatched
    <2>2. CASE g # f
      BY <1>2, <2>2 DEF OthersStand, Marked, Dispatched
    <2> QED BY <2>1, <2>2
  <1>3. Apart'
    BY <1>1 DEF Apart
  <1>4. Marked'
    BY <1>2 DEF Marked
  <1> QED BY <1>3, <1>4

\* What a queue holds is its head and the rest.
LEMMA HeadAndTail ==
    ASSUME NEW q \in Seq(Task), q # <<>>
    PROVE  Head(q) \in ToSet(q) /\ ToSet(Tail(q)) \subseteq ToSet(q)
  <1>1. Len(q) \in Nat \ {0} /\ DOMAIN q = 1 .. Len(q) /\ Head(q) = q[1]
    OBVIOUS
  <1>2. /\ DOMAIN Tail(q) = 1 .. Len(q) - 1
        /\ \A k \in 1 .. Len(q) - 1 : Tail(q)[k] = q[k + 1]
    OBVIOUS
  <1>3. \A k \in 1 .. Len(q) - 1 : k + 1 \in 1 .. Len(q)
    BY <1>1
  <1> QED BY <1>1, <1>2, <1>3 DEF ToSet

LEMMA CompleteStep ==
    ASSUME IInv, NEW sh \in Shard, Complete(sh)
    PROVE  IInv'
  <1>1. PICK c, f : c = Head(completed[sh]) /\ f = FarmOf[c.task]
    OBVIOUS
  <1> DEFINE a == Settled(actors[f], c)
             rest == [a EXCEPT !.queue = Tail(@)]
  <1>2. PICK next, i : next = Head(a.queue) /\ i = Work(next, rest)
    OBVIOUS
  <1> DEFINE sent == [rest EXCEPT !.running = TRUE, !.inflight = next]
  <1>3. TypeOK /\ Placed /\ Asked /\ Counted /\ Lines /\ Apart /\ Marked
    BY DEF IInv, Placed
  <1>4. /\ AtSelect(sh) /\ completed[sh] # <<>>
        /\ completed' = [completed EXCEPT ![sh] = Tail(@)]
        /\ result' = Deliver(c.task, "done")
        /\ UNCHANGED <<submitted, inbox, activeActors, created, worker,
                       stopped, exited, accepted, ran, left>>
    BY <1>1 DEF Complete
  <1>5. /\ c \in Item /\ f \in Farm /\ ShardOf[f] = sh
        /\ actors[f].life = c.life /\ c.life >= 1 /\ c.snapshot = left[f]
        /\ ~ Has(ready, f) /\ ~ AtWorker(f) /\ ~ Has(parked, f)
        /\ completed' \in [Shard -> Seq(Item)]
        /\ \A h \in Shard : /\ OnePer(FarmOf, completed'[h])
                            /\ ToSet(completed'[h]) \subseteq ToSet(completed[h])
                            /\ Len(completed'[h]) <= Cardinality(Worker)
        /\ ~ Has(completed'[sh], f)
        /\ \A g : g # f => \A h \in Shard : Has(completed'[h], g) <=> Has(completed[h], g)
    BY <1>1, <1>3, <1>4, AtHead
  <1>6. /\ actors \in [Farm -> ActorState] /\ actors[f] \in ActorState
        /\ ready \in Seq(Item) /\ parked \in Seq(Item)
        /\ c.task \in Task /\ c.life \in Nat /\ c.snapshot \in Version
    BY <1>3, <1>5, Types DEF Item
  <1>7. \/ /\ a.queue = <<>> /\ actors' = [actors EXCEPT ![f] = a] /\ UNCHANGED <<ready, parked>>
        \/ /\ a.queue # <<>> /\ Len(ready) < ReadyCap /\ ready' = Append(ready, i)
           /\ actors' = [actors EXCEPT ![f] = sent] /\ UNCHANGED parked
        \/ /\ a.queue # <<>> /\ Len(ready) = ReadyCap /\ parked' = Append(parked, i)
           /\ actors' = [actors EXCEPT ![f] = rest] /\ UNCHANGED ready
    BY <1>1, <1>5, <1>2 DEF Complete, Handoff
  <1>8. /\ a \in ActorState /\ ~ a.running /\ a.life = c.life /\ a.snapshot = c.snapshot
        /\ a.queue = actors[f].queue /\ a.queue \in Seq(Task)
    BY <1>5, <1>6 DEF Settled, ActorState
  <1> HIDE DEF a
  <1>9. ASSUME a.queue # <<>>
        PROVE  /\ next \in Task /\ Tail(a.queue) \in Seq(Task)
               /\ rest \in ActorState /\ ~ rest.running /\ rest.life = c.life
               /\ rest.snapshot = c.snapshot /\ rest.queue = Tail(a.queue)
               /\ sent \in ActorState /\ sent.running /\ sent.life = c.life
               /\ sent.snapshot = c.snapshot /\ sent.queue = Tail(a.queue)
               /\ i \in Item /\ i.life = c.life /\ i.snapshot = c.snapshot /\ i.task = next
               /\ FarmOf[next] = f /\ \A t \in ToSet(Tail(a.queue)) : FarmOf[t] = f
    <2>1. next \in Task /\ Tail(a.queue) \in Seq(Task)
      BY <1>8, <1>9, <1>2, HeadTailProperties
    <2>2. /\ rest \in ActorState /\ ~ rest.running /\ rest.life = c.life
          /\ rest.snapshot = c.snapshot /\ rest.queue = Tail(a.queue)
      BY <1>8, <2>1 DEF ActorState
    <2> HIDE DEF rest
    <2>3. /\ sent \in ActorState /\ sent.running /\ sent.life = c.life
          /\ sent.snapshot = c.snapshot /\ sent.queue = Tail(a.queue)
      BY <2>1, <2>2 DEF ActorState
    <2>4. /\ i \in Item /\ i.life = c.life /\ i.snapshot = c.snapshot /\ i.task = next
      BY <1>6, <1>2, <2>1, <2>2 DEF Work, Item
    <2>5. FarmOf[next] = f /\ \A t \in ToSet(Tail(a.queue)) : FarmOf[t] = f
      <3>1. \A t \in ToSet(a.queue) : FarmOf[t] = f
        BY <1>3, <1>5, <1>8 DEF Lines
      <3>2. next \in ToSet(a.queue) /\ ToSet(Tail(a.queue)) \subseteq ToSet(a.queue)
        BY <1>8, <1>9, <1>2, HeadAndTail
      <3> QED BY <3>1, <3>2
    <2> QED BY <2>1, <2>2, <2>3, <2>4, <2>5
  <1> HIDE DEF rest, sent
  <1>10. /\ \A w \in Worker : worker'[w] = worker[w]
        /\ ~ AtWorker(f)' /\ ~ Has(completed[ShardOf[f]], f)'
    <2>1. AtWorker(f)' <=> AtWorker(f)
      BY <1>4 DEF AtWorker, Serves
    <2>2. Has(completed[ShardOf[f]], f)' <=> Has(completed'[ShardOf[f]], f)
      BY DEF Has
    <2> QED BY <1>4, <1>5, <2>1, <2>2
  <1>11. ~ stopped => accepted[f] = ran[f] \o <<>> \o a.queue
    <2>1. Waiting(f) = {<<>>}
      BY <1>5, NoneWaits DEF Waits, Has
    <2> QED BY <1>3, <1>5, <1>8, <2>1 DEF Placed, Ordered, InOrder
  \* What the three branches have in common.
  <1>12. ASSUME NEW j, FarmOf[j.task] = f, j.life = c.life, j.snapshot = c.snapshot,
                ToSet(ready') \subseteq ToSet(ready) \cup {j},
                ToSet(parked') \subseteq ToSet(parked) \cup {j},
                \A g \in Farm \ {f} : actors'[g] = actors[g],
                actors'[f].life = c.life, actors'[f].snapshot = c.snapshot
         PROVE  Alive' /\ Current'
    <2>1. \A g \in Farm : actors'[g].life = actors[g].life
      BY <1>5, <1>12
    <2>2. \A g \in Farm : actors'[g] = NoActor \/ actors'[g].life >= 1
      BY <1>3, <1>5, <1>12 DEF Placed, Alive
    <2>3. \A k \in ToSet(ready') \cup ToSet(parked')
              \cup UNION {ToSet(completed'[h]) : h \in Shard} :
            k.life >= 1 /\ k.life = actors'[FarmOf[k.task]].life
      <3>1. \A k \in ToSet(ready) \cup ToSet(parked)
                \cup UNION {ToSet(completed[h]) : h \in Shard} :
              k.life >= 1 /\ k.life = actors'[FarmOf[k.task]].life
        BY <1>3, <2>1, Items DEF Placed, Alive
      <3>2. j.life >= 1 /\ j.life = actors'[FarmOf[j.task]].life
        BY <1>5, <1>12
      <3> QED BY <1>5, <1>12, <3>1, <3>2
    <2>4. \A w \in Worker : worker[w].step \in {"run", "done"} =>
            worker[w].life >= 1 /\ worker[w].life = actors'[FarmOf[worker[w].task]].life
      BY <1>3, <2>1, Homes DEF Placed, Alive, Lines
    <2>5. Alive'
      BY <1>4, <2>2, <2>3, <2>4 DEF Alive
    <2>6. \A k \in ToSet(ready') \cup ToSet(parked') : k.snapshot \in {Cold, left[FarmOf[k.task]]}
      BY <1>3, <1>5, <1>12 DEF Placed, Current
    <2>7. \A h \in Shard : \A k \in ToSet(completed'[h]) : k.snapshot = left[FarmOf[k.task]]
      BY <1>3, <1>5 DEF Placed, Current
    <2>8. \A g \in Farm : ~ actors'[g].running => actors'[g].snapshot \in {Cold, left[g]}
      BY <1>3, <1>5, <1>12 DEF Placed, Current
    <2>9. Current'
      BY <1>3, <1>4, <2>6, <2>7, <2>8 DEF Placed, Current
    <2> QED BY <2>5, <2>9
  <1>13. ASSUME NEW q, actors'[f].queue = q, \A t \in ToSet(q) : FarmOf[t] = f,
                \A g \in Farm \ {f} : actors'[g] = actors[g],
                OnePer(FarmOf, ready'), OnePer(HomeOf, parked')
         PROVE  Lines'
    <2>1. \A g \in Farm : \A t \in ToSet(actors'[g].queue) : FarmOf[t] = g
      BY <1>3, <1>13 DEF Lines
    <2>2. \A h \in Shard : /\ OnePer(FarmOf, completed'[h])
                           /\ \A k \in ToSet(completed'[h]) : Home(k.task) = h
      BY <1>3, <1>5 DEF Lines
    <2>3. HomeOf' = HomeOf
      BY DEF HomeOf, Home
    <2> QED BY <1>3, <1>4, <1>13, <2>1, <2>2, <2>3 DEF Lines, Serves, Home
  <1>14. ASSUME \A j : FarmOf[j.task] # f => (Waits(j)' <=> Waits(j)),
                \A g \in Farm \ {f} : actors'[g] = actors[g],
                ~ stopped => InOrder(f)'
         PROVE  Ordered'
    <2>1. ASSUME ~ stopped, NEW g \in Farm, g # f
          PROVE  InOrder(g)'
      <3>1. Waiting(g)' = Waiting(g)
        BY <1>14, <2>1, SameWait
      <3>2. InOrder(g) /\ accepted'[g] = accepted[g] /\ ran'[g] = ran[g] /\ actors'[g] = actors[g]
        BY <1>3, <1>4, <1>14, <2>1 DEF Placed, Ordered
      <3> QED BY <3>1, <3>2 DEF InOrder
    <2> QED BY <1>4, <1>14, <2>1 DEF Ordered
  <1>15. ASSUME actors' \in [Farm -> ActorState], ready' \in Seq(Item), parked' \in Seq(Item),
                Len(ready') <= ReadyCap, Placed', actors'[f].life >= 1,
                \A g \in Farm \ {f} : actors'[g] = actors[g]
         PROVE  IInv'
    <2>1. /\ result' \in [Task -> {"none", "done", "busy"}]
          /\ \A t \in Task : result'[t] = "busy" => result[t] = "busy"
      BY <1>3, <1>4, <1>6, Delivered
    <2>2. TypeOK'
      BY <1>3, <1>4, <1>5, <1>15, <2>1 DEF TypeOK
    <2>3. Asked'
      BY <1>3, <1>4, <2>1, <2>2, AskedStands
    <2>4. NoActor.life = 0
      BY DEF NoActor, NewActor
    <2>5. Live' = Live
      BY <1>4, <1>5, <1>15, <2>4 DEF Live
    <2>6. Counted'
      BY <1>3, <1>4, <2>5, CountedStands
    <2> QED BY <1>15, <2>2, <2>3, <2>6 DEF IInv
  <1>16. ASSUME a.queue # <<>>, ~ stopped
         PROVE  accepted[f] = ran[f] \o <<next>> \o Tail(a.queue)
    <2>1. ran[f] \in Seq(Task)
      BY <1>3, <1>5, Types
    <2>2. \A r \in Seq(Task) : (r \o <<>>) \o a.queue = (r \o <<Head(a.queue)>>) \o Tail(a.queue)
      BY <1>8, <1>9, <1>16, TaskMoves
    <2> QED BY <1>11, <1>16, <1>2, <2>1, <2>2
  <1>17. CASE a.queue = <<>> /\ actors' = [actors EXCEPT ![f] = a] /\ UNCHANGED <<ready, parked>>
    <2>1. /\ actors' \in [Farm -> ActorState] /\ actors'[f] = a
          /\ \A g \in Farm \ {f} : actors'[g] = actors[g]
      BY <1>5, <1>6, <1>8, <1>17
    <2>2. Alive' /\ Current'
      <3>1. /\ FarmOf[c.task] = f /\ c.life = c.life /\ c.snapshot = c.snapshot
            /\ ToSet(ready') \subseteq ToSet(ready) \cup {c}
            /\ ToSet(parked') \subseteq ToSet(parked) \cup {c}
            /\ actors'[f].life = c.life /\ actors'[f].snapshot = c.snapshot
        BY <1>1, <1>8, <1>17, <2>1
      <3> QED BY <1>12, <2>1, <3>1
    <2>3. Lines'
      <3>1. ToSet(<<>>) = {}
        BY DEF ToSet
      <3>2. OnePer(FarmOf, ready') /\ OnePer(HomeOf, parked')
        BY <1>3, <1>17 DEF Lines
      <3>3. actors'[f].queue = <<>> /\ \A t \in ToSet(<<>>) : FarmOf[t] = f
        BY <1>17, <2>1, <3>1
      <3> QED BY <1>13, <2>1, <3>2, <3>3
    <2>4. OthersStand(f)
      BY <1>4, <1>5, <1>17, <2>1, Homes DEF OthersStand, AtWorker, Serves, Has
    <2>5. ~ Has(ready, f)' /\ ~ actors'[f].running /\ actors'[f].queue = <<>>
      BY <1>5, <1>8, <1>17, <2>1 DEF Has
    <2>6. Apart' /\ Marked'
      BY <1>3, <1>4, <1>5, <1>10, <2>4, <2>5, FarmSettles
    <2>7. Ordered'
      <3>1. \A j : Waits(j)' <=> Waits(j)
        BY <1>17 DEF Waits
      <3>2. Waiting(f)' = Waiting(f)
        BY <3>1, SameWait
      <3>3. ~ stopped => InOrder(f)
        BY <1>3, <1>5 DEF Placed, Ordered
      <3>4. accepted' = accepted /\ ran' = ran /\ actors'[f].queue = actors[f].queue
        BY <1>4, <1>8, <1>17, <2>1
      <3>5. ~ stopped => InOrder(f)'
        BY <3>2, <3>3, <3>4 DEF InOrder
      <3> QED BY <1>14, <2>1, <3>1, <3>5
    <2>8. Placed'
      BY <2>2, <2>3, <2>6, <2>7 DEF Placed
    <2>9. ready' \in Seq(Item) /\ parked' \in Seq(Item) /\ Len(ready') <= ReadyCap
          /\ actors'[f].life >= 1
      BY <1>3, <1>5, <1>6, <1>8, <1>17, <2>1 DEF TypeOK
    <2> QED BY <1>15, <2>1, <2>8, <2>9
  <1>18. CASE /\ a.queue # <<>> /\ Len(ready) < ReadyCap /\ ready' = Append(ready, i)
              /\ actors' = [actors EXCEPT ![f] = sent] /\ UNCHANGED parked
    <2>1. /\ actors' \in [Farm -> ActorState] /\ actors'[f] = sent
          /\ \A g \in Farm \ {f} : actors'[g] = actors[g]
      BY <1>5, <1>6, <1>9, <1>18
    <2>2. /\ ready' \in Seq(Item) /\ Len(ready') = Len(ready) + 1
          /\ ToSet(ready') = ToSet(ready) \cup {i}
          /\ \A g : Has(ready', g) <=> Has(ready, g) \/ g = f
          /\ OnePer(FarmOf, ready')
      <3>1. \A j \in ToSet(ready) : FarmOf[j.task] # FarmOf[i.task]
        BY <1>5, <1>9, <1>18 DEF Has
      <3> QED BY <1>3, <1>6, <1>9, <1>18, <3>1, Sent DEF Lines
    <2>3. Alive' /\ Current'
      <3>1. /\ FarmOf[i.task] = f /\ i.life = c.life /\ i.snapshot = c.snapshot
            /\ ToSet(ready') \subseteq ToSet(ready) \cup {i}
            /\ ToSet(parked') \subseteq ToSet(parked) \cup {i}
            /\ actors'[f].life = c.life /\ actors'[f].snapshot = c.snapshot
        BY <1>9, <1>18, <2>1, <2>2
      <3> QED BY <1>12, <2>1, <3>1
    <2>4. Lines'
      <3>1. OnePer(HomeOf, parked')
        BY <1>3, <1>18 DEF Lines
      <3>2. actors'[f].queue = Tail(a.queue) /\ \A t \in ToSet(Tail(a.queue)) : FarmOf[t] = f
        BY <1>9, <1>18, <2>1
      <3> QED BY <1>13, <2>1, <2>2, <3>1, <3>2
    <2>5. OthersStand(f)
      BY <1>4, <1>5, <1>18, <2>1, <2>2, Homes DEF OthersStand, AtWorker, Serves, Has
    <2>6. Has(ready, f)' /\ ~ Has(parked, f)' /\ actors'[f].running
      BY <1>5, <1>9, <1>18, <2>1, <2>2 DEF Has
    <2>7. Apart' /\ Marked'
      BY <1>3, <1>4, <1>5, <1>10, <2>5, <2>6, FarmSettles
    <2>8. Ordered'
      <3>1. \A j : FarmOf[j.task] # f => (Waits(j)' <=> Waits(j))
        BY <1>9, <1>18, <2>2 DEF Waits
      <3>2. Waits(i)' /\ \A j : Waits(j)' /\ FarmOf[j.task] = f => j = i
        BY <1>5, <1>18, <2>2 DEF Waits, Has
      <3>3. Waiting(f)' = {<<next>>}
        BY <1>9, <1>18, <3>2, OneWaitsNext
      <3>4. ASSUME ~ stopped
            PROVE  InOrder(f)'
        <4>1. accepted[f] = ran[f] \o <<next>> \o Tail(a.queue)
          BY <1>18, <1>16, <3>4
        <4>2. actors'[f].queue = Tail(a.queue) /\ accepted' = accepted /\ ran' = ran
          BY <1>4, <1>9, <1>18, <2>1
        <4> QED BY <3>3, <4>1, <4>2 DEF InOrder
      <3> QED BY <1>14, <2>1, <3>1, <3>4
    <2>9. Placed'
      BY <2>3, <2>4, <2>7, <2>8 DEF Placed
    <2>10. parked' \in Seq(Item) /\ Len(ready') <= ReadyCap /\ actors'[f].life >= 1
      <3>1. ReadyCap \in Nat /\ Len(ready) \in Nat
        BY <1>6, RuntimeAssumption
      <3> QED BY <1>5, <1>6, <1>9, <1>18, <2>1, <2>2, <3>1
    <2> QED BY <1>15, <2>1, <2>2, <2>9, <2>10
  <1>19. CASE /\ a.queue # <<>> /\ Len(ready) = ReadyCap /\ parked' = Append(parked, i)
              /\ actors' = [actors EXCEPT ![f] = rest] /\ UNCHANGED ready
    <2>1. /\ actors' \in [Farm -> ActorState] /\ actors'[f] = rest
          /\ \A g \in Farm \ {f} : actors'[g] = actors[g]
      BY <1>5, <1>6, <1>9, <1>19
    <2>2. /\ parked' \in Seq(Item)
          /\ ToSet(parked') = ToSet(parked) \cup {i}
          /\ \A g : Has(parked', g) <=> Has(parked, g) \/ g = f
          /\ OnePer(HomeOf, parked')
      <3>1. \A j \in ToSet(parked) : HomeOf[j.task] # HomeOf[i.task]
        <4>1. HomeOf[i.task] = sh
          BY <1>5, <1>9, <1>19, Homes DEF Home
        <4>2. \A j \in ToSet(parked) : Home(j.task) # sh
          BY <1>4 DEF AtSelect, Parked, ToSet
        <4> QED BY <1>3, <4>1, <4>2, Items, Homes
      <3> QED BY <1>3, <1>6, <1>9, <1>19, <3>1, Sent DEF Lines
    <2>3. Alive' /\ Current'
      <3>1. /\ FarmOf[i.task] = f /\ i.life = c.life /\ i.snapshot = c.snapshot
            /\ ToSet(ready') \subseteq ToSet(ready) \cup {i}
            /\ ToSet(parked') \subseteq ToSet(parked) \cup {i}
            /\ actors'[f].life = c.life /\ actors'[f].snapshot = c.snapshot
        BY <1>9, <1>19, <2>1, <2>2
      <3> QED BY <1>12, <2>1, <3>1
    <2>4. Lines'
      <3>1. OnePer(FarmOf, ready')
        BY <1>3, <1>19 DEF Lines
      <3>2. actors'[f].queue = Tail(a.queue) /\ \A t \in ToSet(Tail(a.queue)) : FarmOf[t] = f
        BY <1>9, <1>19, <2>1
      <3> QED BY <1>13, <2>1, <2>2, <3>1, <3>2
    <2>5. OthersStand(f)
      BY <1>4, <1>5, <1>19, <2>1, <2>2, Homes DEF OthersStand, AtWorker, Serves, Has
    <2>6. ~ Has(ready, f)' /\ Has(parked, f)' /\ ~ actors'[f].running
      BY <1>5, <1>9, <1>19, <2>1, <2>2 DEF Has
    <2>7. Apart' /\ Marked'
      BY <1>3, <1>4, <1>5, <1>10, <2>5, <2>6, FarmSettles
    <2>8. Ordered'
      <3>1. \A j : FarmOf[j.task] # f => (Waits(j)' <=> Waits(j))
        BY <1>9, <1>19, <2>2 DEF Waits
      <3>2. Waits(i)' /\ \A j : Waits(j)' /\ FarmOf[j.task] = f => j = i
        BY <1>5, <1>19, <2>2 DEF Waits, Has
      <3>3. Waiting(f)' = {<<next>>}
        BY <1>9, <1>19, <3>2, OneWaitsNext
      <3>4. ASSUME ~ stopped
            PROVE  InOrder(f)'
        <4>1. accepted[f] = ran[f] \o <<next>> \o Tail(a.queue)
          BY <1>19, <1>16, <3>4
        <4>2. actors'[f].queue = Tail(a.queue) /\ accepted' = accepted /\ ran' = ran
          BY <1>4, <1>9, <1>19, <2>1
        <4> QED BY <3>3, <4>1, <4>2 DEF InOrder
      <3> QED BY <1>14, <2>1, <3>1, <3>4
    <2>9. Placed'
      BY <2>3, <2>4, <2>7, <2>8 DEF Placed
    <2>10. ready' \in Seq(Item) /\ Len(ready') <= ReadyCap /\ actors'[f].life >= 1
      BY <1>3, <1>5, <1>6, <1>9, <1>19, <2>1 DEF TypeOK
    <2> QED BY <1>15, <2>1, <2>2, <2>9, <2>10
  <1> QED BY <1>7, <1>17, <1>18, <1>19

-----------------------------------------------------------------------------
(* A scheduler gives up a handoff, evicts an actor, fails what it holds.   *)

LEMMA CancelHandoffStep ==
    ASSUME IInv, NEW sh \in Shard, CancelHandoff(sh)
    PROVE  IInv'
  <1>1. TypeOK /\ Placed /\ Asked /\ Counted
    BY DEF IInv
  <1>2. PICK k \in DOMAIN parked :
          result' = Deliver(parked[k].task, "done") /\ parked' = RemoveAt(parked, k)
    BY DEF CancelHandoff
  <1>3. /\ stopped
        /\ UNCHANGED <<submitted, inbox, actors, activeActors, created, ready,
                       worker, completed, stopped, exited, accepted, ran, left>>
    BY DEF CancelHandoff
  <1>4. parked \in Seq(Item) /\ OnePer(HomeOf, parked) /\ parked[k].task \in Task
    <2>1. parked \in Seq(Item) /\ OnePer(HomeOf, parked)
      BY <1>1, Types DEF Placed, Lines
    <2>2. parked[k] \in Item
      BY <2>1
    <2> QED BY <2>1, <2>2 DEF Item
  <1>5. parked' \in Seq(Item) /\ ToSet(parked') \subseteq ToSet(parked) /\ OnePer(HomeOf, parked')
    BY <1>2, <1>4, Removed
  <1>6. /\ result' \in [Task -> {"none", "done", "busy"}]
        /\ \A t \in Task : result'[t] = "busy" => result[t] = "busy"
    BY <1>1, <1>2, <1>4, Delivered
  <1>7. TypeOK'
    BY <1>1, <1>3, <1>5, <1>6 DEF TypeOK
  <1>8. Asked' /\ Counted'
    BY <1>1, <1>3, <1>6, <1>7, AskedStands DEF Counted, Live
  <1>9. Placed'
    <2>1. HomeOf' = HomeOf
      BY DEF HomeOf, Home
    <2>2. Lines'
      BY <1>1, <1>3, <1>5, <2>1 DEF Placed, Lines, OnePer, Serves, Home
    <2>3. \A g : /\ Has(ready, g)' <=> Has(ready, g)
                 /\ AtWorker(g)' <=> AtWorker(g)
                 /\ Has(completed[ShardOf[g]], g)' <=> Has(completed[ShardOf[g]], g)
                 /\ Has(parked, g)' => Has(parked, g)
      BY <1>3, <1>5 DEF Has, AtWorker, Serves
    <2>4. \A g : Dispatched(g)' <=> Dispatched(g)
      BY <2>3 DEF Dispatched
    <2>5. Apart'
      BY <1>1, <1>3, <2>3, <2>4 DEF Placed, Apart
    <2>6. Marked' /\ Ordered'
      BY <1>3 DEF Marked, Ordered
    <2>7. Alive' /\ Current'
      BY <1>1, <1>3, <1>5 DEF Placed, Alive, Current
    <2> QED BY <2>2, <2>5, <2>6, <2>7 DEF Placed
  <1> QED BY <1>7, <1>8, <1>9 DEF IInv

LEMMA EvictIdleStep ==
    ASSUME IInv, NEW sh \in Shard, EvictIdle(sh)
    PROVE  IInv'
  <1>1. TypeOK /\ Placed /\ Asked /\ Counted /\ Lines /\ Apart /\ Marked
    BY DEF IInv, Placed
  <1>2. PICK f \in Farm :
          /\ ShardOf[f] = sh /\ actors[f] # NoActor
          /\ ~ actors[f].running /\ actors[f].queue = <<>>
          /\ actors' = [actors EXCEPT ![f] = NoActor]
    BY DEF EvictIdle
  <1>3. /\ AtSelect(sh) /\ activeActors' = activeActors - 1
        /\ UNCHANGED <<submitted, result, inbox, created, ready, parked, worker,
                       completed, stopped, exited, accepted, ran, left>>
    BY DEF EvictIdle
  <1>4. ~ Has(ready, f) /\ ~ AtWorker(f) /\ ~ Has(completed[ShardOf[f]], f) /\ ~ Has(parked, f)
    BY <1>1, <1>2, <1>3, NothingOut
  <1>5. /\ NoActor \in ActorState /\ ~ NoActor.running /\ NoActor.queue = <<>>
        /\ NoActor.snapshot = Cold
    <2>1. <<>> \in Seq(Task) /\ Cold \in Version
      BY DEF Version
    <2> QED BY <2>1 DEF NoActor, NewActor, ActorState
  <1>6. /\ actors' \in [Farm -> ActorState] /\ actors'[f] = NoActor
        /\ \A g \in Farm \ {f} : actors'[g] = actors[g]
    BY <1>1, <1>2, <1>5, Types
  <1>7. Counted' /\ activeActors' \in Nat
    <2>1. f \in Live /\ Live' = Live \ {f}
      BY <1>2, <1>3, <1>6 DEF Live, AtSelect
    <2>2. IsFiniteSet(Live) /\ activeActors = Cardinality(Live)
      BY <1>1 DEF Counted
    <2>3. IsFiniteSet(Live') /\ Cardinality(Live') = Cardinality(Live) - 1
      BY <2>1, <2>2, FS_RemoveElement
    <2>4. activeActors' = Cardinality(Live') /\ activeActors' \in Nat
      BY <1>3, <2>2, <2>3, FS_CardinalityType
    <2>5. activeActors' <= MaxActiveActors
      BY <1>1, <1>3, RuntimeAssumption, Types DEF Counted
    <2> QED BY <2>3, <2>4, <2>5 DEF Counted
  <1>8. TypeOK'
    BY <1>1, <1>3, <1>6, <1>7 DEF TypeOK
  <1>9. Asked'
    BY <1>1, <1>3, <1>8, AskedStands
  <1>10. Lines'
    <2>1. \A g \in Farm : actors'[g].queue = actors[g].queue
      BY <1>2, <1>5, <1>6
    <2>2. HomeOf' = HomeOf
      BY DEF HomeOf, Home
    <2> QED BY <1>1, <1>3, <2>1, <2>2 DEF Lines, OnePer, Serves, Home
  <1>11. Apart' /\ Marked'
    <2>1. OthersStand(f)
      BY <1>3, <1>6 DEF OthersStand, AtWorker, Serves, Has
    <2>2. ~ Has(ready, f)' /\ ~ AtWorker(f)' /\ ~ Has(completed[ShardOf[f]], f)'
      BY <1>3, <1>4 DEF Has, AtWorker, Serves
    <2>3. ~ actors'[f].running /\ actors'[f].queue = <<>>
      BY <1>5, <1>6
    <2> QED BY <1>1, <1>3, <2>1, <2>2, <2>3, FarmSettles
  <1>12. Alive' /\ Current'
    <2>1. \A i \in ToSet(ready) \cup ToSet(parked) \cup UNION {ToSet(completed[h]) : h \in Shard} :
            FarmOf[i.task] \in Farm \ {f}
      <3>1. \A i \in ToSet(ready) \cup ToSet(parked) : FarmOf[i.task] # f
        BY <1>4 DEF Has
      <3>2. \A h \in Shard : \A i \in ToSet(completed[h]) : FarmOf[i.task] # f
        BY <1>1, <1>2, <1>4 DEF Has, Lines, Home
      <3> QED BY <1>1, <3>1, <3>2, Items
    <2>2. \A w \in Worker : worker[w].step \in {"run", "done"} => FarmOf[worker[w].task] \in Farm \ {f}
      BY <1>1, <1>4, Homes DEF AtWorker, Serves, Lines
    <2>3. Alive'
      <3>1. \A g \in Farm : actors'[g] = NoActor \/ actors'[g].life >= 1
        BY <1>1, <1>6 DEF Placed, Alive
      <3>2. \A i \in ToSet(ready) \cup ToSet(parked)
                \cup UNION {ToSet(completed[h]) : h \in Shard} :
              i.life >= 1 /\ i.life = actors'[FarmOf[i.task]].life
        BY <1>1, <1>6, <2>1 DEF Placed, Alive
      <3>3. \A w \in Worker : worker[w].step \in {"run", "done"} =>
              worker[w].life >= 1 /\ worker[w].life = actors'[FarmOf[worker[w].task]].life
        BY <1>1, <1>6, <2>2 DEF Placed, Alive
      <3> QED BY <1>3, <3>1, <3>2, <3>3 DEF Alive
    <2>4. \A g \in Farm : ~ actors'[g].running => actors'[g].snapshot \in {Cold, left[g]}
      BY <1>1, <1>5, <1>6 DEF Placed, Current
    <2>5. Current'
      BY <1>1, <1>3, <2>4 DEF Placed, Current
    <2> QED BY <2>3, <2>5
  <1>13. Ordered'
    <2>1. \A g : Waiting(g)' = Waiting(g)
      BY <1>3, SameWait DEF Waits
    <2>2. \A g \in Farm : actors'[g].queue = actors[g].queue
      BY <1>2, <1>5, <1>6
    <2> QED BY <1>1, <1>3, <2>1, <2>2 DEF Placed, Ordered, InOrder
  <1>14. Placed'
    BY <1>10, <1>11, <1>12, <1>13 DEF Placed
  <1> QED BY <1>7, <1>8, <1>9, <1>14 DEF IInv

LEMMA FailAllStep ==
    ASSUME IInv, NEW sh \in Shard, FailAll(sh)
    PROVE  IInv'
  <1> DEFINE mine == {f \in Farm : ShardOf[f] = sh /\ actors[f] # NoActor}
  <1>1. TypeOK /\ Placed /\ Asked /\ Counted
    BY DEF IInv
  <1>2. /\ AtSelect(sh) /\ exited' = exited \cup {sh}
        /\ activeActors' = activeActors - Cardinality(mine)
        /\ inbox' = [inbox EXCEPT ![sh] = <<>>]
        /\ UNCHANGED <<submitted, actors, created, ready, parked, worker, completed,
                       stopped, accepted, ran, left>>
    BY DEF FailAll
  <1>3. /\ result' \in [Task -> {"none", "done", "busy"}]
        /\ \A t \in Task : result'[t] = "busy" => result[t] = "busy"
    <2>1. PICK held : result' = [t \in Task |->
              IF t \in held /\ result[t] = "none" THEN "done" ELSE result[t]]
      BY DEF FailAll
    <2> QED BY <1>1, <2>1 DEF TypeOK
  <1>4. /\ inbox' \in [Shard -> Seq(Task)] /\ inbox'[sh] = <<>>
        /\ \A h \in Shard \ {sh} : inbox'[h] = inbox[h]
    <2>1. <<>> \in Seq(Task) /\ inbox \in [Shard -> Seq(Task)]
      BY <1>1, Types
    <2> QED BY <1>2, <2>1
  <1>5. Counted' /\ activeActors' \in Nat
    <2>1. Live' = Live \ mine /\ Live \cap mine = mine
      BY <1>2 DEF Live, AtSelect
    <2>2. IsFiniteSet(Live) /\ activeActors = Cardinality(Live) /\ activeActors <= MaxActiveActors
      BY <1>1 DEF Counted
    <2>3. IsFiniteSet(Live') /\ Cardinality(Live') = Cardinality(Live) - Cardinality(mine)
      BY <2>1, <2>2, FS_Difference
    <2>4. IsFiniteSet(mine)
      BY <2>1, <2>2, FS_Subset
    <2>5. activeActors' = Cardinality(Live') /\ activeActors' \in Nat /\ Cardinality(mine) \in Nat
          /\ activeActors \in Nat
      BY <1>2, <2>2, <2>3, <2>4, FS_CardinalityType
    <2>6. activeActors' <= MaxActiveActors
      BY <1>2, <2>2, <2>5, RuntimeAssumption
    <2> QED BY <2>3, <2>5, <2>6 DEF Counted
  <1>6. TypeOK'
    <2>1. \A h \in Shard : Len(inbox'[h]) <= IngressCap /\ Len(completed[h]) <= Cardinality(Worker)
      <3>1. Len(<<>>) <= IngressCap
        BY RuntimeAssumption
      <3>2. \A h \in Shard : Len(inbox'[h]) <= IngressCap
        BY <1>1, <1>4, <3>1 DEF TypeOK
      <3> QED BY <1>1, <3>2 DEF TypeOK
    <2>2. exited' \subseteq Shard
      BY <1>1, <1>2 DEF TypeOK
    <2> QED BY <1>1, <1>2, <1>3, <1>4, <1>5, <2>1, <2>2 DEF TypeOK
  <1>7. Placed'
    BY <1>1, <1>2, PlacedStands
  <1>8. Asked'
    <2>1. \A t \in Task : Pending(t) => Pending(t)'
      BY <1>2, <1>3 DEF Pending
    <2>2. \A h \in Shard : \A k \in DOMAIN inbox'[h] : (Home(inbox[h][k]) = h /\ Pending(inbox[h][k]))'
      <3>1. ASSUME NEW h \in Shard \ {sh}, NEW k \in DOMAIN inbox'[h]
            PROVE  (Home(inbox[h][k]) = h /\ Pending(inbox[h][k]))'
        <4>1. inbox[h][k] \in Task /\ Home(inbox[h][k]) = h /\ Pending(inbox[h][k])
          BY <1>1, <1>4, Types DEF Asked
        <4> QED BY <1>4, <2>1, <4>1 DEF Home
      <3> QED BY <1>4, <3>1
    <2>3. \A h \in Shard : \A k, l \in DOMAIN inbox'[h] : inbox'[h][k] = inbox'[h][l] => k = l
      BY <1>1, <1>4 DEF Asked
    <2>4. \A f \in Farm : \A t \in ToSet(accepted[f]) :
            FarmOf[t] = f /\ t \in submitted /\ result'[t] # "busy"
      <3>1. \A f \in Farm : \A t \in ToSet(accepted[f]) : t \in Task
        BY <1>1 DEF TypeOK, ToSet
      <3> QED BY <1>1, <1>3, <3>1 DEF Asked
    <2>5. \A t \in Task : result'[t] = "busy" => t \in submitted
      BY <1>1, <1>3 DEF Asked
    <2> QED BY <1>2, <2>2, <2>3, <2>4, <2>5 DEF Asked
  <1> QED BY <1>5, <1>6, <1>7, <1>8 DEF IInv

-----------------------------------------------------------------------------
(* A worker.                                                               *)

\* The farm of a task at a worker is nowhere else.
LEMMA AtWork ==
    ASSUME TypeOK, Placed, NEW w \in Worker, worker[w].step \in {"run", "done"}
    PROVE  LET f == FarmOf[worker[w].task]
           IN  /\ worker[w].task \in Task /\ f \in Farm /\ actors[f].running
               /\ ~ Has(ready, f) /\ ~ Has(completed[ShardOf[f]], f) /\ ~ Has(parked, f)
               /\ \A v \in Worker : Serves(v, f) <=> v = w
               /\ worker[w].life >= 1 /\ worker[w].life = actors[f].life
               /\ \A h \in Shard : \A i \in ToSet(completed[h]) : FarmOf[i.task] # f
  <1> DEFINE f == FarmOf[worker[w].task]
  <1>1. worker[w].task \in Task /\ f \in Farm /\ Serves(w, f)
    BY Homes DEF Placed, Lines, Serves
  <1> HIDE DEF f
  <1>2. AtWorker(f)
    BY <1>1 DEF AtWorker
  <1>3. actors[f].running /\ ~ Has(ready, f) /\ ~ Has(completed[ShardOf[f]], f) /\ ~ Has(parked, f)
    BY <1>1, <1>2 DEF Placed, Apart, Dispatched
  <1>4. \A v \in Worker : Serves(v, f) <=> v = w
    BY <1>1 DEF Placed, Lines
  <1>5. \A h \in Shard : \A i \in ToSet(completed[h]) : FarmOf[i.task] # f
    BY <1>3 DEF Has, Placed, Lines, Home
  <1> QED BY <1>1, <1>3, <1>4, <1>5 DEF f, Placed, Alive

LEMMA ExecuteStep ==
    ASSUME IInv, NEW w \in Worker, Execute(w)
    PROVE  IInv'
  <1>1. TypeOK /\ Placed /\ Asked /\ Counted
    BY DEF IInv
  <1>2. PICK f, n : /\ f = FarmOf[worker[w].task]
                    /\ n \in {Cold, worker[w].snapshot, Len(ran[f])}
                    /\ worker' = [worker EXCEPT ![w].step = "done", ![w].snapshot = n]
                    /\ left' = [left EXCEPT ![f] = n]
    BY DEF Execute
  <1>3. /\ worker[w].step = "run"
        /\ UNCHANGED <<submitted, result, inbox, actors, activeActors, created,
                       ready, parked, completed, stopped, exited, accepted, ran>>
    BY DEF Execute
  <1>4. /\ worker[w].task \in Task /\ f \in Farm /\ actors[f].running
        /\ ~ Has(ready, f) /\ ~ Has(parked, f)
        /\ \A v \in Worker : Serves(v, f) <=> v = w
        /\ \A h \in Shard : \A i \in ToSet(completed[h]) : FarmOf[i.task] # f
    BY <1>1, <1>2, <1>3, AtWork
  <1>5. n \in Version
    <2>1. ran[f] \in Seq(Task) /\ worker[w].snapshot \in Version
      BY <1>1, <1>4 DEF TypeOK
    <2> QED BY <1>2, <2>1 DEF Version
  <1>6. /\ \A v \in Worker \ {w} : worker'[v] = worker[v]
        /\ worker'[w].step = "done" /\ worker'[w].snapshot = n
        /\ worker'[w].task = worker[w].task /\ worker'[w].life = worker[w].life
        /\ worker' \in [Worker -> [step : {"idle", "run", "done", "exited"},
                                   task : Task \cup {NoTask}, life : Nat, snapshot : Version]]
    BY <1>1, <1>2, <1>5 DEF TypeOK
  <1>7. /\ left' \in [Farm -> Version] /\ left'[f] = n
        /\ \A g \in Farm \ {f} : left'[g] = left[g]
    <2>1. left \in [Farm -> Version]
      BY <1>1, Types
    <2> QED BY <1>2, <1>4, <1>5, <2>1
  <1>8. TypeOK'
    BY <1>1, <1>3, <1>6, <1>7 DEF TypeOK
  <1>9. Asked' /\ Counted'
    BY <1>1, <1>3, <1>8, AskedStands DEF Counted, Live
  <1>10. \A v \in Worker : \A g : Serves(v, g)' <=> Serves(v, g)
    BY <1>3, <1>6 DEF Serves
  <1>11. Lines'
    <2>1. HomeOf' = HomeOf
      BY DEF HomeOf, Home
    <2>2. \A v \in Worker : worker'[v].step \in {"run", "done"} => worker'[v].task \in Task
      BY <1>1, <1>4, <1>6 DEF Placed, Lines
    <2> QED BY <1>1, <1>3, <1>10, <2>1, <2>2 DEF Placed, Lines, OnePer, Home
  <1>12. Apart' /\ Marked'
    <2>1. \A g : /\ Has(ready, g)' <=> Has(ready, g)
                 /\ AtWorker(g)' <=> AtWorker(g)
                 /\ Has(completed[ShardOf[g]], g)' <=> Has(completed[ShardOf[g]], g)
                 /\ Has(parked, g)' <=> Has(parked, g)
      BY <1>3, <1>10 DEF Has, AtWorker
    <2>2. \A g : Dispatched(g)' <=> Dispatched(g)
      BY <2>1 DEF Dispatched
    <2> QED BY <1>1, <1>3, <2>1, <2>2 DEF Placed, Apart, Marked
  <1>13. Alive'
    <2>1. \A v \in Worker : worker'[v].step \in {"run", "done"} =>
            worker'[v].life >= 1 /\ worker'[v].life = actors[FarmOf[worker'[v].task]].life
      BY <1>1, <1>3, <1>6 DEF Placed, Alive
    <2> QED BY <1>1, <1>3, <2>1 DEF Placed, Alive
  <1>14. Current'
    <2>1. \A i \in ToSet(ready) \cup ToSet(parked) : i.snapshot \in {Cold, left'[FarmOf[i.task]]}
      <3>1. \A i \in ToSet(ready) \cup ToSet(parked) : FarmOf[i.task] \in Farm \ {f}
        BY <1>1, <1>4, Items DEF Has
      <3> QED BY <1>1, <1>7, <3>1 DEF Placed, Current
    <2>2. ASSUME NEW v \in Worker
          PROVE  /\ worker'[v].step = "run" =>
                        worker'[v].snapshot \in {Cold, left'[FarmOf[worker'[v].task]]}
                 /\ worker'[v].step = "done" =>
                        worker'[v].snapshot = left'[FarmOf[worker'[v].task]]
      <3>1. CASE v = w
        BY <1>2, <1>6, <1>7, <3>1
      <3>2. CASE v # w
        <4>1. worker[v].step \in {"run", "done"} => FarmOf[worker[v].task] \in Farm \ {f}
          BY <1>1, <1>4, <3>2, Homes DEF Placed, Lines, Serves
        <4> QED BY <1>1, <1>6, <1>7, <3>2, <4>1 DEF Placed, Current
      <3> QED BY <3>1, <3>2
    <2>3. \A h \in Shard : \A i \in ToSet(completed[h]) : i.snapshot = left'[FarmOf[i.task]]
      <3>1. \A h \in Shard : \A i \in ToSet(completed[h]) : FarmOf[i.task] \in Farm \ {f}
        BY <1>1, <1>4, Items
      <3> QED BY <1>1, <1>7, <3>1 DEF Placed, Current
    <2>4. \A g \in Farm : ~ actors[g].running => actors[g].snapshot \in {Cold, left'[g]}
      BY <1>1, <1>4, <1>7 DEF Placed, Current
    <2> QED BY <1>3, <2>1, <2>2, <2>3, <2>4 DEF Current
  <1>15. Ordered'
    <2>1. \A g : Waiting(g)' = Waiting(g)
      BY <1>3, SameWait DEF Waits
    <2> QED BY <1>1, <1>3, <2>1 DEF Placed, Ordered, InOrder
  <1>16. Placed'
    BY <1>11, <1>12, <1>13, <1>14, <1>15 DEF Placed
  <1> QED BY <1>8, <1>9, <1>16 DEF IInv

LEMMA ReturnStep ==
    ASSUME IInv, NEW w \in Worker, Return(w)
    PROVE  IInv'
  <1>1. TypeOK /\ Placed /\ Asked /\ Counted /\ Lines /\ Apart /\ Marked
    BY DEF IInv, Placed
  <1>2. PICK c, f, sh, i : /\ c = worker[w] /\ f = FarmOf[c.task] /\ sh = Home(c.task)
                           /\ i = [task |-> c.task, life |-> c.life, snapshot |-> c.snapshot]
    OBVIOUS
  <1>3. /\ c.step = "done"
        /\ worker' = [worker EXCEPT ![w] = Idle]
        /\ UNCHANGED <<submitted, inbox, actors, activeActors, created, ready,
                       parked, stopped, exited, accepted, ran, left>>
        /\ \/ /\ Len(completed[sh]) < Cardinality(Worker)
              /\ completed' = [completed EXCEPT ![sh] = Append(@, i)]
              /\ UNCHANGED result
           \/ /\ stopped
              /\ result' = Deliver(c.task, "done")
              /\ UNCHANGED completed
    BY <1>2 DEF Return
  <1>4. /\ c.task \in Task /\ f \in Farm /\ actors[f].running
        /\ ~ Has(ready, f) /\ ~ Has(completed[ShardOf[f]], f) /\ ~ Has(parked, f)
        /\ \A v \in Worker : Serves(v, f) <=> v = w
        /\ c.life >= 1 /\ c.life = actors[f].life
        /\ \A h \in Shard : \A j \in ToSet(completed[h]) : FarmOf[j.task] # f
    BY <1>1, <1>2, <1>3, AtWork
  <1>5. sh = ShardOf[f] /\ sh \in Shard /\ c.snapshot = left[f]
        /\ c.life \in Nat /\ c.snapshot \in Version
    BY <1>1, <1>2, <1>3, <1>4, Homes DEF Home, Placed, Current, TypeOK
  <1>6. i \in Item /\ i.task = c.task /\ i.life = c.life /\ i.snapshot = c.snapshot
    BY <1>2, <1>4, <1>5 DEF Item
  <1>7. /\ \A v \in Worker \ {w} : worker'[v] = worker[v]
        /\ worker'[w].step = "idle"
        /\ worker' \in [Worker -> [step : {"idle", "run", "done", "exited"},
                                   task : Task \cup {NoTask}, life : Nat, snapshot : Version]]
    <2>1. /\ Idle \in [step : {"idle", "run", "done", "exited"},
                       task : Task \cup {NoTask}, life : Nat, snapshot : Version]
          /\ Idle.step = "idle"
      BY DEF Idle, Version
    <2> QED BY <1>1, <1>3, <2>1 DEF TypeOK
  <1>8. /\ result' \in [Task -> {"none", "done", "busy"}]
        /\ \A t \in Task : result'[t] = "busy" => result[t] = "busy"
    BY <1>1, <1>3, <1>4, Delivered DEF TypeOK
  <1>9. /\ completed' \in [Shard -> Seq(Item)]
        /\ \A h \in Shard : Len(completed'[h]) <= Cardinality(Worker)
        /\ \A h \in Shard : OnePer(FarmOf, completed'[h])
        /\ \A h \in Shard : ToSet(completed'[h]) \subseteq
               ToSet(completed[h]) \cup (IF h = sh THEN {i} ELSE {})
        /\ \A g : g # f => \A h \in Shard : Has(completed'[h], g) <=> Has(completed[h], g)
        /\ ~ stopped => Has(completed'[sh], f)
    <2>1. completed \in [Shard -> Seq(Item)] /\ completed[sh] \in Seq(Item)
          /\ OnePer(FarmOf, completed[sh])
      BY <1>1, <1>5, Types DEF Lines
    <2>2. CASE /\ Len(completed[sh]) < Cardinality(Worker)
               /\ completed' = [completed EXCEPT ![sh] = Append(@, i)]
      <3> DEFINE s == Append(completed[sh], i)
      <3>1. /\ s \in Seq(Item) /\ Len(s) = Len(completed[sh]) + 1
            /\ ToSet(s) = ToSet(completed[sh]) \cup {i}
            /\ \A g : Has(s, g) <=> Has(completed[sh], g) \/ g = f
            /\ OnePer(FarmOf, s)
        <4>1. FarmOf[i.task] = f /\ \A j \in ToSet(completed[sh]) : FarmOf[j.task] # FarmOf[i.task]
          BY <1>2, <1>4, <1>5, <1>6
        <4> QED BY <1>6, <2>1, <4>1, Sent
      <3>2. completed'[sh] = s /\ \A h \in Shard \ {sh} : completed'[h] = completed[h]
        BY <1>5, <2>1, <2>2
      <3> HIDE DEF s
      <3>3. Len(s) <= Cardinality(Worker)
        <4>1. Cardinality(Worker) \in Nat /\ Len(completed[sh]) \in Nat
          BY <2>1, RuntimeAssumption, FS_CardinalityType
        <4> QED BY <2>2, <3>1, <4>1
      <3>4. completed' \in [Shard -> Seq(Item)]
        BY <1>5, <1>6, <2>1, <2>2
      <3>5. /\ \A h \in Shard : Len(completed'[h]) <= Cardinality(Worker)
            /\ \A h \in Shard : OnePer(FarmOf, completed'[h])
        BY <1>1, <3>1, <3>2, <3>3 DEF TypeOK, Lines
      <3> QED BY <3>1, <3>2, <3>4, <3>5
    <2>3. CASE stopped /\ UNCHANGED completed
      BY <1>1, <2>1, <2>3 DEF TypeOK, Lines
    <2> QED BY <1>3, <2>2, <2>3
  <1>10. TypeOK'
    BY <1>1, <1>3, <1>7, <1>8, <1>9 DEF TypeOK
  <1>11. Asked' /\ Counted'
    BY <1>1, <1>3, <1>8, <1>10, AskedStands DEF Counted, Live
  <1>12. \A v \in Worker : \A g : Serves(v, g)' <=> v # w /\ Serves(v, g)
    BY <1>3, <1>7 DEF Serves
  <1>13. ~ AtWorker(f)' /\ \A g : g # f => (AtWorker(g)' <=> AtWorker(g))
    <2>1. ~ AtWorker(f)'
      BY <1>4, <1>12 DEF AtWorker
    <2>2. \A g : Serves(w, g) => g = f
      BY <1>2 DEF Serves
    <2>3. \A g : g # f => (AtWorker(g)' <=> AtWorker(g))
      BY <1>12, <2>2 DEF AtWorker
    <2> QED BY <2>1, <2>3
  <1>14. Lines'
    <2>1. HomeOf' = HomeOf
      BY DEF HomeOf, Home
    <2>2. \A h \in Shard : \A j \in ToSet(completed'[h]) : Home(j.task) = h
      BY <1>1, <1>2, <1>6, <1>9 DEF Lines
    <2>3. \A v \in Worker : worker'[v].step \in {"run", "done"} => worker'[v].task \in Task
      BY <1>1, <1>7 DEF Lines
    <2>4. \A g \in Farm : \A u, v \in Worker : Serves(u, g)' /\ Serves(v, g)' => u = v
      BY <1>1, <1>12 DEF Lines
    <2> QED BY <1>1, <1>3, <1>9, <2>1, <2>2, <2>3, <2>4 DEF Lines, OnePer, Home
  <1>15. Apart' /\ Marked'
    <2>1. OthersStand(f)
      BY <1>3, <1>9, <1>13, Homes DEF OthersStand, Has
    <2>2. ~ Has(ready, f)' /\ ~ Has(parked, f)' /\ actors'[f].running
      BY <1>3, <1>4 DEF Has
    <2>3. CASE ~ stopped
      <3>1. Has(completed[ShardOf[f]], f)'
        BY <1>5, <1>9, <2>3 DEF Has
      <3> QED BY <1>1, <1>3, <1>4, <1>13, <2>1, <2>2, <3>1, FarmSettles
    <2>4. CASE stopped
      <3>1. Marked'
        BY <1>3, <2>4 DEF Marked
      <3>2. ASSUME NEW g \in Farm
            PROVE  (/\ Has(ready, g) => ~ AtWorker(g) /\ ~ Has(completed[ShardOf[g]], g)
                    /\ AtWorker(g) => ~ Has(completed[ShardOf[g]], g)
                    /\ Dispatched(g) => actors[g].running
                    /\ Has(parked, g) => ~ actors[g].running)'
        <4>1. CASE g = f
          BY <1>13, <2>2, <4>1
        <4>2. CASE g # f
          BY <1>1, <2>1, <4>2 DEF OthersStand, Apart, Dispatched
        <4> QED BY <4>1, <4>2
      <3>3. Apart'
        BY <3>2 DEF Apart
      <3> QED BY <3>1, <3>3
    <2> QED BY <2>3, <2>4
  <1>16. Alive' /\ Current'
    <2>1. \A j \in ToSet(ready) \cup ToSet(parked) \cup UNION {ToSet(completed'[h]) : h \in Shard} :
            j.life >= 1 /\ j.life = actors[FarmOf[j.task]].life
      <3>1. i.life >= 1 /\ i.life = actors[FarmOf[i.task]].life
        BY <1>2, <1>4, <1>6
      <3> QED BY <1>1, <1>9, <3>1 DEF Placed, Alive
    <2>2. \A v \in Worker : worker'[v].step \in {"run", "done"} =>
            worker'[v].life >= 1 /\ worker'[v].life = actors[FarmOf[worker'[v].task]].life
      BY <1>1, <1>7 DEF Placed, Alive
    <2>3. Alive'
      BY <1>1, <1>3, <2>1, <2>2 DEF Placed, Alive
    <2>4. \A h \in Shard : \A j \in ToSet(completed'[h]) : j.snapshot = left[FarmOf[j.task]]
      <3>1. i.snapshot = left[FarmOf[i.task]]
        BY <1>2, <1>5, <1>6
      <3> QED BY <1>1, <1>9, <3>1 DEF Placed, Current
    <2>5. \A v \in Worker :
            /\ worker'[v].step = "run" => worker'[v].snapshot \in {Cold, left[FarmOf[worker'[v].task]]}
            /\ worker'[v].step = "done" => worker'[v].snapshot = left[FarmOf[worker'[v].task]]
      BY <1>1, <1>7 DEF Placed, Current
    <2>6. Current'
      BY <1>1, <1>3, <2>4, <2>5 DEF Placed, Current
    <2> QED BY <2>3, <2>6
  <1>17. Ordered'
    <2>1. \A g : Waiting(g)' = Waiting(g)
      BY <1>3, SameWait DEF Waits
    <2> QED BY <1>1, <1>3, <2>1 DEF Placed, Ordered, InOrder
  <1>18. Placed'
    BY <1>14, <1>15, <1>16, <1>17 DEF Placed
  <1> QED BY <1>10, <1>11, <1>18 DEF IInv

LEMMA ExitStep ==
    ASSUME IInv, NEW w \in Worker, Exit(w)
    PROVE  IInv'
  <1>1. TypeOK /\ Placed /\ Asked /\ Counted
    BY DEF IInv
  <1>2. /\ worker[w].step = "idle" /\ worker' = [worker EXCEPT ![w].step = "exited"]
        /\ UNCHANGED <<submitted, result, inbox, actors, activeActors, created,
                       ready, parked, completed, stopped, exited, accepted, ran, left>>
    BY DEF Exit, Idle
  <1>3. /\ \A v \in Worker \ {w} : worker'[v] = worker[v]
        /\ worker'[w].step = "exited"
        /\ worker' \in [Worker -> [step : {"idle", "run", "done", "exited"},
                                   task : Task \cup {NoTask}, life : Nat, snapshot : Version]]
    BY <1>1, <1>2 DEF TypeOK
  <1>4. TypeOK'
    BY <1>1, <1>2, <1>3 DEF TypeOK
  <1>5. Asked' /\ Counted'
    BY <1>1, <1>2, <1>4, AskedStands DEF Counted, Live
  <1>6. \A v \in Worker : \A g : Serves(v, g)' <=> Serves(v, g)
    BY <1>2, <1>3 DEF Serves
  <1>7. Lines'
    <2>1. HomeOf' = HomeOf
      BY DEF HomeOf, Home
    <2> QED BY <1>1, <1>2, <1>3, <1>6, <2>1 DEF Placed, Lines, OnePer, Home
  <1>8. Apart' /\ Marked'
    <2>1. \A g : /\ Has(ready, g)' <=> Has(ready, g)
                 /\ AtWorker(g)' <=> AtWorker(g)
                 /\ Has(completed[ShardOf[g]], g)' <=> Has(completed[ShardOf[g]], g)
                 /\ Has(parked, g)' <=> Has(parked, g)
      BY <1>2, <1>6 DEF Has, AtWorker
    <2>2. \A g : Dispatched(g)' <=> Dispatched(g)
      BY <2>1 DEF Dispatched
    <2> QED BY <1>1, <1>2, <2>1, <2>2 DEF Placed, Apart, Marked
  <1>9. Alive' /\ Current'
    BY <1>1, <1>2, <1>3 DEF Placed, Alive, Current
  <1>10. Ordered'
    <2>1. \A g : Waiting(g)' = Waiting(g)
      BY <1>2, SameWait DEF Waits
    <2> QED BY <1>1, <1>2, <2>1 DEF Placed, Ordered, InOrder
  <1>11. Placed'
    BY <1>7, <1>8, <1>9, <1>10 DEF Placed
  <1> QED BY <1>4, <1>5, <1>11 DEF IInv

LEMMA TakeStep ==
    ASSUME IInv, NEW w \in Worker, Take(w)
    PROVE  IInv'
  <1>1. TypeOK /\ Placed /\ Asked /\ Counted /\ Lines /\ Apart /\ Marked
    BY DEF IInv, Placed
  <1>2. PICK i, f : i = Head(ready) /\ f = FarmOf[i.task]
    OBVIOUS
  <1>3. /\ worker[w].step = "idle" /\ ready # <<>>
        /\ worker' = [worker EXCEPT ![w] = [step |-> "run", task |-> i.task, life |-> i.life,
                                            snapshot |-> i.snapshot]]
        /\ ran' = [ran EXCEPT ![f] = Append(@, i.task)]
        /\ UNCHANGED <<submitted, result, inbox, activeActors, created, completed,
                       stopped, exited, accepted, left>>
    BY <1>2 DEF Take
  <1>4. ready \in Seq(Item) /\ parked \in Seq(Item) /\ actors \in [Farm -> ActorState]
    BY <1>1, Types
  <1>5. /\ i \in Item /\ Tail(ready) \in Seq(Item) /\ Len(Tail(ready)) = Len(ready) - 1
        /\ ToSet(ready) = ToSet(Tail(ready)) \cup {i}
        /\ \A j \in ToSet(Tail(ready)) : FarmOf[j.task] # f
        /\ OnePer(FarmOf, Tail(ready))
    BY <1>1, <1>2, <1>3, <1>4, Received DEF Lines
  <1>6. i.task \in Task /\ i.life \in Nat /\ i.snapshot \in Version /\ f \in Farm
    BY <1>2, <1>5, Homes DEF Item
  <1>7. /\ i.life >= 1 /\ i.life = actors[f].life /\ i.snapshot \in {Cold, left[f]}
        /\ actors[f].running
        /\ ~ AtWorker(f) /\ ~ Has(completed[ShardOf[f]], f) /\ ~ Has(parked, f)
    <2>1. i \in ToSet(ready) /\ Has(ready, f)
      BY <1>2, <1>5 DEF Has
    <2> QED BY <1>1, <1>2, <1>6, <2>1 DEF Placed, Alive, Current, Apart, Dispatched
  <1>8. /\ \A v \in Worker \ {w} : worker'[v] = worker[v]
        /\ worker'[w].step = "run" /\ worker'[w].task = i.task /\ worker'[w].life = i.life
        /\ worker'[w].snapshot = i.snapshot
        /\ worker' \in [Worker -> [step : {"idle", "run", "done", "exited"},
                                   task : Task \cup {NoTask}, life : Nat, snapshot : Version]]
    BY <1>1, <1>3, <1>6 DEF TypeOK
  <1>9. /\ ran' \in [Farm -> Seq(Task)] /\ ran[f] \in Seq(Task)
        /\ ran'[f] = Append(ran[f], i.task)
        /\ \A g \in Farm \ {f} : ran'[g] = ran[g]
    <2>1. ran \in [Farm -> Seq(Task)]
      BY <1>1, Types
    <2> QED BY <1>3, <1>6, <2>1
  <1>10. /\ \A v \in Worker : \A g : Serves(v, g)' <=> (v = w /\ g = f) \/ (v # w /\ Serves(v, g))
         /\ AtWorker(f)' /\ \A g : g # f => (AtWorker(g)' <=> AtWorker(g))
    <2>1. \A v \in Worker : \A g : Serves(v, g)' <=> (v = w /\ g = f) \/ (v # w /\ Serves(v, g))
      BY <1>2, <1>8 DEF Serves
    <2>2. \A g : ~ Serves(w, g)
      BY <1>3 DEF Serves
    <2> QED BY <2>1, <2>2 DEF AtWorker
  \* What the two ways to leave the line behind have in common.
  <1>11. ASSUME \A g \in Farm : /\ actors'[g].life = actors[g].life
                                /\ actors'[g].queue = actors[g].queue
                                /\ actors'[g].snapshot = actors[g].snapshot
                                /\ actors'[g] = NoActor <=> actors[g] = NoActor
                                /\ ~ actors'[g].running => ~ actors[g].running,
                actors' \in [Farm -> ActorState], ready' \in Seq(Item), parked' \in Seq(Item),
                Len(ready') <= Len(ready), OnePer(FarmOf, ready'), OnePer(HomeOf, parked'),
                \A j : Waits(j)' => FarmOf[j.task] # f,
                \A j : FarmOf[j.task] # f => (Waits(j)' <=> Waits(j)),
                Apart', Marked'
         PROVE  IInv'
    <2>1. TypeOK'
      <3>1. Len(ready') <= ReadyCap
        BY <1>1, <1>4, <1>11, RuntimeAssumption DEF TypeOK
      <3> QED BY <1>1, <1>3, <1>8, <1>9, <1>11, <3>1 DEF TypeOK
    <2>2. Asked' /\ Counted'
      <3>1. Live' = Live
        BY <1>3, <1>11 DEF Live
      <3> QED BY <1>1, <1>3, <2>1, <3>1, AskedStands DEF Counted
    <2>3. Lines'
      <3>1. HomeOf' = HomeOf
        BY DEF HomeOf, Home
      <3>2. \A v \in Worker : worker'[v].step \in {"run", "done"} => worker'[v].task \in Task
        BY <1>1, <1>6, <1>8 DEF Lines
      <3>3. \A g \in Farm : \A u, v \in Worker : Serves(u, g)' /\ Serves(v, g)' => u = v
        <4>1. \A v \in Worker : ~ Serves(v, f)
          BY <1>7 DEF AtWorker
        <4> QED BY <1>1, <1>10, <4>1 DEF Lines
      <3>4. \A g \in Farm : \A t \in ToSet(actors'[g].queue) : FarmOf[t] = g
        BY <1>1, <1>11 DEF Lines
      <3> QED BY <1>1, <1>3, <1>11, <3>1, <3>2, <3>3, <3>4 DEF Lines, OnePer, Home
    <2>4. \A j \in ToSet(ready') \cup ToSet(parked') : j \in ToSet(ready) \cup ToSet(parked)
      BY <1>11 DEF Waits
    <2>5. Alive'
      <3>1. \A g \in Farm : actors'[g] = NoActor \/ actors'[g].life >= 1
        BY <1>1, <1>11 DEF Placed, Alive
      <3>2. \A j \in ToSet(ready') \cup ToSet(parked')
                \cup UNION {ToSet(completed[h]) : h \in Shard} :
              j.life >= 1 /\ j.life = actors'[FarmOf[j.task]].life
        BY <1>1, <1>11, <2>4, Items DEF Placed, Alive
      <3>3. ASSUME NEW v \in Worker, worker'[v].step \in {"run", "done"}
            PROVE  worker'[v].life >= 1 /\ worker'[v].life = actors'[FarmOf[worker'[v].task]].life
        <4>1. CASE v = w
          BY <1>2, <1>6, <1>7, <1>8, <1>11, <4>1
        <4>2. CASE v # w
          BY <1>1, <1>8, <1>11, <3>3, <4>2, Homes DEF Placed, Alive, Lines
        <4> QED BY <4>1, <4>2
      <3> QED BY <1>3, <3>1, <3>2, <3>3 DEF Alive
    <2>6. Current'
      <3>1. \A j \in ToSet(ready') \cup ToSet(parked') : j.snapshot \in {Cold, left[FarmOf[j.task]]}
        BY <1>1, <2>4 DEF Placed, Current
      <3>2. \A v \in Worker :
              /\ worker'[v].step = "run" => worker'[v].snapshot \in {Cold, left[FarmOf[worker'[v].task]]}
              /\ worker'[v].step = "done" => worker'[v].snapshot = left[FarmOf[worker'[v].task]]
        BY <1>1, <1>2, <1>7, <1>8 DEF Placed, Current
      <3>3. \A g \in Farm : ~ actors'[g].running => actors'[g].snapshot \in {Cold, left[g]}
        BY <1>1, <1>11 DEF Placed, Current
      <3> QED BY <1>1, <1>3, <3>1, <3>2, <3>3 DEF Placed, Current
    <2>7. Ordered'
      <3>1. ASSUME ~ stopped, NEW g \in Farm, g # f
            PROVE  InOrder(g)'
        <4>1. Waiting(g)' = Waiting(g)
          BY <1>11, <3>1, SameWait
        <4>2. InOrder(g) /\ accepted'[g] = accepted[g] /\ ran'[g] = ran[g]
              /\ actors'[g].queue = actors[g].queue
          BY <1>1, <1>3, <1>9, <1>11, <3>1 DEF Placed, Ordered
        <4> QED BY <4>1, <4>2 DEF InOrder
      <3>2. ASSUME ~ stopped
            PROVE  InOrder(f)'
        <4>1. Waiting(f) = {<<i.task>>}
          <5>1. Waits(i) /\ \A j : Waits(j) /\ FarmOf[j.task] = f => j = i
            BY <1>5, <1>7 DEF Waits, Has
          <5> QED BY <1>2, <5>1, OneWaits
        <4>2. Waiting(f)' = {<<>>}
          BY <1>11, NoneWaitsNext
        <4>3. accepted[f] = (ran[f] \o <<i.task>>) \o actors[f].queue
          BY <1>1, <1>6, <3>2, <4>1 DEF Placed, Ordered, InOrder
        <4>4. actors[f].queue \in Seq(Task) /\ actors'[f].queue = actors[f].queue
          BY <1>4, <1>6, <1>11 DEF ActorState
        <4>5. (ran[f] \o <<i.task>>) \o actors[f].queue
                = (Append(ran[f], i.task) \o <<>>) \o actors[f].queue
          <5>1. \A r, q \in Seq(Task) : (r \o <<i.task>>) \o q = (Append(r, i.task) \o <<>>) \o q
            BY <1>6, TaskMoves
          <5> QED BY <1>9, <4>4, <5>1
        <4>6. accepted'[f] = ran'[f] \o <<>> \o actors'[f].queue
          BY <1>3, <1>9, <4>3, <4>4, <4>5
        <4> QED BY <4>2, <4>6 DEF InOrder
      <3> QED BY <1>3, <3>1, <3>2 DEF Ordered
    <2>8. Placed'
      BY <1>11, <2>3, <2>5, <2>6, <2>7 DEF Placed
    <2> QED BY <2>1, <2>2, <2>8 DEF IInv
  <1>12. CASE parked = <<>> /\ ready' = Tail(ready) /\ UNCHANGED <<actors, parked>>
    <2>1. ToSet(parked) = {}
      BY <1>12 DEF ToSet
    <2>2. /\ \A j : Waits(j)' => FarmOf[j.task] # f
          /\ \A j : FarmOf[j.task] # f => (Waits(j)' <=> Waits(j))
      BY <1>2, <1>5, <1>12, <2>1 DEF Waits
    <2>3. Apart' /\ Marked'
      <3>1. OthersStand(f)
        BY <1>2, <1>3, <1>5, <1>10, <1>12 DEF OthersStand, Has
      <3>2. /\ ~ Has(ready, f)' /\ ~ Has(completed[ShardOf[f]], f)' /\ ~ Has(parked, f)'
            /\ actors'[f].running
        BY <1>3, <1>5, <1>7, <1>12 DEF Has
      <3> QED BY <1>1, <1>3, <1>6, <1>10, <3>1, <3>2, FarmSettles
    <2>4. /\ ready' \in Seq(Item) /\ Len(ready') <= Len(ready)
          /\ parked' \in Seq(Item) /\ actors' \in [Farm -> ActorState]
      BY <1>4, <1>5, <1>12
    <2>5. OnePer(FarmOf, ready') /\ OnePer(HomeOf, parked')
      BY <1>1, <1>5, <1>12 DEF Lines
    <2> QED BY <1>11, <1>12, <2>2, <2>3, <2>4, <2>5
  <1>13. CASE parked # <<>>
    <2>1. PICK h, g : h = Head(parked) /\ g = FarmOf[h.task]
      OBVIOUS
    <2>2. /\ ready' = Append(Tail(ready), h) /\ parked' = Tail(parked)
          /\ actors' = [actors EXCEPT ![g].running = TRUE, ![g].inflight = h.task]
      BY <1>13, <2>1 DEF Take
    <2>3. /\ h \in Item /\ Tail(parked) \in Seq(Item)
          /\ ToSet(parked) = ToSet(Tail(parked)) \cup {h}
          /\ \A j \in ToSet(Tail(parked)) : HomeOf[j.task] # HomeOf[h.task]
          /\ OnePer(HomeOf, Tail(parked))
      BY <1>1, <1>4, <1>13, <2>1, Received DEF Lines
    <2>4. h.task \in Task /\ g \in Farm /\ actors[g].life >= 1
      <3>1. h.task \in Task /\ h \in ToSet(parked)
        BY <2>3 DEF Item
      <3> QED BY <1>1, <2>1, <3>1, Homes DEF Placed, Alive
    <2>5. /\ Has(parked, g) /\ ~ Has(ready, g) /\ ~ AtWorker(g) /\ ~ Has(completed[ShardOf[g]], g)
          /\ g # f
      <3>1. Has(parked, g)
        BY <2>1, <2>3 DEF Has
      <3> QED BY <1>1, <1>7, <2>4, <3>1 DEF Apart, Dispatched
    <2>6. /\ actors' \in [Farm -> ActorState] /\ actors'[g].running
          /\ actors'[g].life = actors[g].life /\ actors'[g].queue = actors[g].queue
          /\ actors'[g].snapshot = actors[g].snapshot
          /\ \A e \in Farm \ {g} : actors'[e] = actors[e]
      BY <1>4, <2>2, <2>4 DEF ActorState
    <2>7. \A e \in Farm : /\ actors'[e].life = actors[e].life
                          /\ actors'[e].queue = actors[e].queue
                          /\ actors'[e].snapshot = actors[e].snapshot
                          /\ actors'[e] = NoActor <=> actors[e] = NoActor
                          /\ ~ actors'[e].running => ~ actors[e].running
      <3>1. NoActor.life = 0
        BY DEF NoActor, NewActor
      <3>2. actors'[g] # NoActor /\ actors[g] # NoActor
        BY <2>4, <2>6, <3>1
      <3> QED BY <2>6, <3>2
    <2>8. /\ ready' \in Seq(Item) /\ Len(ready') = Len(ready) /\ OnePer(FarmOf, ready')
          /\ ToSet(ready') = ToSet(Tail(ready)) \cup {h}
          /\ \A e : Has(ready', e) <=> Has(Tail(ready), e) \/ e = g
      <3>1. \A j \in ToSet(Tail(ready)) : FarmOf[j.task] # FarmOf[h.task]
        BY <1>5, <2>1, <2>5 DEF Has
      <3>2. /\ ready' \in Seq(Item) /\ Len(ready') = Len(Tail(ready)) + 1
            /\ OnePer(FarmOf, ready')
            /\ ToSet(ready') = ToSet(Tail(ready)) \cup {h}
            /\ \A e : Has(ready', e) <=> Has(Tail(ready), e) \/ e = FarmOf[h.task]
        BY <1>5, <2>2, <2>3, <3>1, Sent
      <3>3. Len(ready) \in Nat
        BY <1>4
      <3> QED BY <1>5, <2>1, <3>2, <3>3
    <2>9. /\ \A j : Waits(j)' => FarmOf[j.task] # f
          /\ \A j : FarmOf[j.task] # f => (Waits(j)' <=> Waits(j))
      <3>1. \A j \in ToSet(parked) : FarmOf[j.task] # f
        BY <1>7 DEF Has
      <3>2. \A j : Waits(j)' <=> j \in ToSet(Tail(ready)) \/ j \in ToSet(parked)
        BY <2>2, <2>3, <2>8 DEF Waits
      <3>3. \A j : Waits(j) <=> j \in ToSet(Tail(ready)) \/ j = i \/ j \in ToSet(parked)
        BY <1>5 DEF Waits
      <3> QED BY <1>2, <1>5, <3>1, <3>2, <3>3
    <2>10. \A e : /\ e # f /\ e # g => (Has(ready', e) <=> Has(ready, e))
                  /\ e # g => (Has(parked', e) <=> Has(parked, e))
                  /\ Has(completed', e) <=> Has(completed, e)
      BY <1>2, <1>3, <1>5, <2>1, <2>2, <2>3, <2>8 DEF Has
    <2>11. ~ Has(ready', f) /\ ~ Has(parked', g) /\ Has(ready', g) /\ ~ Has(parked', f)
      <3>1. ~ Has(parked', g)
        <4>1. \A j \in ToSet(Tail(parked)) : FarmOf[j.task] # g
          BY <1>1, <2>1, <2>3, <2>4, Items, Homes DEF Home
        <4> QED BY <2>2, <4>1 DEF Has
      <3>2. ~ Has(ready', f)
        BY <1>5, <2>5, <2>8 DEF Has
      <3> QED BY <1>7, <2>5, <2>8, <2>10, <3>1, <3>2
    <2>12. Apart' /\ Marked'
      <3>1. ASSUME NEW e \in Farm
            PROVE  (/\ Has(ready, e) => ~ AtWorker(e) /\ ~ Has(completed[ShardOf[e]], e)
                    /\ AtWorker(e) => ~ Has(completed[ShardOf[e]], e)
                    /\ Dispatched(e) => actors[e].running
                    /\ Has(parked, e) => ~ actors[e].running
                    /\ ~ stopped => /\ actors[e].running => Dispatched(e)
                                    /\ ~ actors[e].running /\ ~ Has(parked, e) =>
                                           actors[e].queue = <<>>)'
        <4>1. Has(completed'[ShardOf[e]], e) <=> Has(completed[ShardOf[e]], e)
          BY <1>3
        <4>2. CASE e = f
          BY <1>7, <1>10, <2>5, <2>6, <2>11, <4>1, <4>2 DEF Dispatched
        <4>3. CASE e = g
          BY <1>10, <2>5, <2>6, <2>11, <4>1, <4>3 DEF Dispatched
        <4>4. CASE e # f /\ e # g
          BY <1>1, <1>3, <1>10, <2>6, <2>10, <4>1, <4>4 DEF Apart, Marked, Dispatched
        <4> QED BY <4>2, <4>3, <4>4
      <3>2. Apart'
        BY <3>1 DEF Apart
      <3>3. Marked'
        BY <3>1 DEF Marked
      <3> QED BY <3>2, <3>3
    <2>13. parked' \in Seq(Item) /\ Len(ready') <= Len(ready) /\ OnePer(HomeOf, parked')
      BY <1>4, <2>2, <2>3, <2>8
    <2> QED BY <1>11, <2>6, <2>7, <2>8, <2>9, <2>12, <2>13
  <1> QED BY <1>12, <1>13 DEF Take

-----------------------------------------------------------------------------
(* The invariant, and what follows from it.                                *)

LEMMA InitIInv ==
    ASSUME Init
    PROVE  IInv
  <1> USE DEF Init
  <1>1. /\ <<>> \in Seq(Task) /\ <<>> \in Seq(Item) /\ Len(<<>>) = 0
        /\ DOMAIN <<>> = {} /\ Cold \in Version /\ MaxActiveActors \in Nat
        /\ IngressCap \in Nat /\ ReadyCap \in Nat /\ Cardinality(Worker) \in Nat
    BY RuntimeAssumption, FS_CardinalityType DEF Version
  <1>2. NoActor \in ActorState /\ ~ NoActor.running /\ NoActor.queue = <<>>
        /\ NoActor.snapshot = Cold
    BY <1>1 DEF NoActor, NewActor, ActorState
  <1>3. Idle \in [step : {"idle", "run", "done", "exited"},
                  task : Task \cup {NoTask}, life : Nat, snapshot : Version]
        /\ Idle.step = "idle"
    BY <1>1 DEF Idle
  <1>4. /\ \A f \in Farm : actors[f] = NoActor
        /\ \A w \in Worker : worker[w] = Idle
        /\ \A sh \in Shard : inbox[sh] = <<>> /\ completed[sh] = <<>>
        /\ \A f \in Farm : accepted[f] = <<>> /\ ran[f] = <<>> /\ left[f] = Cold
    OBVIOUS
  <1>5. TypeOK
    <2>1. \A sh \in Shard : Len(inbox[sh]) <= IngressCap /\ Len(completed[sh]) <= Cardinality(Worker)
      BY <1>1, <1>4
    <2>2. /\ actors \in [Farm -> ActorState] /\ inbox \in [Shard -> Seq(Task)]
          /\ completed \in [Shard -> Seq(Item)] /\ accepted \in [Farm -> Seq(Task)]
          /\ ran \in [Farm -> Seq(Task)] /\ left \in [Farm -> Version]
      BY <1>1, <1>2
    <2>3. worker \in [Worker -> [step : {"idle", "run", "done", "exited"},
                                 task : Task \cup {NoTask}, life : Nat, snapshot : Version]]
      BY <1>3
    <2>4. ready \in Seq(Item) /\ Len(ready) <= ReadyCap /\ parked \in Seq(Item)
      BY <1>1
    <2> QED BY <2>1, <2>2, <2>3, <2>4 DEF TypeOK
  <1>6. ToSet(<<>>) = {} /\ \A K : OnePer(K, <<>>)
    BY <1>1 DEF ToSet, OnePer
  <1>7. /\ \A f : ~ Has(ready, f) /\ ~ Has(parked, f) /\ ~ AtWorker(f)
        /\ \A f \in Farm : ~ Has(completed[ShardOf[f]], f)
        /\ \A w \in Worker : \A f : ~ Serves(w, f)
    <2>1. \A w \in Worker : \A f : ~ Serves(w, f)
      BY <1>3, <1>4 DEF Serves
    <2>2. \A f \in Farm : completed[ShardOf[f]] = <<>>
      BY <1>4, Homes
    <2> QED BY <1>6, <2>1, <2>2 DEF Has, AtWorker
  <1>8. Lines
    BY <1>2, <1>3, <1>4, <1>6, <1>7 DEF Lines
  <1>9. Apart /\ Marked
    BY <1>2, <1>4, <1>7 DEF Apart, Marked, Dispatched
  <1>10. Alive /\ Current
    BY <1>2, <1>3, <1>4, <1>6 DEF Alive, Current
  <1>11. Ordered
    <2>1. ASSUME NEW f \in Farm
          PROVE  InOrder(f)
      <3>1. Waiting(f) = {<<>>}
        BY <1>6, NoneWaits DEF Waits
      <3>2. <<>> \o <<>> \o <<>> = <<>>
        BY ConcatEmptySeq, <1>1
      <3>3. accepted[f] = ran[f] \o <<>> \o actors[f].queue
        BY <1>2, <1>4, <3>2
      <3> QED BY <3>1, <3>3 DEF InOrder
    <2> QED BY <2>1 DEF Ordered
  <1>12. Asked
    <2>1. \A t \in Task : result[t] = "none"
      OBVIOUS
    <2> QED BY <1>1, <1>4, <1>6, <2>1 DEF Asked
  <1>13. Counted
    <2>1. Live = {}
      BY <1>4 DEF Live
    <2> QED BY <1>1, <2>1, FS_EmptySet DEF Counted
  <1> QED BY <1>5, <1>8, <1>9, <1>10, <1>11, <1>12, <1>13 DEF IInv, Placed

LEMMA StepIInv ==
    ASSUME IInv, [Next]_vars
    PROVE  IInv'
  <1>1. CASE Stop
    BY <1>1, StopStep
  <1>2. ASSUME NEW t \in Task, Submit(t) PROVE IInv'
    BY <1>2, SubmitStep
  <1>3. ASSUME NEW sh \in Shard, Scheduler(sh) \/ EvictIdle(sh) PROVE IInv'
    BY <1>3, AcceptStep, CompleteStep, CancelHandoffStep, FailAllStep, EvictIdleStep DEF Scheduler
  <1>4. ASSUME NEW w \in Worker, Working(w) PROVE IInv'
    BY <1>4, TakeStep, ExecuteStep, ReturnStep, ExitStep DEF Working
  <1>5. CASE UNCHANGED vars
    <2>1. TypeOK /\ Placed /\ Asked /\ Counted
      BY DEF IInv
    <2>2. TypeOK'
      BY <1>5, <2>1 DEF vars, TypeOK
    <2>3. Placed' /\ Asked' /\ Counted'
      BY <1>5, <2>1, <2>2, PlacedStands, AskedStands DEF vars, Counted, Live
    <2> QED BY <2>2, <2>3 DEF IInv
  <1> QED BY <1>1, <1>2, <1>3, <1>4, <1>5 DEF Next

\* A farm is running exactly while one of its tasks has been sent off, and has
\* no two tasks out of its queue.
LEMMA OnePlace ==
    ASSUME IInv, NEW f \in Farm
    PROVE  /\ SentOff(f) # {} <=> Dispatched(f)
           /\ \A p, q \in SentOff(f) \cup HeldBack(f) : p = q
  <1> DEFINE s == completed[ShardOf[f]]
  <1>1. TypeOK /\ Lines /\ Apart
    BY DEF IInv, Placed
  <1>2. /\ \A p \in SentOff(f) :
             \/ p[1] = "ready" /\ \E k \in DOMAIN ready : p = <<"ready", k>> /\ FarmOf[ready[k].task] = f
             \/ p[1] = "worker" /\ \E w \in Worker : p = <<"worker", w>> /\ Serves(w, f)
             \/ p[1] = "completed" /\ \E k \in DOMAIN s : p = <<"completed", k>> /\ FarmOf[s[k].task] = f
        /\ \A p \in HeldBack(f) :
             p[1] = "parked" /\ \E k \in DOMAIN parked : p = <<"parked", k>> /\ FarmOf[parked[k].task] = f
    BY DEF SentOff, HeldBack
  <1>3. /\ Has(ready, f) => \E k \in DOMAIN ready : <<"ready", k>> \in SentOff(f)
        /\ AtWorker(f) => \E w \in Worker : <<"worker", w>> \in SentOff(f)
        /\ Has(s, f) => \E k \in DOMAIN s : <<"completed", k>> \in SentOff(f)
    BY DEF SentOff, Has, AtWorker, ToSet
  <1>4. \A p \in SentOff(f) : /\ p[1] \in {"ready", "worker", "completed"}
                              /\ p[1] = "ready" => Has(ready, f)
                              /\ p[1] = "worker" => AtWorker(f)
                              /\ p[1] = "completed" => Has(s, f)
    BY <1>2 DEF Has, AtWorker, ToSet
  <1>5. \A p \in HeldBack(f) : p[1] = "parked" /\ Has(parked, f)
    BY <1>2 DEF Has, ToSet
  <1>6. SentOff(f) # {} <=> Dispatched(f)
    BY <1>3, <1>4 DEF Dispatched
  <1>7. \A p, q \in SentOff(f) \cup HeldBack(f) : p[1] = q[1]
    BY <1>1, <1>4, <1>5, <1>6 DEF Apart, Dispatched
  <1>8. \A p, q \in SentOff(f) \cup HeldBack(f) : p[1] = q[1] => p = q
    <2>1. \A k, l \in DOMAIN ready : FarmOf[ready[k].task] = f /\ FarmOf[ready[l].task] = f => k = l
      BY <1>1 DEF Lines, OnePer
    <2>2. \A v, w \in Worker : Serves(v, f) /\ Serves(w, f) => v = w
      BY <1>1 DEF Lines
    <2>3. \A k, l \in DOMAIN s : FarmOf[s[k].task] = f /\ FarmOf[s[l].task] = f => k = l
      BY <1>1, Homes DEF Lines, OnePer
    <2>4. \A k, l \in DOMAIN parked : FarmOf[parked[k].task] = f /\ FarmOf[parked[l].task] = f => k = l
      <3>1. \A k \in DOMAIN parked : parked[k] \in Item
        BY <1>1, Types
      <3>2. \A k, l \in DOMAIN parked : FarmOf[parked[k].task] = FarmOf[parked[l].task] =>
              HomeOf[parked[k].task] = HomeOf[parked[l].task]
        BY <3>1, Homes DEF Home, Item
      <3> QED BY <1>1, <3>2 DEF Lines, OnePer
    <2> QED BY <1>2, <2>1, <2>2, <2>3, <2>4
  <1> QED BY <1>6, <1>7, <1>8

\* The inductive invariant holds in every reachable state.
THEOREM Invariance == Spec => []IInv
  <1>1. Init => IInv
    BY InitIInv
  <1>2. IInv /\ [Next]_vars => IInv'
    BY StepIInv
  <1> QED BY <1>1, <1>2, PTL DEF Spec

\* However shards, workers and blocked handoffs interleave, a farm has at most
\* one task out of its queue, its running flag says so, and its tasks start in
\* the order its actor took them on (accept, complete).
THEOREM SerialPerFarm == Spec => []FarmSerial
  <1>1. IInv => FarmSerial
    <2> SUFFICES ASSUME IInv
                 PROVE  FarmSerial
      OBVIOUS
    <2>1. Placed
      BY DEF IInv
    <2>2. ASSUME NEW f \in Farm, ~ stopped
          PROVE  /\ actors[f].running <=> SentOff(f) # {}
                 /\ \E s \in Waiting(f) : accepted[f] = ran[f] \o s \o actors[f].queue
      BY <2>1, <2>2, OnePlace DEF Placed, Apart, Marked, Ordered, InOrder
    <2> QED BY <2>2, OnePlace DEF FarmSerial
  <1> QED BY <1>1, Invariance, PTL

\* A hot execution starts from the snapshot its farm's last execution ended
\* with (execute reads the pointer the scheduler copied into the work item).
THEOREM NoStaleSnapshot == Spec => []SnapshotHandedOn
  <1>1. IInv => SnapshotHandedOn
    BY DEF IInv, Placed, Current, SnapshotHandedOn
  <1> QED BY <1>1, Invariance, PTL

\* A task turned away with a retry-after was never taken on (accept, Submit).
THEOREM RejectionIsFinal == Spec => []BusyNeverRuns
  <1>1. IInv => BusyNeverRuns
    BY Homes DEF IInv, Asked, BusyNeverRuns
  <1> QED BY <1>1, Invariance, PTL

\* The shared counter agrees with the actors there are, the limit and every
\* capacity hold, and a completion finds the actor it left (tryActorAdd,
\* evictIdle, failAll, complete).
THEOREM BooksBalance == Spec => []BooksAgree
  <1>1. IInv => BooksAgree
    <2> SUFFICES ASSUME IInv
                 PROVE  BooksAgree
      OBVIOUS
    <2>1. TypeOK /\ Counted /\ Alive
      BY DEF IInv, Placed
    <2>2. \A sh \in Shard : \A k \in DOMAIN completed[sh] :
            completed[sh][k].life = actors[FarmOf[completed[sh][k].task]].life
      BY <2>1 DEF Alive, ToSet
    <2> QED BY <2>1, <2>2 DEF BooksAgree, Counted, Live
  <1> QED BY <1>1, Invariance, PTL
=============================================================================
