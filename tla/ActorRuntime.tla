---------------------------- MODULE ActorRuntime ----------------------------
(***************************************************************************)
(* The bounded runtime that serialises commands per farm                   *)
(* (farm/actor/runtime.go): callers push tasks into the inbox of a         *)
(* scheduler shard; the scheduler keeps one actor per farm and dispatches  *)
(* at most one task of each to the ready channel all shards share; a fixed *)
(* pool of workers executes them and hands the completions back.           *)
(*                                                                         *)
(* Channels are the bounded FIFO channels of Go.  A scheduler that blocks  *)
(* on the full ready channel is queued on it, and the next receive moves   *)
(* its item in: nobody overtakes it.  What an execution does to the farm   *)
(* row is FarmCommit's subject: here a snapshot is no more than the number *)
(* of the execution that loaded or patched it.                             *)
(***************************************************************************)
EXTENDS Integers, SequencesExt

CONSTANTS
    Task,           \* the commands callers submit
    NoTask,
    Farm,
    FarmOf,         \* FarmOf[t]: the farm of task t
    Shard,          \* scheduler shards
    ShardOf,        \* ShardOf[f]: the shard that hashes farm f
    Worker,
    IngressCap,     \* Config: capacity of a shard's inbox,
    FarmQueueCap,   \* of one farm's queue,
    ReadyCap,       \* of the ready channel,
    MaxActiveActors \* and the limit on actors, over all shards

ASSUME RuntimeAssumption ==
    /\ NoTask \notin Task
    /\ FarmOf \in [Task -> Farm]
    /\ ShardOf \in [Farm -> Shard]
    /\ IsFiniteSet(Worker) /\ Worker # {}
    /\ {IngressCap, FarmQueueCap, ReadyCap, MaxActiveActors} \subseteq Nat \ {0}

VARIABLES
    submitted,    \* tasks whose Submit was called
    result,       \* result[t]: the task's result channel: empty, turned away
                  \* with a retry-after, or answered (a result or an error)
    inbox,        \* per shard
    actors,       \* farm -> actorState, or NoActor
    activeActors, \* the atomic counter of actors
    created,      \* how many actors a farm has had: the identity of a state
    ready,        \* work items, shared by all shards
    parked,       \* the work items of schedulers blocked on ready, in order
    worker,
    completed,    \* per shard
    stopped,      \* r.ctx is done
    exited,       \* the schedulers that have returned
    accepted,     \* history: tasks a farm's actor took on, in order
    ran,          \* history: tasks workers started, in order
    left          \* history: the snapshot a farm's last execution ended with

vars == <<submitted, result, inbox, actors, activeActors, created, ready,
          parked, worker, completed, stopped, exited, accepted, ran, left>>

Cold == -1  \* no snapshot
NewActor(n) == [life |-> n, running |-> FALSE, inflight |-> NoTask,
                queue |-> <<>>, snapshot |-> Cold]
NoActor == NewActor(0)
Idle == [step |-> "idle", task |-> NoTask, life |-> 0, snapshot |-> Cold]

Home(t) == ShardOf[FarmOf[t]]
Work(t, a) == [task |-> t, life |-> a.life, snapshot |-> a.snapshot]
Parked(sh) == \E k \in DOMAIN parked : Home(parked[k].task) = sh

\* deliver: the result channel takes one result and drops the others.
Deliver(t, o) == [result EXCEPT ![t] = IF @ = "none" THEN o ELSE @]

-----------------------------------------------------------------------------

Init ==
    /\ submitted = {}
    /\ result = [t \in Task |-> "none"]
    /\ inbox = [sh \in Shard |-> <<>>]
    /\ actors = [f \in Farm |-> NoActor]
    /\ activeActors = 0
    /\ created = [f \in Farm |-> 0]
    /\ ready = <<>> /\ parked = <<>>
    /\ worker = [w \in Worker |-> Idle]
    /\ completed = [sh \in Shard |-> <<>>]
    /\ stopped = FALSE
    /\ exited = {}
    /\ accepted = [f \in Farm |-> <<>>]
    /\ ran = [f \in Farm |-> <<>>]
    /\ left = [f \in Farm |-> Cold]

-----------------------------------------------------------------------------
(* Callers.                                                                *)

\* Submit pushes the task into its shard's inbox, gives up on a full one after
\* EnqueueWait, or sees that the runtime has stopped.
Submit(t) ==
    /\ t \notin submitted
    /\ submitted' = submitted \cup {t}
    /\ \/ /\ Len(inbox[Home(t)]) < IngressCap
          /\ inbox' = [inbox EXCEPT ![Home(t)] = Append(@, t)]
          /\ UNCHANGED result
       \/ /\ Len(inbox[Home(t)]) = IngressCap
          /\ result' = Deliver(t, "busy")
          /\ UNCHANGED inbox
       \/ /\ stopped
          /\ result' = Deliver(t, "done")
          /\ UNCHANGED inbox
    /\ UNCHANGED <<actors, activeActors, created, ready, parked, worker,
                   completed, stopped, exited, accepted, ran, left>>

Stop ==
    /\ ~ stopped
    /\ stopped' = TRUE
    /\ UNCHANGED <<submitted, result, inbox, actors, activeActors, created,
                   ready, parked, worker, completed, exited, accepted, ran, left>>

-----------------------------------------------------------------------------
(* A scheduler.                                                            *)

\* The scheduler of shard sh is at its select.
AtSelect(sh) == sh \notin exited /\ ~ Parked(sh)

\* accept turns the task away.
Busy(t) ==
    /\ result' = Deliver(t, "busy")
    /\ UNCHANGED <<actors, activeActors, created, ready, accepted>>

\* Mutant: a task rejected by a full queue is queued all the same.
EnqueueAlways(t) ==
    LET f == FarmOf[t] IN
    /\ actors[f].running
    /\ actors' = [actors EXCEPT ![f].queue = Append(@, t)]
    /\ accepted' = [accepted EXCEPT ![f] = Append(@, t)]
    /\ result' = IF Len(actors[f].queue) < FarmQueueCap THEN result
                 ELSE Deliver(t, "busy")
    /\ UNCHANGED <<activeActors, created, ready>>

\* A farm whose task is on its way queues the next one behind it.
Enqueue(t) ==
    LET f == FarmOf[t] IN
    /\ actors[f].running
    /\ \/ /\ Len(actors[f].queue) < FarmQueueCap
          /\ actors' = [actors EXCEPT ![f].queue = Append(@, t)]
          /\ accepted' = [accepted EXCEPT ![f] = Append(@, t)]
          /\ UNCHANGED <<result, activeActors, created, ready>>
       \/ /\ Len(actors[f].queue) >= FarmQueueCap
          /\ Busy(t)

\* tryDispatch: the actor's task goes to ready, which must have room.
Dispatch(t, a) ==
    LET f == FarmOf[t] IN
    /\ Len(ready) < ReadyCap
    /\ ready' = Append(ready, Work(t, a))
    /\ actors' = [actors EXCEPT ![f] = [a EXCEPT !.running = TRUE, !.inflight = t]]
    /\ accepted' = [accepted EXCEPT ![f] = Append(@, t)]
    /\ UNCHANGED result

\* Mutant: the running flag goes unchecked.
DispatchRunning(t) ==
    LET a == actors[FarmOf[t]] IN
    /\ a # NoActor
    /\ \/ Dispatch(t, a) /\ UNCHANGED <<activeActors, created>>
       \/ Len(ready) = ReadyCap /\ Busy(t)

\* An idle farm's task is dispatched or turned away.
DispatchIdle(t) ==
    LET a == actors[FarmOf[t]] IN
    /\ a # NoActor /\ ~ a.running
    /\ \/ Dispatch(t, a) /\ UNCHANGED <<activeActors, created>>
       \/ Len(ready) = ReadyCap /\ Busy(t)

\* Mutant: an actor that is dropped again stays counted.
DispatchNewLeaky(t) ==
    LET f == FarmOf[t]
        a == NewActor(created[f] + 1) IN
    /\ actors[f] = NoActor
    /\ activeActors < MaxActiveActors
    /\ activeActors' = activeActors + 1
    /\ \/ /\ Dispatch(t, a)
          /\ created' = [created EXCEPT ![f] = @ + 1]
       \/ /\ Len(ready) = ReadyCap
          /\ result' = Deliver(t, "busy")
          /\ UNCHANGED <<actors, created, ready, accepted>>

\* A farm without an actor gets one, within the limit; the actor is dropped
\* again when its first task cannot be dispatched.
DispatchNew(t) ==
    LET f == FarmOf[t]
        a == NewActor(created[f] + 1) IN
    /\ actors[f] = NoActor
    /\ \/ /\ activeActors < MaxActiveActors
          /\ Dispatch(t, a)
          /\ activeActors' = activeActors + 1
          /\ created' = [created EXCEPT ![f] = @ + 1]
       \/ /\ activeActors >= MaxActiveActors \/ Len(ready) = ReadyCap
          /\ Busy(t)

Accept(sh) ==
    /\ AtSelect(sh)
    /\ inbox[sh] # <<>>
    /\ LET t == Head(inbox[sh]) IN Enqueue(t) \/ DispatchIdle(t) \/ DispatchNew(t)
    /\ inbox' = [inbox EXCEPT ![sh] = Tail(@)]
    /\ UNCHANGED <<submitted, parked, worker, completed, stopped, exited, ran, left>>

\* The actor takes back its snapshot; the next of its queue, if any, follows.
Settled(a, c) ==
    [a EXCEPT !.running = FALSE, !.inflight = NoTask, !.snapshot = c.snapshot]

\* Mutant: the handoff gives up when ready is full.
HandoffOrDrop(f, a) ==
    LET rest == [a EXCEPT !.queue = Tail(@)] IN
    \/ /\ Len(ready) < ReadyCap
       /\ ready' = Append(ready, Work(Head(a.queue), rest))
       /\ actors' = [actors EXCEPT ![f] =
              [rest EXCEPT !.running = TRUE, !.inflight = Head(a.queue)]]
       /\ UNCHANGED parked
    \/ /\ Len(ready) = ReadyCap
       /\ actors' = [actors EXCEPT ![f] = rest]
       /\ UNCHANGED <<ready, parked>>

\* Mutant: the work item carries the snapshot from before the completion.
HandoffStale(f, a) ==
    LET next == Head(a.queue)
        rest == [a EXCEPT !.queue = Tail(@)] IN
    /\ Len(ready) < ReadyCap
    /\ ready' = Append(ready, Work(next, actors[f]))
    /\ actors' = [actors EXCEPT ![f] =
           [rest EXCEPT !.running = TRUE, !.inflight = next]]
    /\ UNCHANGED parked

\* The next task goes straight to ready, or its scheduler blocks there.
Handoff(f, a) ==
    LET next == Head(a.queue)
        rest == [a EXCEPT !.queue = Tail(@)] IN
    \/ /\ Len(ready) < ReadyCap
       /\ ready' = Append(ready, Work(next, rest))
       /\ actors' = [actors EXCEPT ![f] =
              [rest EXCEPT !.running = TRUE, !.inflight = next]]
       /\ UNCHANGED parked
    \/ /\ Len(ready) = ReadyCap
       /\ parked' = Append(parked, Work(next, rest))
       /\ actors' = [actors EXCEPT ![f] = rest]
       /\ UNCHANGED ready

\* complete: a completion of an actor that is gone is only delivered.
Complete(sh) ==
    /\ AtSelect(sh)
    /\ completed[sh] # <<>>
    /\ LET c == Head(completed[sh])
           f == FarmOf[c.task]
           a == Settled(actors[f], c) IN
       /\ result' = Deliver(c.task, "done")
       /\ \/ /\ actors[f].life # c.life
             /\ UNCHANGED <<actors, ready, parked>>
          \/ /\ actors[f].life = c.life
             /\ a.queue = <<>>
             /\ actors' = [actors EXCEPT ![f] = a]
             /\ UNCHANGED <<ready, parked>>
          \/ /\ actors[f].life = c.life
             /\ a.queue # <<>>
             /\ Handoff(f, a)
    /\ completed' = [completed EXCEPT ![sh] = Tail(@)]
    /\ UNCHANGED <<submitted, inbox, activeActors, created, worker,
                   stopped, exited, accepted, ran, left>>

\* Mutant: the handoff does not watch the context.
CancelNever(sh) == FALSE /\ UNCHANGED vars

\* A blocked handoff is given up when the runtime stops.
CancelHandoff(sh) ==
    /\ stopped
    /\ \E k \in DOMAIN parked :
        /\ Home(parked[k].task) = sh
        /\ result' = Deliver(parked[k].task, "done")
        /\ parked' = RemoveAt(parked, k)
    /\ UNCHANGED <<submitted, inbox, actors, activeActors, created, ready,
                   worker, completed, stopped, exited, accepted, ran, left>>

\* evictIdle: an idle actor is forgotten after IdleTTL.
EvictIdle(sh) ==
    /\ AtSelect(sh)
    /\ \E f \in Farm :
        /\ ShardOf[f] = sh
        /\ actors[f] # NoActor
        /\ ~ actors[f].running /\ actors[f].queue = <<>>
        /\ actors' = [actors EXCEPT ![f] = NoActor]
    /\ activeActors' = activeActors - 1
    /\ UNCHANGED <<submitted, result, inbox, created, ready, parked, worker,
                   completed, stopped, exited, accepted, ran, left>>

\* failAll: the scheduler returns, answering all it still holds.
FailAll(sh) ==
    LET mine == {f \in Farm : ShardOf[f] = sh /\ actors[f] # NoActor}
        held == ToSet(inbox[sh]) \cup {actors[f].inflight : f \in mine}
                    \cup UNION {ToSet(actors[f].queue) : f \in mine} IN
    /\ stopped
    /\ AtSelect(sh)
    /\ exited' = exited \cup {sh}
    /\ result' = [t \in Task |->
           IF t \in held /\ result[t] = "none" THEN "done" ELSE result[t]]
    /\ activeActors' = activeActors - Cardinality(mine)
    /\ inbox' = [inbox EXCEPT ![sh] = <<>>]
    /\ UNCHANGED <<submitted, actors, created, ready, parked, worker, completed,
                   stopped, accepted, ran, left>>

-----------------------------------------------------------------------------
(* A worker.                                                               *)

\* The worker receives from ready; the first scheduler blocked there moves up.
Take(w) ==
    /\ worker[w].step = "idle"
    /\ ready # <<>>
    /\ LET i == Head(ready) IN
       /\ worker' = [worker EXCEPT ![w] =
              [step |-> "run", task |-> i.task, life |-> i.life,
               snapshot |-> i.snapshot]]
       /\ ran' = [ran EXCEPT ![FarmOf[i.task]] = Append(@, i.task)]
    /\ \/ /\ parked = <<>>
          /\ ready' = Tail(ready)
          /\ UNCHANGED <<actors, parked>>
       \/ /\ parked # <<>>
          /\ LET t == Head(parked).task IN
             actors' = [actors EXCEPT ![FarmOf[t]].running = TRUE,
                                      ![FarmOf[t]].inflight = t]
          /\ ready' = Append(Tail(ready), Head(parked))
          /\ parked' = Tail(parked)
    /\ UNCHANGED <<submitted, result, inbox, activeActors, created, completed,
                   stopped, exited, accepted, left>>

\* execute: a cold actor, or one the command's route epoch has outgrown, loads
\* the farm first, and ends up without a snapshot when that fails; a commit
\* patches the snapshot, an error or a replay leaves it as it is.
Execute(w) ==
    LET f == FarmOf[worker[w].task] IN
    /\ worker[w].step = "run"
    /\ \E n \in {Cold, worker[w].snapshot, Len(ran[f])} :
        /\ worker' = [worker EXCEPT ![w].step = "done", ![w].snapshot = n]
        /\ left' = [left EXCEPT ![f] = n]
    /\ UNCHANGED <<submitted, result, inbox, actors, activeActors, created,
                   ready, parked, completed, stopped, exited, accepted, ran>>

\* The completion goes back to the scheduler, whose channel holds as many as
\* there are workers, or is dropped with an error when the runtime stops.
Return(w) ==
    LET c == worker[w]
        sh == Home(c.task) IN
    /\ c.step = "done"
    /\ \/ /\ Len(completed[sh]) < Cardinality(Worker)
          /\ completed' = [completed EXCEPT ![sh] = Append(@,
                 [task |-> c.task, life |-> c.life, snapshot |-> c.snapshot])]
          /\ UNCHANGED result
       \/ /\ stopped
          /\ result' = Deliver(c.task, "done")
          /\ UNCHANGED completed
    /\ worker' = [worker EXCEPT ![w] = Idle]
    /\ UNCHANGED <<submitted, inbox, actors, activeActors, created, ready,
                   parked, stopped, exited, accepted, ran, left>>

Exit(w) ==
    /\ stopped
    /\ worker[w] = Idle
    /\ worker' = [worker EXCEPT ![w].step = "exited"]
    /\ UNCHANGED <<submitted, result, inbox, actors, activeActors, created,
                   ready, parked, completed, stopped, exited, accepted, ran, left>>

-----------------------------------------------------------------------------

Scheduler(sh) == Accept(sh) \/ Complete(sh) \/ CancelHandoff(sh) \/ FailAll(sh)
Working(w) == Take(w) \/ Execute(w) \/ Return(w) \/ Exit(w)

Next ==
    \/ Stop
    \/ \E t \in Task : Submit(t)
    \/ \E sh \in Shard : Scheduler(sh) \/ EvictIdle(sh)
    \/ \E w \in Worker : Working(w)

Spec == Init /\ [][Next]_vars

\* A goroutine that can run, runs; an execution ends by ExecutionTimeout.
\* Callers submit, and the process stops, or not.
FairSpec ==
    /\ Spec
    /\ \A sh \in Shard : WF_vars(Scheduler(sh))
    /\ \A w \in Worker : WF_vars(Working(w))

-----------------------------------------------------------------------------
(* Properties.                                                             *)

Version == Nat \cup {Cold}
Item == [task : Task, life : Nat, snapshot : Version]
ActorState == [life : Nat, running : BOOLEAN, inflight : Task \cup {NoTask},
               queue : Seq(Task), snapshot : Version]

\* Types, and the capacity of every channel and queue.
TypeOK ==
    /\ submitted \subseteq Task
    /\ result \in [Task -> {"none", "done", "busy"}]
    /\ inbox \in [Shard -> Seq(Task)]
    /\ actors \in [Farm -> ActorState]
    /\ activeActors \in Nat
    /\ created \in [Farm -> Nat]
    /\ ready \in Seq(Item) /\ Len(ready) <= ReadyCap
    /\ parked \in Seq(Item)
    /\ worker \in [Worker ->
           [step : {"idle", "run", "done", "exited"}, task : Task \cup {NoTask},
            life : Nat, snapshot : Version]]
    /\ completed \in [Shard -> Seq(Item)]
    /\ \A sh \in Shard : Len(inbox[sh]) <= IngressCap
                      /\ Len(completed[sh]) <= Cardinality(Worker)
    /\ stopped \in BOOLEAN
    /\ exited \subseteq Shard
    /\ accepted \in [Farm -> Seq(Task)]
    /\ ran \in [Farm -> Seq(Task)]
    /\ left \in [Farm -> Version]

\* Worker w has a task of farm f.
Serves(w, f) == worker[w].step \in {"run", "done"} /\ FarmOf[worker[w].task] = f

\* Where the tasks of farm f are that its actor has sent off, or holds in a
\* blocked handoff.
SentOff(f) ==
    LET Of(s) == {k \in DOMAIN s : FarmOf[s[k].task] = f} IN
    {<<"ready", k>> : k \in Of(ready)} \cup {<<"worker", w>> : w \in {v \in Worker : Serves(v, f)}}
        \cup {<<"completed", k>> : k \in Of(completed[ShardOf[f]])}
HeldBack(f) == {<<"parked", k>> : k \in {l \in DOMAIN parked : FarmOf[parked[l].task] = f}}

\* The task of farm f no worker has started yet, as a sequence.
Waiting(f) ==
    LET tasks == {i.task : i \in {j \in ToSet(ready) \cup ToSet(parked) : FarmOf[j.task] = f}}
    IN IF tasks = {} THEN {<<>>} ELSE {<<t>> : t \in tasks}

\* "Logical per-farm serialization": however shards, workers and blocked
\* handoffs interleave, at most one task of a farm is out of its queue, the
\* running flag says so exactly, and a farm's tasks start in the order its actor
\* took them on, none lost or duplicated: what was taken on is what has started,
\* then what waits for a worker, then the queue (accept, complete).
FarmSerial ==
    \A f \in Farm :
        /\ \A p, q \in SentOff(f) \cup HeldBack(f) : p = q
        /\ ~ stopped => (actors[f].running <=> SentOff(f) # {})
        /\ ~ stopped => \E s \in Waiting(f) : accepted[f] = ran[f] \o s \o actors[f].queue

\* A hot execution starts from exactly the snapshot the farm's previous one
\* ended with, through queueing, handoffs and eviction: no older snapshot comes
\* back, and none crosses a failed cold load (execute reads the pointer the
\* scheduler copied into the work item).
SnapshotHandedOn ==
    \A w \in Worker : worker[w].step = "run" /\ worker[w].snapshot # Cold =>
        worker[w].snapshot = left[FarmOf[worker[w].task]]

\* A task turned away with a retry-after is never executed, so the caller may
\* resend it (the four rejections of Submit and accept).
BusyNeverRuns ==
    \A t \in Task : result[t] = "busy" => t \notin ToSet(accepted[FarmOf[t]])

\* The runtime's books agree.  The counter all shards share neither leaks nor
\* drifts, and the limit holds (tryActorAdd, evictIdle, the drop of a new actor,
\* failAll).  A completion finds the actor it left, never a later actor of the
\* same farm: eviction cannot overtake a run (the identity check of complete).
BooksAgree ==
    /\ TypeOK
    /\ activeActors <= MaxActiveActors
    /\ activeActors = Cardinality({f \in Farm :
           actors[f] # NoActor /\ ShardOf[f] \notin exited})
    /\ \A sh \in Shard : \A k \in DOMAIN completed[sh] :
           completed[sh][k].life = actors[FarmOf[completed[sh][k].task]].life

\* Every submitted task is answered, unless the runtime stops.
EveryTaskAnswered ==
    \A t \in Task : t \in submitted ~> result[t] # "none" \/ stopped

\* A scheduler that blocks on the full ready channel gets through: "a
\* completing worker immediately returns to ready" (runtime.go:342).
HandoffEnds == \A sh \in Shard : Parked(sh) ~> ~ Parked(sh)

\* Stop, then Wait: every scheduler and every worker returns.
StopEnds ==
    stopped ~> exited = Shard /\ \A w \in Worker : worker[w].step = "exited"
=============================================================================
