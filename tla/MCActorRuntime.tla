--------------------------- MODULE MCActorRuntime ---------------------------
(***************************************************************************)
(* ActorRuntime with channels, queues and the actor limit small enough to  *)
(* fill: one scheduler shard with three farms, or two shards.              *)
(***************************************************************************)
EXTENDS ActorRuntime

CONSTANTS a1, a2, a3, b1, b2, c1, d1, w1, w2

\* One shard: farm A queues a task while the other farms fill ready.
OneShardTask == {a1, a2, b1, c1}
OneShardFarmOf == a1 :> "A" @@ a2 :> "A" @@ b1 :> "B" @@ c1 :> "C"
OneShardOf == "A" :> 1 @@ "B" :> 1 @@ "C" :> 1

\* Two shards that share the ready channel, the workers and the actor limit.
TwoShardTask == {a1, a2, a3, b1, c1}
TwoShardFarmOf == a1 :> "A" @@ a2 :> "A" @@ a3 :> "A" @@ b1 :> "B" @@ c1 :> "C"
TwoShardOf == "A" :> 1 @@ "B" :> 2 @@ "C" :> 1

\* Two shards, each of which completes a farm that has a task queued.
HandoffTask == {a1, a2, b1, b2, c1, d1}
HandoffFarmOf == a1 :> "A" @@ a2 :> "A" @@ b1 :> "B" @@ b2 :> "B"
                     @@ c1 :> "C" @@ d1 :> "D"
HandoffShardOf == "A" :> 1 @@ "B" :> 2 @@ "C" :> 1 @@ "D" :> 1

\* The behaviours searched for it: no stop, no rejection, no failed run, no
\* eviction, and the two tasks of a farm submitted in order.
HandoffConstraint ==
    /\ ~ stopped
    /\ \A t \in Task : result[t] # "busy"
    /\ \A w \in Worker : worker[w].step = "done" => worker[w].snapshot # Cold
    /\ \A f \in Farm : created[f] > 0 => actors[f] # NoActor
    /\ a2 \in submitted => a1 \in submitted
    /\ b2 \in submitted => b1 \in submitted

Symmetry == Permutations({a1, a2, a3}) \cup Permutations({w1, w2})
=============================================================================
