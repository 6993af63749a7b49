------------------------------ MODULE ViewerHub ------------------------------
(***************************************************************************)
(* The viewers of farms on one gatesvr: the hub that knows which           *)
(* connection watches which farm, the Pub/Sub connection that listens to   *)
(* the farms somebody watches, and the broadcast of committed patches.     *)
(*                                                                         *)
(* A farm is named by its owner.  The Pub/Sub server keeps nothing: what   *)
(* is published to a channel nobody listens to is gone.  A cursor carries, *)
(* beside the version the code stores, the farm that version belongs to.   *)
(***************************************************************************)
EXTENDS Integers, Sequences, Tallies

CONSTANTS
    Conn,        \* connections, each used once
    UserOf,      \* the user of a connection
    MaxGuests,   \* guests a farm admits
    Farm,        \* the farms, each named by its owner
    MaxPatch,    \* bound: patches committed, over all farms
    MaxMoves     \* bound: changes of subscription and lost connections

NoFarm == "no farm"

ASSUME HubAssumption ==
    /\ IsFiniteSet(Conn)
    /\ NoFarm \notin Farm
    /\ UserOf \in [Conn -> Farm]
    /\ MaxPatch \in Nat

VARIABLES
    watching,    \* the farm of a connection, NoFarm before and after its life
    alive,       \* how far a connection has come
    cursor,      \* the last version a connection has installed
    hooks,       \* calls a connection's goroutine still owes the subscriber
    refs,        \* viewers' references the subscriber counts per farm
    timers,      \* the delayed unsubscription entered for a farm
    late,        \* timers per farm that Stop no longer reaches
    channels,    \* channels the Pub/Sub connection listens to
    connected,   \* the Pub/Sub connection is up
    patches,     \* versions committed per farm
    unsent,      \* committed patches not yet published
    wire,        \* patches published to this connection and not yet received
    event,       \* the patch being broadcast
    moves        \* the bounded moves made

hubVars == <<watching, alive, cursor, hooks>>
subVars == <<refs, timers, late, channels, connected>>
patchVars == <<patches, unsent, wire>>
viewVars == <<hubVars, subVars, patchVars, event, moves>>

Patch == [farm : Farm, version : 1 .. MaxPatch]
NoEvent == [todo |-> {}]

Viewers(f) == {c \in Conn : watching[c] = f}
Guests(f) == {c \in Viewers(f) : UserOf[c] # f}

ViewerTypeOK ==
    /\ watching \in [Conn -> Farm \cup {NoFarm}]
    /\ alive \in [Conn -> {"new", "open", "closed"}]
    /\ cursor \in [Conn -> [of : Farm, version : 0 .. MaxPatch]]
    /\ \A c \in Conn : hooks[c] \in Seq({"sub", "unsub"} \X Farm) /\ Len(hooks[c]) <= 2
    /\ refs \in [Farm -> 0 .. Cardinality(Conn)]
    /\ timers \in [Farm -> {"none", "set", "fired"}]
    /\ late \in [Farm -> Nat]
    /\ channels \subseteq Farm
    /\ connected \in BOOLEAN
    /\ patches \in [Farm -> 0 .. MaxPatch]
    /\ unsent \subseteq Patch
    /\ wire \in Seq(Patch)

ViewerInit ==
    /\ watching = [c \in Conn |-> NoFarm]
    /\ alive = [c \in Conn |-> "new"]
    /\ cursor = [c \in Conn |-> [of |-> UserOf[c], version |-> 0]]
    /\ hooks = [c \in Conn |-> <<>>]
    /\ refs = [f \in Farm |-> 0]
    /\ timers = [f \in Farm |-> "none"]
    /\ late = [f \in Farm |-> 0]
    /\ channels = {}
    /\ connected = TRUE
    /\ patches = [f \in Farm |-> 0]
    /\ unsent = {}
    /\ wire = <<>>
    /\ event = NoEvent
    /\ moves = 0

Move == moves < MaxMoves /\ moves' = moves + 1

-----------------------------------------------------------------------------
(* The hub: one lock covers a change of viewers; the subscriber is told      *)
(* after it is released, by the goroutine of the connection.                 *)

Idle(c) == hooks[c] = <<>>

Admits(f, c) == UserOf[c] = f \/ Cardinality(Guests(f)) < MaxGuests

Left(c) ==
    IF watching[c] # NoFarm /\ Viewers(watching[c]) = {c}
    THEN <<<<"unsub", watching[c]>>>>
    ELSE <<>>

Entered(f) == IF Viewers(f) = {} THEN <<<<"sub", f>>>> ELSE <<>>

Subscribe(c, f, v) ==
    /\ Idle(c)
    /\ cursor' = [cursor EXCEPT ![c] = [of |-> f, version |-> v]]
    /\ \/ watching[c] = f /\ UNCHANGED <<watching, hooks>>
       \/ /\ watching[c] # f
          /\ Admits(f, c)
          /\ watching' = [watching EXCEPT ![c] = f]
          /\ hooks' = [hooks EXCEPT ![c] = Left(c) \o Entered(f)]

Unsubscribe(c) ==
    /\ Idle(c)
    /\ watching' = [watching EXCEPT ![c] = NoFarm]
    /\ hooks' = [hooks EXCEPT ![c] = Left(c)]

\* A new connection watches its own farm, with an unknown version.
Connect(c) ==
    /\ alive[c] = "new"
    /\ Subscribe(c, UserOf[c], 0)
    /\ alive' = [alive EXCEPT ![c] = "open"]
    /\ UNCHANGED <<subVars, patchVars, event, moves>>

\* SUBSCRIBE_FARM, after the client has installed a snapshot.
SubscribeFarm(c, f, v) ==
    /\ alive[c] = "open"
    /\ Move
    /\ v \in 0 .. patches[f]
    /\ Subscribe(c, f, v)
    /\ UNCHANGED <<alive, subVars, patchVars, event>>

Disconnect(c) ==
    /\ alive[c] = "open"
    /\ Move
    /\ Unsubscribe(c)
    /\ alive' = [alive EXCEPT ![c] = "closed"]
    /\ UNCHANGED <<cursor, subVars, patchVars, event>>

-----------------------------------------------------------------------------
(* The subscriber.                                                           *)

AddRef(f) ==
    /\ timers' = [timers EXCEPT ![f] = "none"]
    /\ refs' = [refs EXCEPT ![f] = @ + 1]
    /\ channels' = IF refs[f] = 0 /\ connected THEN channels \cup {f} ELSE channels
    /\ late' = late

DropRefUntimed(f) ==
    /\ refs' = [refs EXCEPT ![f] = IF @ > 1 THEN @ - 1 ELSE 0]
    /\ UNCHANGED <<timers, late, channels>>

DropRef(f) ==
    /\ refs' = [refs EXCEPT ![f] = IF @ > 1 THEN @ - 1 ELSE 0]
    /\ timers' = IF refs[f] > 1 \/ timers[f] # "none"
                 THEN timers
                 ELSE [timers EXCEPT ![f] = "set"]
    /\ UNCHANGED <<late, channels>>

RunHook(c) ==
    /\ ~Idle(c)
    /\ LET f == Head(hooks[c])[2] IN
       \/ Head(hooks[c])[1] = "sub" /\ AddRef(f)
       \/ Head(hooks[c])[1] = "unsub" /\ DropRef(f)
    /\ hooks' = [hooks EXCEPT ![c] = Tail(@)]
    /\ UNCHANGED <<watching, alive, cursor, connected, patchVars, event, moves>>

\* The timer fires and waits for the lock.
TimerFires(f) ==
    /\ timers[f] = "set"
    /\ timers' = [timers EXCEPT ![f] = "fired"]
    /\ late' = [late EXCEPT ![f] = @ + 1]
    /\ UNCHANGED <<hubVars, refs, channels, connected, patchVars, event, moves>>

DelayedUnsubscribeUnchecked(f) ==
    /\ late[f] > 0
    /\ late' = [late EXCEPT ![f] = IF timers[f] = "set" THEN @ ELSE @ - 1]
    /\ timers' = [timers EXCEPT ![f] = "none"]
    /\ channels' = channels \ {f}
    /\ UNCHANGED <<hubVars, refs, connected, patchVars, event, moves>>

\* A timer's function takes the lock and deletes the farm's entry, which may by
\* then be another timer that nobody can stop any more.
DelayedUnsubscribe(f) ==
    /\ late[f] > 0
    /\ late' = [late EXCEPT ![f] = IF timers[f] = "set" THEN @ ELSE @ - 1]
    /\ timers' = [timers EXCEPT ![f] = "none"]
    /\ channels' = IF refs[f] = 0 /\ connected THEN channels \ {f} ELSE channels
    /\ UNCHANGED <<hubVars, refs, connected, patchVars, event, moves>>

ConnectionLost ==
    /\ connected
    /\ Move
    /\ connected' = FALSE
    /\ channels' = {}
    /\ wire' = <<>>
    /\ UNCHANGED <<hubVars, refs, timers, late, patches, unsent, event>>

\* A new connection starts from the references of that moment.
Open ==
    /\ ~connected
    /\ connected' = TRUE
    /\ channels' = {f \in Farm : refs[f] > 0}
    /\ UNCHANGED <<hubVars, refs, timers, late, patchVars, event, moves>>

-----------------------------------------------------------------------------
(* From a committed command to the viewers.                                  *)

SumOfPatches == Tally(patches)

\* A command on farm f commits; its issuer, if it watches f, advances its
\* cursor with the answer.
Submit(c, f) ==
    /\ alive[c] = "open"
    /\ Idle(c)
    /\ SumOfPatches < MaxPatch
    /\ patches' = [patches EXCEPT ![f] = @ + 1]
    /\ unsent' = unsent \cup {[farm |-> f, version |-> patches[f] + 1]}
    /\ cursor' = IF watching[c] = f /\ patches[f] + 1 > cursor[c].version
                 THEN [cursor EXCEPT ![c] = [of |-> f, version |-> patches[f] + 1]]
                 ELSE cursor
    /\ UNCHANGED <<watching, alive, hooks, subVars, wire, event, moves>>

\* Publishing follows the commit, in any order, and may fail.
Publish(p) ==
    /\ p \in unsent
    /\ unsent' = unsent \ {p}
    /\ \/ p.farm \in channels /\ wire' = Append(wire, p)
       \/ wire' = wire
    /\ UNCHANGED <<hubVars, subVars, patches, event, moves>>

Receive ==
    /\ event.todo = {}
    /\ wire # <<>>
    /\ wire' = Tail(wire)
    /\ event' = [patch |-> Head(wire), todo |-> Viewers(Head(wire).farm), at |-> "next"]
    /\ UNCHANGED <<hubVars, subVars, patches, unsent, moves>>

\* One viewer: is it still on this farm?
LookAt(c) ==
    /\ c \in event.todo
    /\ event.at = "next"
    /\ event' = IF watching[c] = event.patch.farm
                THEN [event EXCEPT !.at = c]
                ELSE [event EXCEPT !.todo = @ \ {c}]
    /\ UNCHANGED <<hubVars, subVars, patchVars, moves>>

\* Has it this version already?
IsNews(c) == cursor[c].version = 0 \/ event.patch.version > cursor[c].version

\* The viewer's cursor is read, the frame pushed and the cursor stored; a full
\* queue or a closing connection drops the frame.
Deliver(c) ==
    /\ c \in event.todo
    /\ event.at = c
    /\ \/ /\ IsNews(c)
          /\ cursor' = [cursor EXCEPT ![c] = [of |-> event.patch.farm,
                                              version |-> event.patch.version]]
       \/ cursor' = cursor
    /\ event' = [event EXCEPT !.todo = @ \ {c}, !.at = "next"]
    /\ UNCHANGED <<watching, alive, hooks, subVars, patchVars, moves>>

-----------------------------------------------------------------------------
ViewerNext ==
    \/ \E c \in Conn :
          \/ Connect(c)
          \/ Disconnect(c)
          \/ \E f \in Farm :
                \/ \E v \in 0 .. MaxPatch : SubscribeFarm(c, f, v)
                \/ Submit(c, f)
          \/ RunHook(c)
          \/ LookAt(c)
          \/ Deliver(c)
    \/ \E f \in Farm : TimerFires(f) \/ DelayedUnsubscribe(f)
    \/ ConnectionLost
    \/ Open
    \/ \E p \in unsent : Publish(p)
    \/ Receive

\* Goroutines, timers and the reconnect loop keep running.
ViewerFairness ==
    /\ \A c \in Conn : WF_viewVars(RunHook(c))
    /\ \A f \in Farm : WF_viewVars(TimerFires(f)) /\ WF_viewVars(DelayedUnsubscribe(f))
    /\ WF_viewVars(Open)

-----------------------------------------------------------------------------
\* Once nobody owes the subscriber a call, it counts exactly the watched farms
\* and, while connected, listens to every one of them.
WatchedIsHeard ==
    (\A c \in Conn : Idle(c)) =>
        \A f \in Farm :
            /\ refs[f] = IF Viewers(f) = {} THEN 0 ELSE 1
            /\ connected /\ Viewers(f) # {} => f \in channels

\* A farm nobody watches is not listened to for ever.
UnwatchedIsLeft ==
    \A f \in Farm : Viewers(f) = {} ~> (f \notin channels \/ Viewers(f) # {})
=============================================================================
