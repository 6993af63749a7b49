----------------------------- MODULE RouteControl -----------------------------
(***************************************************************************)
(* How one bucket of farms finds its owner: the controllers of the farmsvr *)
(* instances, the keys they keep in etcd, and a gateway's resolver.        *)
(*                                                                         *)
(* An instance's key and the route it claims are bound to its lease and go *)
(* with it; the epoch stays.  A controller reads the instances, then the   *)
(* routes, then acts; each of its etcd calls is a step.  A mod revision    *)
(* is compared by value: no value of a key returns, for epochs grow and a  *)
(* route names its epoch and its lease.                                    *)
(***************************************************************************)
EXTENDS Integers, Sequences, FiniteSets

CONSTANTS
    Farmsvr,     \* instance IDs
    Score,       \* Score[i]: i's rendezvous score for the bucket
    NoOwner,
    MaxStarts,   \* bound: starts of one instance
    MaxLag,      \* bound: changes a gateway is behind
    MaxRouteFaults  \* bound: leases lost by a living instance, broken watches

ASSUME RouteAssumption ==
    /\ NoOwner \notin Farmsvr
    /\ MaxStarts \in Nat /\ MaxRouteFaults \in Nat
    /\ \A i, j \in Farmsvr : Score[i] = Score[j] => i = j

VARIABLES
    started,    \* started[i]: starts of i; a lease is <<i, its start>>
    expired,    \* the leases that have expired
    registered, \* registered[i]: lease of the key instances/farmsvr/i, or 0
    route,      \* the bucket's key under farm-routes, or NoRoute
    epoch,      \* its key under farm-route-epochs
    controller, \* controller[i]: its step and what it has read
    claimed,    \* every owner an epoch was published with
    resolver,   \* the gateway's copy of the route
    watching,   \* the gateway's watch is open
    feed,       \* changes of the route after the copy's revision
    routeFaults

routeVars == <<started, expired, registered, route, epoch, controller, claimed,
               resolver, watching, feed, routeFaults>>

NoRoute == [owner |-> NoOwner, epoch |-> 0, state |-> "none", lease |-> <<NoOwner, 0>>]
Asleep == [at |-> "down", route |-> NoRoute, epoch |-> 0, seen |-> {}]
Lease(i) == <<i, started[i]>>
Running(i) == controller[i].at # "down"
Alive == {i \in Farmsvr : Running(i) /\ Lease(i) \notin expired}

RouteTypeOK ==
    /\ started \in [Farmsvr -> 0 .. MaxStarts]
    /\ registered \in [Farmsvr -> 0 .. MaxStarts]
    /\ epoch \in Nat /\ route.epoch <= epoch
    /\ route.state \in {"none", "ACTIVE", "MIGRATING"}
    /\ \A i \in Farmsvr : controller[i].seen \subseteq Farmsvr
    /\ watching \in BOOLEAN /\ routeFaults \in 0 .. MaxRouteFaults

RouteInit ==
    /\ started = [i \in Farmsvr |-> 0] /\ expired = {}
    /\ registered = [i \in Farmsvr |-> 0]
    /\ route = NoRoute /\ epoch = 0
    /\ controller = [i \in Farmsvr |-> Asleep]
    /\ claimed = {}
    /\ resolver = NoRoute /\ watching = TRUE /\ feed = <<>>
    /\ routeFaults = 0

gateVars == <<resolver, watching>>
Idles(i) == controller' = [controller EXCEPT ![i] = [Asleep EXCEPT !.at = "idle"]]
Reads(i, a, r) ==
    controller' = [controller EXCEPT ![i] = [Asleep EXCEPT !.at = a, !.route = r]]
Publishes(r) == Len(feed) < MaxLag /\ route' = r /\ feed' = Append(feed, r)

-----------------------------------------------------------------------------
(* Leases.                                                                   *)

\* Run grants a lease and registers the instance with it.
StartFarmsvr(i) ==
    /\ ~Running(i) /\ started[i] < MaxStarts
    /\ started' = [started EXCEPT ![i] = @ + 1]
    /\ registered' = [registered EXCEPT ![i] = started[i] + 1]
    /\ Idles(i)
    /\ UNCHANGED <<expired, route, epoch, claimed, gateVars, feed, routeFaults>>

\* The process ends; nobody revokes its lease.
StopFarmsvr(i) ==
    /\ Running(i)
    /\ controller' = [controller EXCEPT ![i] = Asleep]
    /\ UNCHANGED <<started, expired, registered, route, epoch, claimed, gateVars, feed, routeFaults>>

Expires(i, n) ==
    /\ n \in 1 .. started[i] /\ <<i, n>> \notin expired
    /\ expired' = expired \cup {<<i, n>>}
    /\ registered' = [registered EXCEPT ![i] = IF @ = n THEN 0 ELSE @]
    /\ IF route.lease = <<i, n>> THEN Publishes(NoRoute) ELSE UNCHANGED <<route, feed>>
    /\ UNCHANGED <<started, epoch, controller, claimed, gateVars>>

\* Nobody keeps the lease of an ended process alive.
DeadLeaseExpires(i, n) ==
    /\ n < started[i] \/ ~Running(i)
    /\ Expires(i, n)
    /\ UNCHANGED routeFaults

\* A living instance is cut off from etcd for the lease's time.
LivingLeaseExpires(i) ==
    /\ Running(i) /\ routeFaults < MaxRouteFaults
    /\ Expires(i, started[i])
    /\ routeFaults' = routeFaults + 1

\* It learns of it by its keepalive channel, or by an etcd call that names the
\* lease; Run returns and the process ends.
NoticeLeaseLost(i) ==
    /\ Running(i) /\ Lease(i) \in expired
    /\ controller' = [controller EXCEPT ![i] = Asleep]
    /\ UNCHANGED <<started, expired, registered, route, epoch, claimed, gateVars, feed, routeFaults>>

-----------------------------------------------------------------------------
(* reconcileOnce.                                                            *)

\* The highest score wins.
DesiredOwner(s) ==
    IF s = {} THEN NoOwner ELSE CHOOSE i \in s : \A j \in s : Score[j] <= Score[i]

ListInstances(i) ==
    /\ controller[i].at = "idle"
    /\ controller' = [controller EXCEPT ![i].at = "routes",
                                        ![i].seen = {j \in Farmsvr : registered[j] # 0}]
    /\ UNCHANGED <<started, expired, registered, route, epoch, claimed, gateVars, feed, routeFaults>>

\* Mutant: a route that is MIGRATING to i already is left alone.
ListRoutesClaiming(i) ==
    /\ controller[i].at = "routes"
    /\ IF DesiredOwner(controller[i].seen) = i /\ route.owner # i
       THEN Reads(i, "claim", NoRoute) ELSE Idles(i)
    /\ UNCHANGED <<started, expired, registered, route, epoch, claimed, gateVars, feed, routeFaults>>

ListRoutes(i) ==
    /\ controller[i].at = "routes"
    /\ IF DesiredOwner(controller[i].seen) # i \/ (route.owner = i /\ route.state = "ACTIVE")
       THEN Idles(i)
       ELSE IF route.owner # i THEN Reads(i, "claim", NoRoute) ELSE Reads(i, "activate", route)
    /\ UNCHANGED <<started, expired, registered, route, epoch, claimed, gateVars, feed, routeFaults>>

ClaimReadsRoute(i) ==
    /\ controller[i].at = "claim"
    /\ IF route.owner = i /\ route.state = "ACTIVE"
       THEN Idles(i) ELSE Reads(i, "claim epoch", route)
    /\ UNCHANGED <<started, expired, registered, route, epoch, claimed, gateVars, feed, routeFaults>>

ClaimReadsEpoch(i) ==
    /\ controller[i].at = "claim epoch"
    /\ controller' = [controller EXCEPT ![i].at = "claim txn", ![i].epoch = epoch]
    /\ UNCHANGED <<started, expired, registered, route, epoch, claimed, gateVars, feed, routeFaults>>

\* Mutant: the epoch is not compared.
RouteUnchanged(i) == controller[i].route = route

\* What the transaction compares.
Unchanged(i) == controller[i].route = route /\ controller[i].epoch = epoch

Claims(i) ==
    [owner |-> i, epoch |-> controller[i].epoch + 1, lease |-> Lease(i),
     state |-> IF controller[i].route = NoRoute THEN "ACTIVE" ELSE "MIGRATING"]

\* etcd refuses a transaction that names an expired lease.
ClaimTxn(i) ==
    /\ controller[i].at = "claim txn" /\ Lease(i) \notin expired
    /\ IF Unchanged(i)
       THEN /\ epoch' = Claims(i).epoch
            /\ Publishes(Claims(i))
            /\ claimed' = claimed \cup {<<Claims(i).epoch, i>>}
       ELSE UNCHANGED <<epoch, route, feed, claimed>>
    /\ Idles(i)
    /\ UNCHANGED <<started, expired, registered, gateVars, routeFaults>>

ActivateReads(i) ==
    /\ controller[i].at = "activate"
    /\ IF route.owner = i /\ route.epoch = controller[i].route.epoch
       THEN Reads(i, "activate txn", route) ELSE Idles(i)
    /\ UNCHANGED <<started, expired, registered, route, epoch, claimed, gateVars, feed, routeFaults>>

ActivateTxn(i) ==
    /\ controller[i].at = "activate txn" /\ Lease(i) \notin expired
    /\ IF controller[i].route = route
       THEN Publishes([route EXCEPT !.state = "ACTIVE", !.lease = Lease(i)])
       ELSE UNCHANGED <<route, feed>>
    /\ Idles(i)
    /\ UNCHANGED <<started, expired, registered, epoch, claimed, gateVars, routeFaults>>

-----------------------------------------------------------------------------
(* The gateway's resolver, which has read the empty table when it starts.    *)

\* sync; the watch then starts at the next revision.
Sync ==
    /\ ~watching
    /\ resolver' = route /\ feed' = <<>> /\ watching' = TRUE
    /\ UNCHANGED <<started, expired, registered, route, epoch, controller, claimed, routeFaults>>

\* sync fails, and the watch is opened at the revision it had reached.
Rewatch ==
    /\ ~watching
    /\ watching' = TRUE
    /\ UNCHANGED <<started, expired, registered, route, epoch, controller, claimed, resolver,
                   feed, routeFaults>>

WatchEvent ==
    /\ watching /\ feed # <<>>
    /\ resolver' = Head(feed) /\ feed' = Tail(feed)
    /\ UNCHANGED <<started, expired, registered, route, epoch, controller, claimed, watching,
                   routeFaults>>

WatchBreaks ==
    /\ watching /\ routeFaults < MaxRouteFaults
    /\ watching' = FALSE /\ routeFaults' = routeFaults + 1
    /\ UNCHANGED <<started, expired, registered, route, epoch, controller, claimed, resolver, feed>>

Reconcile(i) ==
    \/ ListInstances(i) \/ ListRoutes(i)
    \/ ClaimReadsRoute(i) \/ ClaimReadsEpoch(i) \/ ClaimTxn(i)
    \/ ActivateReads(i) \/ ActivateTxn(i)

RouteNext ==
    \/ \E i \in Farmsvr :
          \/ StartFarmsvr(i) \/ StopFarmsvr(i) \/ Reconcile(i)
          \/ LivingLeaseExpires(i) \/ NoticeLeaseLost(i)
          \/ \E n \in 1 .. MaxStarts : DeadLeaseExpires(i, n)
    \/ Sync \/ Rewatch \/ WatchEvent \/ WatchBreaks

\* A controller reconciles with every tick, a lease that nobody renews expires
\* and a gateway watches in a loop.  No instance has to start or stop.
RouteFairness ==
    /\ \A i \in Farmsvr : WF_routeVars(Reconcile(i)) /\ WF_routeVars(NoticeLeaseLost(i))
    /\ \A i \in Farmsvr, n \in 1 .. MaxStarts : WF_routeVars(DeadLeaseExpires(i, n))
    /\ WF_routeVars(Sync) /\ WF_routeVars(WatchEvent)

-----------------------------------------------------------------------------
\* An epoch is published with one owner, even when the route it replaces has gone
\* with its lease and two controllers claim at once (Controller.claim).
EpochHasOneOwner == \A c, d \in claimed : c[1] = d[1] => c = d

\* The epochs a gateway stamps commands with never go back, over broken watches and
\* deleted routes (Resolver.watch).
ResolvedForward ==
    [][resolver # NoRoute /\ resolver' # NoRoute => resolver'.epoch >= resolver.epoch]_routeVars

\* The gateway resolves the bucket to the owner that the living instances agree on.
Settled ==
    \/ Alive = {}
    \/ /\ resolver.state = "ACTIVE"
       /\ resolver.owner = DesiredOwner(Alive)
       /\ resolver = route

\* When instances no longer come and go, gateways come to resolve the bucket to
\* the living instance of the highest score (reconcileOnce, Resolver.watch).
RoutesSettle == <>[]Settled
=============================================================================
