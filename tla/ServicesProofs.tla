---------------------------- MODULE ServicesProofs ----------------------------
(***************************************************************************)
(* The safety properties of Services, part by part, for every number of    *)
(* instances, users, calls, events and shards.                             *)
(***************************************************************************)
EXTENDS Services, TallyProofs

-----------------------------------------------------------------------------
(* FriendEdge.                                                               *)

\* There is one other user.
LEMMA OtherUser ==
    ASSUME NEW u \in User
    PROVE  /\ Other(u) \in User /\ Other(u) # u
           /\ \A v \in User : v = u \/ v = Other(u)
           /\ Other(Other(u)) = u
  <1>1. PICK a, b \in User : a # b /\ User = {a, b} /\ NoUser \notin User
    BY UserAssumption
  <1>2. \A w \in User : \E v \in User : v # w
    BY <1>1
  <1>3. \A w \in User : Other(w) \in User /\ Other(w) # w
    BY <1>2 DEF Other
  <1> QED BY <1>1, <1>3

\* What makes AnnouncedOnce inductive: a message in the topic has an outbox
\* row, and an acknowledgement exists only once the edge that answers is ACTIVE.
FriendInv ==
    /\ FriendTypeOK
    /\ \A m \in topic : outbox[m] # "none"
    /\ \A u \in User : outbox[Ack(u)] # "none" => edge[Other(u)].state = "ACTIVE"
    /\ AnnouncedOnce

\* No step takes an ACTIVE edge away (ApplyRemote, ConfirmSource, Compensate).
LEMMA StepKeepsFriends ==
    ASSUME FriendTypeOK, FriendNext
    PROVE  \A u \in User : edge[u].state = "ACTIVE" => edge'[u].state = "ACTIVE"
  <1> USE DEF FriendTypeOK, Message
  <1>1. ASSUME NEW u \in User, Begin(u) \/ Compensate(u)
        PROVE  \A v \in User : edge[v].state = "ACTIVE" => edge'[v].state = "ACTIVE"
    BY <1>1 DEF Begin, Compensate, Fails
  <1>2. ASSUME NEW m \in Message, Deliver(m)
        PROVE  \A v \in User : edge[v].state = "ACTIVE" => edge'[v].state = "ACTIVE"
    <2>1. m.source \in User /\ Other(m.source) \in User
      BY OtherUser
    <2> QED BY <1>2, <2>1 DEF Deliver, Handle, ApplyRemote, ConfirmSource, Confirms
  <1>3. ASSUME NEW m \in Message,
               Publish(m) \/ PublishUnmarked(m) \/ GiveUp(m) \/ MarkLate(m) \/ Park(m)
        PROVE  edge' = edge
    BY <1>3 DEF Publish, PublishUnmarked, GiveUp, MarkLate, Park
  <1> QED BY <1>1, <1>2, <1>3 DEF FriendNext

LEMMA FriendInitInv == FriendInit => FriendInv
  BY OtherUser, UserAssumption
  DEF FriendInit, FriendInv, FriendTypeOK, State, AnnouncedOnce, Message, Ack

\* The first acceptance disturbs no message and no announcement.
LEMMA BeginStep ==
    ASSUME FriendInv, NEW u \in User, Begin(u)
    PROVE  FriendInv'
  <1>1. FriendTypeOK /\ Request(u) \in Message /\ \A w \in User : Request(u) # Ack(w)
    BY DEF FriendInv, Request, Message, Ack
  <1>2. FriendTypeOK'
    BY <1>1, UserAssumption DEF FriendTypeOK, Begin, State
  <1>3. \A m \in topic' : outbox'[m] # "none"
    BY <1>1 DEF FriendInv, FriendTypeOK, Begin
  <1>4. \A w \in User : outbox'[Ack(w)] # "none" => edge'[Other(w)].state = "ACTIVE"
    BY <1>1, OtherUser DEF FriendInv, FriendTypeOK, Begin, Message, Ack
  <1>5. AnnouncedOnce'
    BY <1>1, OtherUser DEF FriendInv, AnnouncedOnce, Friends, Begin, FriendTypeOK
  <1> QED BY <1>2, <1>3, <1>4, <1>5 DEF FriendInv

\* Compensation touches a PENDING edge only, and no friendship is announced then.
LEMMA CompensateStep ==
    ASSUME FriendInv, NEW u \in User, Compensate(u)
    PROVE  FriendInv'
  <1>1. FriendTypeOK /\ edge[u].state = "PENDING"
    BY DEF FriendInv, Compensate, Fails
  <1>2. FriendTypeOK'
    BY <1>1 DEF FriendTypeOK, Compensate, Fails, State
  <1>3. \A m \in topic' : outbox'[m] # "none"
    BY DEF FriendInv, Compensate
  <1>4. \A w \in User : outbox'[Ack(w)] # "none" => edge'[Other(w)].state = "ACTIVE"
    BY <1>1, OtherUser DEF FriendInv, FriendTypeOK, Compensate
  <1>5. AnnouncedOnce'
    BY <1>1, OtherUser DEF FriendInv, AnnouncedOnce, Friends, Compensate, FriendTypeOK
  <1> QED BY <1>2, <1>3, <1>4, <1>5 DEF FriendInv

\* The relay and the parking change neither edges nor announcements.
LEMMA RelayStep ==
    ASSUME FriendInv, NEW m \in Message,
           Publish(m) \/ PublishUnmarked(m) \/ GiveUp(m) \/ MarkLate(m) \/ Park(m)
    PROVE  FriendInv'
  <1> USE DEF Publish, PublishUnmarked, GiveUp, MarkLate, Park
  <1>1. FriendTypeOK
    BY DEF FriendInv
  <1>2. FriendTypeOK'
    BY <1>1 DEF FriendTypeOK
  <1>3. /\ \A n \in Message : outbox'[n] # "none" <=> outbox[n] # "none"
        /\ \A n \in topic' : n \in topic \/ outbox[n] # "none"
    BY <1>1 DEF FriendTypeOK
  <1>4. \A n \in topic' : outbox'[n] # "none"
    BY <1>2, <1>3 DEF FriendInv, FriendTypeOK
  <1>5. \A w \in User : Ack(w) \in Message
    BY DEF Ack, Message
  <1>6. \A w \in User : outbox'[Ack(w)] # "none" => edge'[Other(w)].state = "ACTIVE"
    BY <1>3, <1>5 DEF FriendInv
  <1>7. AnnouncedOnce'
    BY DEF FriendInv, AnnouncedOnce, Friends
  <1> QED BY <1>2, <1>4, <1>6, <1>7 DEF FriendInv

\* A request delivered: the edge that answers becomes ACTIVE with its
\* acknowledgement, or nothing changes.
LEMMA RequestStep ==
    ASSUME FriendInv, NEW u \in User, Deliver(Request(u))
    PROVE  FriendInv'
  <1> DEFINE t == Other(u)
  <1>1. FriendTypeOK /\ t \in User /\ Ack(u) \in Message
    BY OtherUser DEF FriendInv, Ack, Message
  <1>2. ApplyRemote(u) /\ UNCHANGED topic
    BY DEF Deliver, Handle, Request
  <1>3. FriendTypeOK'
    BY <1>1, <1>2, UserAssumption DEF FriendTypeOK, Deliver, ApplyRemote, State
  <1>4. \A m \in topic' : outbox'[m] # "none"
    BY <1>1, <1>2 DEF FriendInv, FriendTypeOK, ApplyRemote
  <1>5. \A w \in User : edge[w].state = "ACTIVE" => edge'[w].state = "ACTIVE"
    BY <1>1, <1>2 DEF FriendTypeOK, ApplyRemote
  <1>6. \A w \in User : outbox'[Ack(w)] # "none" => edge'[Other(w)].state = "ACTIVE"
    <2> SUFFICES ASSUME NEW w \in User, outbox'[Ack(w)] # "none"
                 PROVE  edge'[Other(w)].state = "ACTIVE"
      OBVIOUS
    <2>1. Other(w) \in User /\ Ack(w) \in Message
      BY OtherUser DEF Ack, Message
    <2>2. CASE outbox[Ack(w)] # "none"
      BY <1>5, <2>1, <2>2 DEF FriendInv
    <2>3. CASE outbox[Ack(w)] = "none"
      <3>1. Ack(w) = Ack(u) /\ edge' = [edge EXCEPT ![t].state = "ACTIVE",
                                        ![t].event = IF @ = NoUser THEN u ELSE @]
        BY <1>1, <1>2, <2>1, <2>3 DEF ApplyRemote, FriendTypeOK
      <3>2. w = u
        BY <3>1 DEF Ack
      <3> QED BY <1>1, <3>1, <3>2 DEF FriendTypeOK
    <2> QED BY <2>2, <2>3
  <1>7. AnnouncedOnce'
    BY <1>2, <1>5, OtherUser DEF FriendInv, AnnouncedOnce, Friends, ApplyRemote
  <1> QED BY <1>3, <1>4, <1>6, <1>7 DEF FriendInv

\* An acknowledgement delivered: the other edge is ACTIVE, so this is the first
\* announcement and both are friends.
LEMMA AckStep ==
    ASSUME FriendInv, NEW u \in User, Deliver(Ack(u))
    PROVE  FriendInv'
  <1>1. /\ FriendTypeOK /\ Other(u) \in User /\ Other(u) # u
        /\ Ack(u) \in Message /\ Ack(u) \in topic
    BY OtherUser DEF FriendInv, Ack, Message, Deliver
  <1>2. ConfirmSource(u) /\ UNCHANGED topic
    BY DEF Deliver, Handle, Ack
  <1>3. edge[Other(u)].state = "ACTIVE"
    BY <1>1 DEF FriendInv
  <1>4. CASE ~ Confirms(u)
    <2>1. UNCHANGED <<edge, outbox, accepted, topic>>
      BY <1>2, <1>4 DEF ConfirmSource
    <2>2. FriendTypeOK'
      BY <1>1, <2>1 DEF FriendTypeOK, Deliver
    <2> QED BY <2>1, <2>2 DEF FriendInv, AnnouncedOnce, Friends
  <1>5. CASE Confirms(u)
    <2>1. /\ edge' = [edge EXCEPT ![u].state = "ACTIVE"]
          /\ accepted' = [accepted EXCEPT ![u] = @ + 1]
          /\ UNCHANGED <<outbox, topic>>
          /\ edge[u].state = "PENDING" /\ edge[u].event = u
      BY <1>2, <1>5 DEF ConfirmSource, Confirms
    <2>2. FriendTypeOK'
      BY <1>1, <2>1 DEF FriendTypeOK, Deliver, State
    <2>3. \A w \in User : edge[w].state = "ACTIVE" => edge'[w].state = "ACTIVE"
      BY <1>1, <2>1 DEF FriendTypeOK
    <2>4. \A w \in User : outbox'[Ack(w)] # "none" => edge'[Other(w)].state = "ACTIVE"
      BY <2>1, <2>3, OtherUser DEF FriendInv
    <2>5. \A w \in User : accepted[w] = 0
      BY <1>1, <2>1 DEF FriendInv, AnnouncedOnce, Friends, FriendTypeOK
    <2>6. Friends'
      BY <1>1, <1>3, <2>1, <2>3, OtherUser DEF Friends, FriendTypeOK
    <2>7. accepted'[u] = 1 /\ accepted'[Other(u)] = 0
      BY <1>1, <2>1, <2>5 DEF FriendTypeOK
    <2>8. AnnouncedOnce'
      BY <2>6, <2>7, OtherUser DEF AnnouncedOnce
    <2> QED BY <2>1, <2>2, <2>4, <2>8 DEF FriendInv
  <1> QED BY <1>4, <1>5

LEMMA FriendStepInv == FriendInv /\ [FriendNext]_friendVars => FriendInv'
  <1> SUFFICES ASSUME FriendInv, [FriendNext]_friendVars PROVE FriendInv'
    OBVIOUS
  <1>1. ASSUME NEW u \in User, Begin(u) PROVE FriendInv'
    BY <1>1, BeginStep
  <1>2. ASSUME NEW u \in User, Compensate(u) PROVE FriendInv'
    BY <1>2, CompensateStep
  <1>3. ASSUME NEW m \in Message,
               Publish(m) \/ PublishUnmarked(m) \/ GiveUp(m) \/ MarkLate(m) \/ Park(m)
        PROVE  FriendInv'
    BY <1>3, RelayStep
  <1>4. ASSUME NEW m \in Message, Deliver(m) PROVE FriendInv'
    <2>1. PICK u \in User : m = Request(u) \/ m = Ack(u)
      BY DEF Message, Request, Ack
    <2> QED BY <1>4, <2>1, RequestStep, AckStep
  <1>5. ASSUME UNCHANGED friendVars PROVE FriendInv'
    BY <1>5 DEF friendVars, FriendInv, FriendTypeOK, AnnouncedOnce, Friends
  <1> QED BY <1>1, <1>2, <1>3, <1>4, <1>5 DEF FriendNext

\* In every reachable state an acknowledgement names an ACTIVE edge.
THEOREM FriendInvariance == FriendSpec => []FriendInv
  BY FriendInitInv, FriendStepInv, PTL DEF FriendSpec

\* Edges, rows and messages keep their types (friendship_edges, outbox_events).
THEOREM FriendTypes == FriendSpec => []FriendTypeOK
  <1>1. FriendInv => FriendTypeOK
    BY DEF FriendInv
  <1> QED BY <1>1, FriendInvariance, PTL

\* A friendship is announced at most once, to friends (ConfirmSource).
THEOREM AnnouncedAtMostOnce == FriendSpec => []AnnouncedOnce
  <1>1. FriendInv => AnnouncedOnce
    BY DEF FriendInv
  <1> QED BY <1>1, FriendInvariance, PTL

\* No step takes an ACTIVE edge away (CompensateDeadRequests, late messages).
THEOREM FriendsForGood == FriendSpec => StayFriends
  <1>1. FriendTypeOK /\ [FriendNext]_friendVars =>
          [\A u \in User : edge[u].state = "ACTIVE" => edge'[u].state = "ACTIVE"]_friendVars
    BY StepKeepsFriends
  <1> QED BY <1>1, FriendTypes, PTL DEF FriendSpec, StayFriends

-----------------------------------------------------------------------------
(* RouteControl.                                                             *)

Route == [owner : Farmsvr \cup {NoOwner}, epoch : Nat,
          state : {"none", "ACTIVE", "MIGRATING"},
          lease : (Farmsvr \cup {NoOwner}) \X Nat]

Steps == {"down", "idle", "routes", "claim", "claim epoch", "claim txn", "activate", "activate txn"}
Reconciler == [at : Steps, route : Route, epoch : Nat, seen : SUBSET Farmsvr]

\* Of two routes that exist the later one has no lower epoch.
NotBefore(r, q) == r # NoRoute /\ q # NoRoute => r.epoch <= q.epoch

ControllersOK ==
    /\ controller \in [Farmsvr -> Reconciler]
    /\ \A i \in Farmsvr : controller[i].at = "activate txn" => controller[i].route # NoRoute

RouteTyped ==
    /\ RouteTypeOK
    /\ route \in Route /\ resolver \in Route /\ feed \in Seq(Route)
    /\ ControllersOK

\* The gateway's copy, the changes on their way and the route are in the order of
\* their epochs.
Trail ==
    /\ NotBefore(resolver, route) /\ resolver.epoch <= epoch
    /\ \A k \in DOMAIN feed : /\ NotBefore(resolver, feed[k]) /\ NotBefore(feed[k], route)
                              /\ feed[k].epoch <= epoch
    /\ \A k, l \in DOMAIN feed : k < l => NotBefore(feed[k], feed[l])

\* The key is never below an epoch that was published.
RouteInv ==
    /\ RouteTyped
    /\ Trail
    /\ \A c \in claimed : c[1] \in Nat /\ c[1] <= epoch
    /\ EpochHasOneOwner

LEMMA NoRouteTyped == NoRoute \in Route /\ NoRoute.epoch = 0 /\ NoRoute.state = "none"
  BY DEF NoRoute, Route

\* Whatever a controller reads or forgets, it keeps its type.
LEMMA ControllerStep ==
    ASSUME ControllersOK, NEW i \in Farmsvr, NEW v \in Reconciler,
           v.at = "activate txn" => v.route # NoRoute,
           controller' = [controller EXCEPT ![i] = v]
    PROVE  ControllersOK'
  <1>1. controller' \in [Farmsvr -> Reconciler]
    BY DEF ControllersOK
  <1>2. \A j \in Farmsvr : controller'[j] = IF j = i THEN v ELSE controller[j]
    BY DEF ControllersOK
  <1> QED BY <1>1, <1>2 DEF ControllersOK

LEMMA AsleepTyped ==
    /\ Asleep \in Reconciler /\ Asleep.at = "down"
    /\ \A a \in Steps : /\ [Asleep EXCEPT !.at = a] \in Reconciler
                        /\ [Asleep EXCEPT !.at = a].at = a
    /\ \A a \in Steps, r \in Route :
           /\ [Asleep EXCEPT !.at = a, !.route = r] \in Reconciler
           /\ [Asleep EXCEPT !.at = a, !.route = r].at = a
           /\ [Asleep EXCEPT !.at = a, !.route = r].route = r
  <1>1. Asleep \in Reconciler /\ Asleep.at = "down"
    BY NoRouteTyped DEF Asleep, Reconciler, Steps
  <1> QED BY <1>1 DEF Reconciler

LEMMA SleepStep ==
    ASSUME ControllersOK, NEW i \in Farmsvr, controller' = [controller EXCEPT ![i] = Asleep]
    PROVE  ControllersOK'
  BY AsleepTyped, ControllerStep

LEMMA IdleStep ==
    ASSUME ControllersOK, NEW i \in Farmsvr, Idles(i)
    PROVE  ControllersOK'
  <1> DEFINE v == [Asleep EXCEPT !.at = "idle"]
  <1>1. v \in Reconciler /\ v.at = "idle"
    BY AsleepTyped DEF Steps
  <1>2. controller' = [controller EXCEPT ![i] = v]
    BY DEF Idles
  <1> HIDE DEF v
  <1> QED BY <1>1, <1>2, ControllerStep

LEMMA ReadStep ==
    ASSUME ControllersOK, NEW i \in Farmsvr, NEW a \in Steps, NEW r \in Route, Reads(i, a, r),
           a = "activate txn" => r # NoRoute
    PROVE  ControllersOK'
  <1> DEFINE v == [Asleep EXCEPT !.at = a, !.route = r]
  <1>1. v \in Reconciler /\ v.at = a /\ v.route = r
    BY AsleepTyped
  <1>2. controller' = [controller EXCEPT ![i] = v]
    BY DEF Reads
  <1> HIDE DEF v
  <1> QED BY <1>1, <1>2, ControllerStep

\* Steps of leases and controllers that publish nothing.
LEMMA QuietStep ==
    ASSUME RouteInv, UNCHANGED <<route, epoch, claimed, resolver, feed>>,
           ControllersOK',
           started' \in [Farmsvr -> 0 .. MaxStarts], registered' \in [Farmsvr -> 0 .. MaxStarts],
           watching' \in BOOLEAN, routeFaults' \in 0 .. MaxRouteFaults
    PROVE  RouteInv'
  <1>1. RouteTyped'
    BY DEF RouteInv, RouteTyped, RouteTypeOK, ControllersOK, Reconciler
  <1>2. Trail'
    BY DEF RouteInv, Trail
  <1> QED BY <1>1, <1>2 DEF RouteInv, EpochHasOneOwner

\* What is published is a deletion, has a new epoch, or the epoch of the route it
\* replaces.
LEMMA PublishTrail ==
    ASSUME RouteInv, NEW r \in Route, Publishes(r), resolver' = resolver,
           epoch' \in Nat, epoch <= epoch', r.epoch <= epoch',
           \/ r = NoRoute
           \/ r.epoch > epoch
           \/ route # NoRoute /\ r.epoch = route.epoch
    PROVE  Trail' /\ route' = r /\ feed' \in Seq(Route)
  <1>1. /\ feed \in Seq(Route) /\ route \in Route /\ resolver \in Route /\ epoch \in Nat
        /\ Len(feed) \in Nat /\ Trail
    <2>1. feed \in Seq(Route) /\ route \in Route /\ resolver \in Route /\ Trail
      BY DEF RouteInv, RouteTyped
    <2>2. epoch \in Nat
      BY DEF RouteInv, RouteTyped, RouteTypeOK
    <2> QED BY <2>1, <2>2
  <1>2. route' = r /\ feed' = Append(feed, r)
    BY DEF Publishes
  <1>3. /\ feed' \in Seq(Route) /\ DOMAIN feed' = 1 .. Len(feed) + 1
        /\ DOMAIN feed = 1 .. Len(feed)
        /\ \A k \in 1 .. Len(feed) : feed'[k] = feed[k]
        /\ feed'[Len(feed) + 1] = r
    <2>1. \A s \in Seq(Route) :
            /\ Append(s, r) \in Seq(Route) /\ Len(Append(s, r)) = Len(s) + 1
            /\ DOMAIN s = 1 .. Len(s)
            /\ \A k \in 1 .. Len(s) : Append(s, r)[k] = s[k]
            /\ Append(s, r)[Len(s) + 1] = r
      OBVIOUS
    <2>2. \A s \in Seq(Route) : DOMAIN s = 1 .. Len(s)
      OBVIOUS
    <2> QED BY <1>1, <1>2, <2>1, <2>2
  <1>4. \A q \in Route : NotBefore(q, route) /\ q.epoch <= epoch => NotBefore(q, r)
    BY <1>1 DEF NotBefore, Route
  <1>5. \A q \in Route : q.epoch <= epoch => q.epoch <= epoch'
    BY <1>1 DEF Route
  <1>6. \A k \in 1 .. Len(feed) :
          /\ feed[k] \in Route /\ NotBefore(resolver, feed[k]) /\ NotBefore(feed[k], r)
          /\ feed[k].epoch <= epoch'
    <2> SUFFICES ASSUME NEW k \in 1 .. Len(feed)
                 PROVE  /\ feed[k] \in Route /\ NotBefore(resolver, feed[k])
                        /\ NotBefore(feed[k], r) /\ feed[k].epoch <= epoch'
      OBVIOUS
    <2>1. feed[k] \in Route
      BY <1>1
    <2>2. /\ NotBefore(resolver, feed[k]) /\ NotBefore(feed[k], route) /\ feed[k].epoch <= epoch
      BY <1>1, <1>3 DEF Trail
    <2> QED BY <1>4, <1>5, <2>1, <2>2
  <1>7. NotBefore(resolver, r) /\ resolver.epoch <= epoch'
    BY <1>1, <1>4, <1>5 DEF Trail
  <1>8. NotBefore(r, r)
    BY DEF NotBefore, Route
  <1>9. \A k \in 1 .. Len(feed) + 1 : k \in 1 .. Len(feed) \/ k = Len(feed) + 1
    BY <1>1
  <1>10. \A k, l \in 1 .. Len(feed) + 1 : k < l =>
           k \in 1 .. Len(feed) /\ (l \in 1 .. Len(feed) \/ l = Len(feed) + 1)
    BY <1>1
  <1>11. \A k \in DOMAIN feed' : /\ NotBefore(resolver, feed'[k]) /\ NotBefore(feed'[k], r)
                                 /\ feed'[k].epoch <= epoch'
    BY <1>3, <1>6, <1>7, <1>8, <1>9
  <1>12. \A k, l \in DOMAIN feed' : k < l => NotBefore(feed'[k], feed'[l])
    BY <1>1, <1>3, <1>6, <1>10 DEF Trail
  <1> QED BY <1>2, <1>3, <1>7, <1>11, <1>12 DEF Trail, NotBefore

LEMMA LeaseStep ==
    ASSUME RouteInv, NEW i \in Farmsvr,
           StartFarmsvr(i) \/ StopFarmsvr(i) \/ NoticeLeaseLost(i)
    PROVE  RouteInv'
  <1>1. RouteTyped /\ ControllersOK /\ MaxStarts \in Nat
    BY RouteAssumption DEF RouteInv, RouteTyped
  <1>2. /\ started \in [Farmsvr -> 0 .. MaxStarts] /\ registered \in [Farmsvr -> 0 .. MaxStarts]
        /\ watching \in BOOLEAN /\ routeFaults \in 0 .. MaxRouteFaults
    BY <1>1 DEF RouteTyped, RouteTypeOK
  <1>3. ControllersOK'
    BY <1>1, SleepStep, IdleStep DEF StartFarmsvr, StopFarmsvr, NoticeLeaseLost
  <1>4. /\ started' \in [Farmsvr -> 0 .. MaxStarts] /\ registered' \in [Farmsvr -> 0 .. MaxStarts]
        /\ UNCHANGED <<route, epoch, claimed, resolver, watching, feed, routeFaults>>
    <2>1. CASE StartFarmsvr(i)
      <3>1. started[i] + 1 \in 0 .. MaxStarts
        BY <1>1, <1>2, <2>1 DEF StartFarmsvr
      <3> QED BY <1>2, <2>1, <3>1 DEF StartFarmsvr, gateVars
    <2>2. CASE StopFarmsvr(i) \/ NoticeLeaseLost(i)
      BY <1>2, <2>2 DEF StopFarmsvr, NoticeLeaseLost, gateVars
    <2> QED BY <2>1, <2>2
  <1> QED BY <1>2, <1>3, <1>4, QuietStep

\* What a controller reads in reconcileOnce changes nothing but what it knows.
LEMMA ReadingStep ==
    ASSUME RouteInv, NEW i \in Farmsvr,
           \/ ListInstances(i) \/ ListRoutes(i) \/ ClaimReadsRoute(i) \/ ClaimReadsEpoch(i)
           \/ ActivateReads(i)
    PROVE  RouteInv'
  <1>1. ControllersOK /\ route \in Route /\ controller[i] \in Reconciler
    BY DEF RouteInv, RouteTyped, ControllersOK
  <1>2. /\ started \in [Farmsvr -> 0 .. MaxStarts] /\ registered \in [Farmsvr -> 0 .. MaxStarts]
        /\ watching \in BOOLEAN /\ routeFaults \in 0 .. MaxRouteFaults /\ epoch \in Nat
    BY DEF RouteInv, RouteTyped, RouteTypeOK
  <1>3. UNCHANGED <<started, registered, route, epoch, claimed, resolver, watching, feed, routeFaults>>
    BY DEF ListInstances, ListRoutes, ClaimReadsRoute, ClaimReadsEpoch, ActivateReads, gateVars
  <1>4. ASSUME ListInstances(i) PROVE ControllersOK'
    <2> DEFINE v == [controller[i] EXCEPT !.at = "routes", !.seen = {j \in Farmsvr : registered[j] # 0}]
    <2>1. v \in Reconciler /\ v.at = "routes"
      BY <1>1 DEF Reconciler, Steps
    <2>2. controller' = [controller EXCEPT ![i] = v]
      BY <1>4 DEF ListInstances
    <2> HIDE DEF v
    <2> QED BY <1>1, <2>1, <2>2, ControllerStep
  <1>5. ASSUME ClaimReadsEpoch(i) PROVE ControllersOK'
    <2> DEFINE v == [controller[i] EXCEPT !.at = "claim txn", !.epoch = epoch]
    <2>1. v \in Reconciler /\ v.at = "claim txn"
      BY <1>1, <1>2 DEF Reconciler, Steps
    <2>2. controller' = [controller EXCEPT ![i] = v]
      BY <1>5 DEF ClaimReadsEpoch
    <2> HIDE DEF v
    <2> QED BY <1>1, <2>1, <2>2, ControllerStep
  <1>6. ASSUME ListRoutes(i) PROVE ControllersOK'
    BY <1>1, <1>6, NoRouteTyped, IdleStep, ReadStep DEF ListRoutes, Steps
  <1>7. ASSUME ClaimReadsRoute(i) PROVE ControllersOK'
    BY <1>1, <1>7, IdleStep, ReadStep DEF ClaimReadsRoute, Steps
  <1>8. ASSUME ActivateReads(i) PROVE ControllersOK'
    <2>1. route.owner = i => route # NoRoute
      BY RouteAssumption DEF NoRoute
    <2> QED BY <1>1, <1>8, <2>1, IdleStep, ReadStep DEF ActivateReads, Steps
  <1>9. ControllersOK'
    BY <1>4, <1>5, <1>6, <1>7, <1>8
  <1> QED BY <1>2, <1>3, <1>9, QuietStep

LEMMA ExpiryStep ==
    ASSUME RouteInv, NEW i \in Farmsvr, NEW n, Expires(i, n),
           routeFaults' \in 0 .. MaxRouteFaults
    PROVE  RouteInv'
  <1>1. /\ RouteTyped /\ Trail /\ ControllersOK /\ MaxStarts \in Nat /\ route \in Route
    BY RouteAssumption DEF RouteInv, RouteTyped
  <1>2. /\ started \in [Farmsvr -> 0 .. MaxStarts] /\ registered \in [Farmsvr -> 0 .. MaxStarts]
        /\ watching \in BOOLEAN /\ epoch \in Nat /\ route.epoch <= epoch
    BY <1>1 DEF RouteTyped, RouteTypeOK
  <1>3. /\ UNCHANGED <<started, epoch, controller, claimed, resolver, watching>>
        /\ registered' \in [Farmsvr -> 0 .. MaxStarts]
    BY <1>1, <1>2 DEF Expires, gateVars
  <1>4. ControllersOK'
    BY <1>1, <1>3 DEF ControllersOK
  <1>5. CASE UNCHANGED <<route, feed>>
    BY <1>2, <1>3, <1>4, <1>5, QuietStep
  <1>6. CASE Publishes(NoRoute)
    <2>1. Trail' /\ route' = NoRoute /\ feed' \in Seq(Route)
      BY <1>2, <1>3, <1>6, NoRouteTyped, PublishTrail
    <2>2. route'.epoch <= epoch' /\ route'.state \in {"none", "ACTIVE", "MIGRATING"}
      BY <1>2, <1>3, <2>1, NoRouteTyped
    <2>3. \A j \in Farmsvr : controller'[j].seen \subseteq Farmsvr
      BY <1>4 DEF ControllersOK, Reconciler
    <2>4. RouteTypeOK'
      BY <1>2, <1>3, <2>2, <2>3 DEF RouteTypeOK
    <2>5. RouteTyped'
      BY <1>1, <1>3, <1>4, <2>1, <2>4, NoRouteTyped DEF RouteTyped
    <2> QED BY <1>3, <2>1, <2>5 DEF RouteInv, EpochHasOneOwner
  <1> QED BY <1>5, <1>6 DEF Expires

\* The claim writes the next epoch, which nobody has published: it compared the key.
LEMMA ClaimStep ==
    ASSUME RouteInv, NEW i \in Farmsvr, ClaimTxn(i)
    PROVE  RouteInv'
  <1>1. /\ RouteTyped /\ Trail /\ ControllersOK /\ controller[i] \in Reconciler
    BY DEF RouteInv, RouteTyped, ControllersOK
  <1>2. /\ started \in [Farmsvr -> 0 .. MaxStarts] /\ registered \in [Farmsvr -> 0 .. MaxStarts]
        /\ watching \in BOOLEAN /\ routeFaults \in 0 .. MaxRouteFaults /\ epoch \in Nat
    BY <1>1 DEF RouteTyped, RouteTypeOK
  <1>3. UNCHANGED <<started, registered, resolver, watching, routeFaults>> /\ ControllersOK'
    BY <1>1, IdleStep DEF ClaimTxn, gateVars
  <1>4. CASE UNCHANGED <<epoch, route, feed, claimed>>
    BY <1>2, <1>3, <1>4, QuietStep
  <1>5. CASE /\ Unchanged(i) /\ epoch' = Claims(i).epoch /\ Publishes(Claims(i))
             /\ claimed' = claimed \cup {<<Claims(i).epoch, i>>}
    <2>1. Claims(i).epoch = epoch + 1
      BY <1>5 DEF Unchanged, Claims
    <2>2. Claims(i) \in Route
      <3>1. Lease(i) \in (Farmsvr \cup {NoOwner}) \X Nat
        BY <1>2, RouteAssumption DEF Lease
      <3>2. controller[i].epoch + 1 \in Nat
        BY <1>1 DEF Reconciler
      <3> QED BY <3>1, <3>2 DEF Claims, Route
    <2> DEFINE r == Claims(i)
    <2> HIDE DEF r
    <2>3. r \in Route /\ Publishes(r) /\ epoch' = epoch + 1 /\ r.epoch = epoch + 1
          /\ claimed' = claimed \cup {<<epoch + 1, i>>}
      BY <1>5, <2>1, <2>2 DEF r
    <2>4. Trail' /\ route' = r /\ feed' \in Seq(Route)
      BY <1>2, <1>3, <2>3, PublishTrail
    <2>5. route'.epoch <= epoch' /\ route'.state \in {"none", "ACTIVE", "MIGRATING"}
          /\ epoch' \in Nat
      BY <1>2, <2>3, <2>4 DEF Route
    <2>6. \A j \in Farmsvr : controller'[j].seen \subseteq Farmsvr
      BY <1>3 DEF ControllersOK, Reconciler
    <2>7. RouteTypeOK'
      BY <1>2, <1>3, <2>5, <2>6 DEF RouteTypeOK
    <2>8. RouteTyped'
      BY <1>1, <1>3, <2>3, <2>4, <2>7 DEF RouteTyped
    <2>9. \A c \in claimed' : c[1] \in Nat /\ c[1] <= epoch'
      BY <1>2, <2>3 DEF RouteInv
    <2>10. EpochHasOneOwner'
      BY <1>2, <2>3 DEF RouteInv, EpochHasOneOwner
    <2> QED BY <2>4, <2>8, <2>9, <2>10 DEF RouteInv
  <1> QED BY <1>4, <1>5 DEF ClaimTxn

LEMMA ActivationStep ==
    ASSUME RouteInv, NEW i \in Farmsvr, ActivateTxn(i)
    PROVE  RouteInv'
  <1>1. /\ RouteTyped /\ Trail /\ ControllersOK /\ route \in Route
    BY DEF RouteInv, RouteTyped
  <1>2. /\ started \in [Farmsvr -> 0 .. MaxStarts] /\ registered \in [Farmsvr -> 0 .. MaxStarts]
        /\ watching \in BOOLEAN /\ routeFaults \in 0 .. MaxRouteFaults
        /\ epoch \in Nat /\ route.epoch <= epoch
    BY <1>1 DEF RouteTyped, RouteTypeOK
  <1>3. UNCHANGED <<started, registered, epoch, claimed, resolver, watching, routeFaults>>
        /\ ControllersOK'
    BY <1>1, IdleStep DEF ActivateTxn, gateVars
  <1>4. CASE UNCHANGED <<route, feed>>
    BY <1>2, <1>3, <1>4, QuietStep
  <1> DEFINE r == [route EXCEPT !.state = "ACTIVE", !.lease = Lease(i)]
  <1>5. CASE controller[i].route = route /\ Publishes(r)
    <2>1. route # NoRoute
      BY <1>1, <1>5 DEF ControllersOK, ActivateTxn
    <2>2. r \in Route /\ r.epoch = route.epoch
      <3>1. Lease(i) \in (Farmsvr \cup {NoOwner}) \X Nat
        BY <1>2, RouteAssumption DEF Lease
      <3> QED BY <1>1, <3>1 DEF Route
    <2> HIDE DEF r
    <2>3. Trail' /\ route' = r /\ feed' \in Seq(Route)
      BY <1>2, <1>3, <1>5, <2>1, <2>2, PublishTrail
    <2>4. route'.epoch <= epoch' /\ route'.state \in {"none", "ACTIVE", "MIGRATING"}
      BY <1>2, <1>3, <2>2, <2>3 DEF Route
    <2>5. \A j \in Farmsvr : controller'[j].seen \subseteq Farmsvr
      BY <1>3 DEF ControllersOK, Reconciler
    <2>6. RouteTypeOK'
      BY <1>2, <1>3, <2>4, <2>5 DEF RouteTypeOK
    <2>7. RouteTyped'
      BY <1>1, <1>3, <2>2, <2>3, <2>6 DEF RouteTyped
    <2> QED BY <1>3, <2>3, <2>7 DEF RouteInv, EpochHasOneOwner
  <1> QED BY <1>4, <1>5 DEF ActivateTxn

\* The gateway's copy is the route itself, or moves along the feed.
LEMMA GatewayStep ==
    ASSUME RouteInv, Sync \/ Rewatch \/ WatchEvent \/ WatchBreaks
    PROVE  RouteInv'
  <1>1. /\ RouteTyped /\ Trail /\ ControllersOK /\ route \in Route /\ resolver \in Route
        /\ feed \in Seq(Route)
    BY DEF RouteInv, RouteTyped
  <1>2. /\ started \in [Farmsvr -> 0 .. MaxStarts] /\ registered \in [Farmsvr -> 0 .. MaxStarts]
        /\ watching \in BOOLEAN /\ routeFaults \in 0 .. MaxRouteFaults
        /\ epoch \in Nat /\ route.epoch <= epoch /\ MaxRouteFaults \in Nat
    BY <1>1, RouteAssumption DEF RouteTyped, RouteTypeOK
  <1>3. UNCHANGED <<started, registered, route, epoch, claimed, controller>>
    BY DEF Sync, Rewatch, WatchEvent, WatchBreaks
  <1>4. ControllersOK' /\ watching' \in BOOLEAN /\ routeFaults' \in 0 .. MaxRouteFaults
    <2>1. ControllersOK'
      BY <1>1, <1>3 DEF ControllersOK
    <2>2. routeFaults' = routeFaults \/ (routeFaults < MaxRouteFaults /\ routeFaults' = routeFaults + 1)
      BY DEF Sync, Rewatch, WatchEvent, WatchBreaks
    <2>3. watching' \in BOOLEAN
      BY <1>2 DEF Sync, Rewatch, WatchEvent, WatchBreaks
    <2>4. routeFaults' \in 0 .. MaxRouteFaults
      BY <1>2, <2>2
    <2> QED BY <2>1, <2>3, <2>4
  <1>5. CASE UNCHANGED <<resolver, feed>>
    BY <1>2, <1>3, <1>4, <1>5, QuietStep
  <1>6. CASE resolver' \in Route /\ feed' \in Seq(Route) /\ Trail'
    <2>1. RouteTypeOK'
      BY <1>1, <1>2, <1>3, <1>4 DEF RouteTyped, RouteTypeOK
    <2>2. RouteTyped'
      BY <1>1, <1>3, <1>4, <1>6, <2>1 DEF RouteTyped
    <2> QED BY <1>3, <1>6, <2>2 DEF RouteInv, EpochHasOneOwner
  <1>7. ASSUME Sync PROVE resolver' \in Route /\ feed' \in Seq(Route) /\ Trail'
    <2>1. resolver' = route /\ feed' = <<>> /\ UNCHANGED <<route, epoch>>
      BY <1>7 DEF Sync
    <2>2. DOMAIN feed' = {} /\ feed' \in Seq(Route)
      BY <2>1
    <2>3. NotBefore(route, route)
      BY <1>1 DEF NotBefore, Route
    <2> QED BY <1>1, <1>2, <2>1, <2>2, <2>3 DEF Trail, NotBefore
  <1>8. ASSUME WatchEvent PROVE resolver' \in Route /\ feed' \in Seq(Route) /\ Trail'
    <2>1. feed # <<>> /\ resolver' = Head(feed) /\ feed' = Tail(feed) /\ UNCHANGED <<route, epoch>>
      BY <1>8 DEF WatchEvent
    <2>2. \A s \in Seq(Route) : s # <<>> =>
            /\ Len(s) \in Nat /\ 1 \in DOMAIN s /\ Head(s) = s[1] /\ s[1] \in Route
            /\ DOMAIN s = 1 .. Len(s)
            /\ Tail(s) \in Seq(Route) /\ DOMAIN Tail(s) = 1 .. Len(s) - 1
            /\ \A k \in 1 .. Len(s) - 1 : Tail(s)[k] = s[k + 1]
      OBVIOUS
    <2>3. /\ Len(feed) \in Nat /\ 1 \in DOMAIN feed /\ resolver' = feed[1]
          /\ feed[1] \in Route /\ DOMAIN feed = 1 .. Len(feed)
          /\ feed' \in Seq(Route) /\ DOMAIN feed' = 1 .. Len(feed) - 1
          /\ \A k \in 1 .. Len(feed) - 1 : feed'[k] = feed[k + 1]
      BY <1>1, <2>1, <2>2
    <2>4. \A k \in 1 .. Len(feed) - 1 : k + 1 \in DOMAIN feed /\ 1 < k + 1
      BY <2>3
    <2>5. NotBefore(resolver', route') /\ resolver'.epoch <= epoch'
      BY <1>1, <2>1, <2>3 DEF Trail, NotBefore
    <2>6. \A k \in DOMAIN feed' : /\ NotBefore(feed[1], feed[k + 1])
                                  /\ NotBefore(feed[k + 1], route)
                                  /\ feed[k + 1].epoch <= epoch
      BY <1>1, <2>3, <2>4 DEF Trail
    <2>7. \A k, l \in DOMAIN feed' : k < l => NotBefore(feed[k + 1], feed[l + 1])
      <3>1. \A k, l \in DOMAIN feed' : k < l => k + 1 < l + 1
        BY <2>3
      <3> QED BY <1>1, <2>3, <2>4, <3>1 DEF Trail
    <2> QED BY <2>1, <2>3, <2>5, <2>6, <2>7 DEF Trail, NotBefore
  <1> QED BY <1>5, <1>6, <1>7, <1>8 DEF Sync, Rewatch, WatchEvent, WatchBreaks

LEMMA RouteInitInv == RouteInit => RouteInv
  <1> SUFFICES ASSUME RouteInit PROVE RouteInv
    OBVIOUS
  <1>1. ControllersOK
    BY AsleepTyped DEF RouteInit, ControllersOK
  <1>2. feed \in Seq(Route) /\ DOMAIN feed = {}
    BY DEF RouteInit
  <1>3. \A i \in Farmsvr : controller[i].seen \subseteq Farmsvr
    BY <1>1 DEF ControllersOK, Reconciler
  <1>4. RouteTypeOK
    BY <1>3, NoRouteTyped, RouteAssumption DEF RouteInit, RouteTypeOK
  <1>5. RouteTyped
    BY <1>1, <1>2, <1>4, NoRouteTyped DEF RouteInit, RouteTyped
  <1>6. Trail
    BY <1>2, NoRouteTyped DEF RouteInit, Trail, NotBefore
  <1> QED BY <1>5, <1>6 DEF RouteInv, RouteInit, EpochHasOneOwner

LEMMA RouteStepInv == RouteInv /\ [RouteNext]_routeVars => RouteInv'
  <1> SUFFICES ASSUME RouteInv, [RouteNext]_routeVars PROVE RouteInv'
    OBVIOUS
  <1>1. ASSUME UNCHANGED routeVars PROVE RouteInv'
    <2>1. ControllersOK'
      BY <1>1 DEF RouteInv, RouteTyped, ControllersOK, routeVars
    <2> QED BY <1>1, <2>1, QuietStep DEF RouteInv, RouteTyped, RouteTypeOK, routeVars
  <1>2. ASSUME NEW i \in Farmsvr, StartFarmsvr(i) \/ StopFarmsvr(i) \/ NoticeLeaseLost(i)
        PROVE  RouteInv'
    BY <1>2, LeaseStep
  <1>3. ASSUME NEW i \in Farmsvr, Reconcile(i) PROVE RouteInv'
    BY <1>3, ReadingStep, ClaimStep, ActivationStep DEF Reconcile
  <1>4. routeFaults \in 0 .. MaxRouteFaults /\ MaxRouteFaults \in Nat
    BY RouteAssumption DEF RouteInv, RouteTyped, RouteTypeOK
  <1>5. ASSUME NEW i \in Farmsvr, LivingLeaseExpires(i) PROVE RouteInv'
    BY <1>4, <1>5, ExpiryStep DEF LivingLeaseExpires
  <1>6. ASSUME NEW i \in Farmsvr, NEW n \in 1 .. MaxStarts, DeadLeaseExpires(i, n) PROVE RouteInv'
    BY <1>4, <1>6, ExpiryStep DEF DeadLeaseExpires
  <1>7. ASSUME Sync \/ Rewatch \/ WatchEvent \/ WatchBreaks PROVE RouteInv'
    BY <1>7, GatewayStep
  <1> QED BY <1>1, <1>2, <1>3, <1>5, <1>6, <1>7 DEF RouteNext

\* A copy that is replaced is replaced by a later route.
LEMMA RouteStepForward ==
    RouteInv /\ [RouteNext]_routeVars =>
        (resolver # NoRoute /\ resolver' # NoRoute => resolver'.epoch >= resolver.epoch)
  <1> SUFFICES ASSUME RouteInv, [RouteNext]_routeVars, resolver # NoRoute, resolver' # NoRoute
               PROVE  resolver'.epoch >= resolver.epoch
    OBVIOUS
  <1>1. /\ Trail /\ feed \in Seq(Route) /\ route \in Route /\ resolver \in Route
    BY DEF RouteInv, RouteTyped
  <1>2. resolver' = resolver \/ Sync \/ WatchEvent
    BY DEF RouteNext, routeVars, gateVars, StartFarmsvr, StopFarmsvr, LivingLeaseExpires,
           NoticeLeaseLost, DeadLeaseExpires, Expires, Reconcile, ListInstances, ListRoutes,
           ClaimReadsRoute, ClaimReadsEpoch, ClaimTxn, ActivateReads, ActivateTxn, Rewatch,
           WatchBreaks
  <1>3. CASE resolver' = resolver
    BY <1>1, <1>3 DEF Route
  <1>4. CASE Sync
    BY <1>1, <1>4 DEF Sync, Trail, NotBefore, Route
  <1>5. CASE WatchEvent
    <2>1. \A s \in Seq(Route) : s # <<>> => 1 \in DOMAIN s /\ Head(s) = s[1] /\ s[1] \in Route
      OBVIOUS
    <2>2. 1 \in DOMAIN feed /\ resolver' = feed[1] /\ feed[1] \in Route
      BY <1>1, <1>5, <2>1 DEF WatchEvent
    <2> QED BY <1>1, <2>2 DEF Trail, NotBefore, Route
  <1> QED BY <1>2, <1>3, <1>4, <1>5

\* A step of Services is a step of its routes, or leaves them alone.
LEMMA RouteFrame == [Next]_servicesVars => [RouteNext]_routeVars
  BY DEF Next, servicesVars

\* The invariant of the routes: epochs have one owner, and the key, the route, the
\* changes on their way and the gateway's copy are in the order of their epochs.
THEOREM RouteInvariant == Spec => []RouteInv
  <1>1. Init => RouteInv
    BY RouteInitInv DEF Init
  <1>2. RouteInv /\ [Next]_servicesVars => RouteInv'
    BY RouteStepInv, RouteFrame
  <1> QED BY <1>1, <1>2, PTL DEF Spec

\* An epoch is published with one owner, however the claims of controllers, expiring
\* leases and deleted routes fall together (Controller.claim).
THEOREM EpochsHaveOneOwner == Spec => []EpochHasOneOwner
  <1>1. RouteInv => EpochHasOneOwner
    BY DEF RouteInv
  <1> QED BY <1>1, RouteInvariant, PTL

\* The epochs a gateway stamps commands with never go back (Resolver.watch).
THEOREM ResolvesForward == Spec => ResolvedForward
  <1>1. RouteInv /\ [Next]_servicesVars =>
          [resolver # NoRoute /\ resolver' # NoRoute => resolver'.epoch >= resolver.epoch]_routeVars
    BY RouteStepForward, RouteFrame
  <1> QED BY <1>1, RouteInvariant, PTL DEF Spec, ResolvedForward

-----------------------------------------------------------------------------
(* Invites.                                                                  *)

InviteStages == {"new", "ttl", "set code", "set user", "check", "insert", "commit", "done"}
Accepting == {"check", "insert", "commit"}
Invite == [at : InviteStages, code : InviteCall \cup {NoCode}, tries : 0 .. MaxAccepts,
           answer : {"none", "code", "ok", "expired", "self", "error"}]
PairsOfPersons == {Pair(u, v) : u, v \in Person}

InviteTyped ==
    /\ codeKeys \subseteq InviteCall
    /\ userKey \in [Person -> InviteCall \cup {NoCode}]
    /\ friendships \subseteq PairsOfPersons
    /\ announced \in [PairsOfPersons -> Nat]
    /\ invites \in [InviteCall -> Invite]
    /\ inviteFaults \in 0 .. MaxInviteFaults

\* What call c knows as r is true when f are the friendships: whose code it has, that
\* it does not befriend its caller with himself, and what it has answered.
Knows(c, r, f) ==
    /\ r.at # "done" => r.answer = "none"
    /\ r.at \in Accepting => r.code \in InviteCall /\ CallerOf[r.code] # CallerOf[c]
    /\ r.at = "ttl" \/ r.answer = "code" =>
          r.code \in InviteCall /\ CallerOf[r.code] = CallerOf[c]
    /\ r.answer = "ok" => r.code \in InviteCall /\ Pair(CallerOf[r.code], CallerOf[c]) \in f

\* A user is found by a code of his own.
OwnCodes ==
    \A u \in Person : userKey[u] # NoCode => userKey[u] \in InviteCall /\ CallerOf[userKey[u]] = u

\* Who has inserted a row has the unique key to himself.
HoldsKey(c) ==
    /\ PairOf(c) \notin friendships
    /\ \A d \in InviteCall \ {c} : invites[d].at = "commit" => PairOf(d) # PairOf(c)

FriendsMade ==
    /\ \A p \in PairsOfPersons : announced[p] = IF p \in friendships THEN 1 ELSE 0
    /\ \A p \in friendships : \E u, v \in Person : u # v /\ p = Pair(u, v)

InviteInv ==
    /\ InviteTyped
    /\ OwnCodes
    /\ FriendsMade
    /\ \A c \in InviteCall : /\ Knows(c, invites[c], friendships)
                             /\ invites[c].at = "commit" => HoldsKey(c)

LEMMA GoesTo ==
    ASSUME invites \in [InviteCall -> Invite], NEW c \in InviteCall, NEW a \in InviteStages,
           Goes(c, a)
    PROVE  \E r \in Invite :
               /\ invites' = [invites EXCEPT ![c] = r]
               /\ r.at = a /\ r.code = invites[c].code /\ r.answer = invites[c].answer
  <1> DEFINE r == [invites[c] EXCEPT !.at = a]
  <1>1. /\ r \in Invite
        /\ r.at = a /\ r.code = invites[c].code /\ r.answer = invites[c].answer
    BY DEF Invite
  <1>2. invites' = [invites EXCEPT ![c] = r]
    BY DEF Goes
  <1> HIDE DEF r
  <1> QED BY <1>1, <1>2

LEMMA RespondsWith ==
    ASSUME invites \in [InviteCall -> Invite], NEW c \in InviteCall,
           NEW a \in {"none", "code", "ok", "expired", "self", "error"},
           NEW d \in InviteCall \cup {NoCode}, Responds(c, a, d)
    PROVE  \E r \in Invite :
               /\ invites' = [invites EXCEPT ![c] = r]
               /\ r.at = "done" /\ r.code = d /\ r.answer = a
  <1> DEFINE r == [invites[c] EXCEPT !.at = "done", !.answer = a, !.code = d]
  <1>1. r \in Invite /\ r.at = "done" /\ r.code = d /\ r.answer = a
    BY DEF Invite, InviteStages
  <1>2. invites' = [invites EXCEPT ![c] = r]
    BY DEF Responds
  <1> HIDE DEF r
  <1> QED BY <1>1, <1>2

\* A step of a call that makes nobody friends.
LEMMA CallStep ==
    ASSUME InviteInv, NEW c \in InviteCall, NEW r \in Invite,
           invites' = [invites EXCEPT ![c] = r],
           Knows(c, r, friendships),
           r.at = "commit" =>
               /\ Pair(CallerOf[r.code], CallerOf[c]) \notin friendships
               /\ \A d \in InviteCall \ {c} : invites[d].at = "commit" =>
                      PairOf(d) # Pair(CallerOf[r.code], CallerOf[c]),
           UNCHANGED <<friendships, announced>>,
           codeKeys' \subseteq InviteCall, userKey' \in [Person -> InviteCall \cup {NoCode}],
           OwnCodes', inviteFaults' \in 0 .. MaxInviteFaults
    PROVE  InviteInv'
  <1>1. InviteTyped /\ InviteTyped'
    BY DEF InviteInv, InviteTyped
  <1>2. FriendsMade'
    BY DEF InviteInv, FriendsMade
  <1>3. \A d \in InviteCall : invites'[d] = IF d = c THEN r ELSE invites[d]
    BY <1>1 DEF InviteTyped
  <1>4. ASSUME NEW d \in InviteCall PROVE Knows(d, invites'[d], friendships')
    <2>1. Knows(d, invites[d], friendships)
      BY DEF InviteInv
    <2> QED BY <1>3, <2>1
  <1>5. /\ PairOf(c)' = Pair(CallerOf[r.code], CallerOf[c])
        /\ \A d \in InviteCall \ {c} : PairOf(d)' = PairOf(d)
    BY <1>3 DEF PairOf, Inviter
  <1>6. ASSUME NEW d \in InviteCall, invites'[d].at = "commit" PROVE HoldsKey(d)'
    <2>1. CASE d = c
      BY <1>3, <1>5, <1>6, <2>1 DEF HoldsKey
    <2>2. CASE d # c
      <3>1. invites[d].at = "commit" /\ HoldsKey(d)
        BY <1>3, <1>6, <2>2 DEF InviteInv
      <3>2. PairOf(d)' = PairOf(d) /\ PairOf(d)' \notin friendships'
        BY <1>5, <2>2, <3>1 DEF HoldsKey
      <3>3. ASSUME NEW e \in InviteCall \ {d}, invites'[e].at = "commit"
            PROVE  PairOf(e)' # PairOf(d)'
        <4>1. CASE e = c
          BY <1>3, <1>5, <2>2, <3>1, <3>2, <3>3, <4>1
        <4>2. CASE e # c
          BY <1>3, <1>5, <3>1, <3>2, <3>3, <4>2 DEF HoldsKey
        <4> QED BY <4>1, <4>2
      <3> QED BY <3>2, <3>3 DEF HoldsKey
    <2> QED BY <2>1, <2>2
  <1> QED BY <1>1, <1>2, <1>4, <1>6 DEF InviteInv

\* GetOrCreate gives a user a code of his own.
LEMMA CreateStep ==
    ASSUME InviteInv, NEW c \in InviteCall,
           ReadUserKey(c) \/ ReadTTL(c) \/ SetCode(c) \/ SetUser(c)
    PROVE  InviteInv'
  <1>1. /\ InviteTyped /\ OwnCodes /\ Knows(c, invites[c], friendships)
        /\ CallerOf[c] \in Person /\ invites[c] \in Invite
        /\ invites \in [InviteCall -> Invite]
    BY InviteAssumption DEF InviteInv, InviteTyped
  <1>2. /\ codeKeys \subseteq InviteCall /\ userKey \in [Person -> InviteCall \cup {NoCode}]
        /\ inviteFaults \in 0 .. MaxInviteFaults
    BY <1>1 DEF InviteTyped
  <1>3. invites \in [InviteCall -> Invite] /\ "set code" \in InviteStages /\ "set user" \in InviteStages
    BY <1>1 DEF InviteStages
  <1>4. CASE ReadUserKey(c)
    <2> DEFINE r == [invites[c] EXCEPT !.code = userKey[CallerOf[c]],
                        !.at = IF userKey[CallerOf[c]] = NoCode THEN "set code" ELSE "ttl"]
    <2>1. /\ r \in Invite /\ r.code = userKey[CallerOf[c]] /\ r.answer = invites[c].answer
          /\ r.at = IF userKey[CallerOf[c]] = NoCode THEN "set code" ELSE "ttl"
      BY <1>1, <1>2 DEF Invite, InviteStages
    <2>2. invites' = [invites EXCEPT ![c] = r]
      BY <1>4 DEF ReadUserKey
    <2> HIDE DEF r
    <2>3. invites[c].answer = "none"
      BY <1>1, <1>4 DEF ReadUserKey, Knows
    <2>4. Knows(c, r, friendships) /\ r.at # "commit"
      BY <1>1, <2>1, <2>3 DEF Knows, OwnCodes, Accepting
    <2>5. OwnCodes' /\ UNCHANGED <<codeKeys, userKey, friendships, announced, inviteFaults>>
      BY <1>1, <1>4 DEF ReadUserKey, OwnCodes
    <2> QED BY <1>2, <2>1, <2>2, <2>4, <2>5, CallStep
  <1>5. CASE ReadTTL(c)
    <2>1. OwnCodes' /\ UNCHANGED <<codeKeys, userKey, friendships, announced, inviteFaults>>
      BY <1>1, <1>5 DEF ReadTTL, OwnCodes
    <2>2. /\ invites[c].code \in InviteCall /\ CallerOf[invites[c].code] = CallerOf[c]
          /\ invites[c].answer = "none"
      BY <1>1, <1>5 DEF ReadTTL, Knows
    <2>3. CASE Responds(c, "code", invites[c].code)
      <3>1. PICK r \in Invite : /\ invites' = [invites EXCEPT ![c] = r]
                                /\ r.at = "done" /\ r.code = invites[c].code /\ r.answer = "code"
        BY <1>1, <2>2, <2>3, RespondsWith
      <3>2. Knows(c, r, friendships) /\ r.at # "commit"
        BY <2>2, <3>1 DEF Knows, Accepting
      <3> QED BY <1>2, <2>1, <3>1, <3>2, CallStep
    <2>4. CASE Goes(c, "set code")
      <3>1. PICK r \in Invite : /\ invites' = [invites EXCEPT ![c] = r]
                                /\ r.at = "set code" /\ r.code = invites[c].code /\ r.answer = invites[c].answer
        BY <1>3, <2>4, GoesTo
      <3>2. Knows(c, r, friendships) /\ r.at # "commit"
        BY <2>2, <3>1 DEF Knows, Accepting
      <3> QED BY <1>2, <2>1, <3>1, <3>2, CallStep
    <2> QED BY <1>5, <2>3, <2>4 DEF ReadTTL
  <1>6. CASE SetCode(c)
    <2>1. /\ OwnCodes' /\ UNCHANGED <<userKey, friendships, announced, inviteFaults>>
          /\ codeKeys' \subseteq InviteCall
      BY <1>1, <1>2, <1>6 DEF SetCode, OwnCodes
    <2>2. invites[c].answer = "none"
      BY <1>1, <1>6 DEF SetCode, Knows
    <2>3. PICK r \in Invite : /\ invites' = [invites EXCEPT ![c] = r]
                              /\ r.at = "set user" /\ r.code = invites[c].code /\ r.answer = invites[c].answer
      <3>1. Goes(c, "set user")
        BY <1>6 DEF SetCode
      <3> QED BY <1>3, <3>1, GoesTo
    <2>4. Knows(c, r, friendships) /\ r.at # "commit"
      BY <2>2, <2>3 DEF Knows, Accepting
    <2> QED BY <1>2, <2>1, <2>3, <2>4, CallStep
  <1>7. CASE SetUser(c)
    <2>1. /\ UNCHANGED <<codeKeys, friendships, announced, inviteFaults>>
          /\ userKey' = [userKey EXCEPT ![CallerOf[c]] = c]
      BY <1>7 DEF SetUser
    <2>2. userKey' \in [Person -> InviteCall \cup {NoCode}] /\ OwnCodes'
      BY <1>1, <1>2, <2>1 DEF OwnCodes
    <2>3. PICK r \in Invite : /\ invites' = [invites EXCEPT ![c] = r]
                              /\ r.at = "done" /\ r.code = c /\ r.answer = "code"
      <3>1. Responds(c, "code", c) /\ c \in InviteCall \cup {NoCode}
        BY <1>7 DEF SetUser
      <3>2. invites \in [InviteCall -> Invite]
        BY <1>1
      <3> QED BY <3>1, <3>2, RespondsWith
    <2>4. Knows(c, r, friendships) /\ r.at # "commit"
      BY <2>3 DEF Knows, Accepting
    <2> QED BY <1>2, <2>1, <2>2, <2>3, <2>4, CallStep
  <1> QED BY <1>4, <1>5, <1>6, <1>7

\* An attempt to become friends is made again, or given up.
LEMMA TriedAgain ==
    ASSUME invites \in [InviteCall -> Invite], NEW c \in InviteCall, TriesAgain(c)
    PROVE  \E r \in Invite :
               /\ invites' = [invites EXCEPT ![c] = r] /\ r.code = invites[c].code
               /\ \/ r.at = "check" /\ r.answer = invites[c].answer
                  \/ r.at = "done" /\ r.answer = "error"
  <1>1. invites[c] \in Invite /\ MaxAccepts \in Nat
    BY InviteAssumption
  <1>2. CASE invites[c].tries + 1 < MaxAccepts
    <2> DEFINE r == [invites[c] EXCEPT !.at = "check", !.tries = @ + 1]
    <2>1. invites[c].tries + 1 \in 0 .. MaxAccepts
      BY <1>1, <1>2 DEF Invite
    <2>2. /\ r \in Invite /\ r.code = invites[c].code
          /\ r.at = "check" /\ r.answer = invites[c].answer
      BY <1>1, <2>1 DEF Invite, InviteStages
    <2>3. invites' = [invites EXCEPT ![c] = r]
      BY <1>2 DEF TriesAgain
    <2> HIDE DEF r
    <2> QED BY <2>2, <2>3
  <1>3. CASE ~(invites[c].tries + 1 < MaxAccepts)
    <2>1. Responds(c, "error", invites[c].code) /\ invites[c].code \in InviteCall \cup {NoCode}
      BY <1>1, <1>3 DEF TriesAgain, Invite
    <2> QED BY <2>1, RespondsWith
  <1> QED BY <1>2, <1>3

\* AcceptInvite up to its COMMIT: an inserted row is nobody else's.
LEMMA AcceptStep ==
    ASSUME InviteInv, NEW c \in InviteCall,
           GetInviter(c) \/ CheckFriendship(c) \/ InsertFriendship(c)
    PROVE  InviteInv'
  <1>1. /\ InviteTyped /\ OwnCodes /\ Knows(c, invites[c], friendships)
        /\ invites[c] \in Invite /\ invites \in [InviteCall -> Invite]
    BY DEF InviteInv, InviteTyped
  <1>2. /\ codeKeys \subseteq InviteCall /\ userKey \in [Person -> InviteCall \cup {NoCode}]
        /\ inviteFaults \in 0 .. MaxInviteFaults
    BY <1>1 DEF InviteTyped
  <1>3. OwnCodes' /\ UNCHANGED <<codeKeys, userKey, friendships, announced, inviteFaults>>
    BY <1>1 DEF GetInviter, CheckFriendship, InsertFriendship, OwnCodes
  <1>4. invites[c].answer = "none"
    BY <1>1 DEF GetInviter, CheckFriendship, InsertFriendship, Knows
  <1>5. CASE GetInviter(c)
    <2> DEFINE d == invites[CodeFrom[c]].code
    <2>1. CodeFrom[c] \in InviteCall
      BY InviteAssumption
    <2>2. d \in InviteCall
      BY <1>5, <2>1 DEF GetInviter, InviteInv, Knows
    <2>3. \/ \E a \in {"expired", "self"} : Responds(c, a, d)
          \/ /\ CallerOf[d] # CallerOf[c]
             /\ invites' = [invites EXCEPT ![c] = [invites[c] EXCEPT !.at = "check", !.code = d]]
      BY <1>5 DEF GetInviter
    <2> HIDE DEF d
    <2>4. ASSUME NEW a \in {"expired", "self"}, Responds(c, a, d) PROVE InviteInv'
      <3>1. PICK r \in Invite : /\ invites' = [invites EXCEPT ![c] = r]
                                /\ r.at = "done" /\ r.code = d /\ r.answer = a
        BY <1>1, <2>2, <2>4, RespondsWith
      <3>2. Knows(c, r, friendships) /\ r.at # "commit"
        BY <3>1 DEF Knows, Accepting
      <3> QED BY <1>2, <1>3, <3>1, <3>2, CallStep
    <2> DEFINE r == [invites[c] EXCEPT !.at = "check", !.code = d]
    <2>5. ASSUME CallerOf[d] # CallerOf[c], invites' = [invites EXCEPT ![c] = r]
          PROVE  InviteInv'
      <3>1. r \in Invite /\ r.at = "check" /\ r.code = d /\ r.answer = "none"
        BY <1>1, <1>4, <2>2 DEF Invite, InviteStages
      <3> HIDE DEF r
      <3>2. Knows(c, r, friendships) /\ r.at # "commit"
        BY <2>2, <2>5, <3>1 DEF Knows
      <3> QED BY <1>2, <1>3, <2>5, <3>1, <3>2, CallStep
    <2> QED BY <2>3, <2>4, <2>5
  <1>6. ASSUME invites[c].at \in Accepting
        PROVE  invites[c].code \in InviteCall /\ CallerOf[invites[c].code] # CallerOf[c]
    BY <1>1, <1>6 DEF Knows
  <1>7. CASE CheckFriendship(c)
    <2>1. invites[c].code \in InviteCall /\ CallerOf[invites[c].code] # CallerOf[c]
      BY <1>6, <1>7 DEF CheckFriendship, Accepting
    <2>2. CASE AreFriends(Inviter(c), CallerOf[c]) /\ Responds(c, "ok", invites[c].code)
      <3>1. PICK r \in Invite : /\ invites' = [invites EXCEPT ![c] = r]
                                /\ r.at = "done" /\ r.code = invites[c].code /\ r.answer = "ok"
        BY <1>1, <2>1, <2>2, RespondsWith
      <3>2. Knows(c, r, friendships) /\ r.at # "commit"
        BY <2>1, <2>2, <3>1 DEF Knows, Accepting, AreFriends, Inviter
      <3> QED BY <1>2, <1>3, <3>1, <3>2, CallStep
    <2>3. CASE Goes(c, "insert")
      <3>1. PICK r \in Invite : /\ invites' = [invites EXCEPT ![c] = r]
                                /\ r.at = "insert" /\ r.code = invites[c].code /\ r.answer = "none"
        <4>1. "insert" \in InviteStages /\ invites \in [InviteCall -> Invite]
          BY <1>1 DEF InviteStages
        <4> QED BY <1>4, <2>3, <4>1, GoesTo
      <3>2. Knows(c, r, friendships) /\ r.at # "commit"
        BY <2>1, <3>1 DEF Knows
      <3> QED BY <1>2, <1>3, <3>1, <3>2, CallStep
    <2> QED BY <1>7, <2>2, <2>3 DEF CheckFriendship
  <1>8. CASE InsertFriendship(c)
    <2>1. invites[c].code \in InviteCall /\ CallerOf[invites[c].code] # CallerOf[c]
      BY <1>6, <1>8 DEF InsertFriendship, Accepting
    <2>2. CASE TriesAgain(c)
      <3>1. PICK r \in Invite :
                /\ invites' = [invites EXCEPT ![c] = r] /\ r.code = invites[c].code
                /\ \/ r.at = "check" /\ r.answer = invites[c].answer
                   \/ r.at = "done" /\ r.answer = "error"
        BY <1>1, <2>2, TriedAgain
      <3>2. Knows(c, r, friendships) /\ r.at # "commit"
        BY <1>4, <2>1, <3>1 DEF Knows, Accepting
      <3> QED BY <1>2, <1>3, <3>1, <3>2, CallStep
    <2>3. CASE PairOf(c) \notin friendships /\ Goes(c, "commit")
      <3>1. PICK r \in Invite : /\ invites' = [invites EXCEPT ![c] = r]
                                /\ r.at = "commit" /\ r.code = invites[c].code /\ r.answer = "none"
        <4>1. "commit" \in InviteStages /\ invites \in [InviteCall -> Invite]
          BY <1>1 DEF InviteStages
        <4> QED BY <1>4, <2>3, <4>1, GoesTo
      <3>2. Knows(c, r, friendships)
        BY <2>1, <3>1 DEF Knows
      <3>3. PairOf(c) = Pair(CallerOf[r.code], CallerOf[c])
        BY <3>1 DEF PairOf, Inviter
      <3>4. \A d \in InviteCall \ {c} : invites[d].at = "commit" => PairOf(d) # PairOf(c)
        BY <1>8 DEF InsertFriendship
      <3> QED BY <1>2, <1>3, <2>3, <3>1, <3>2, <3>3, <3>4, CallStep
    <2> QED BY <1>8, <2>2, <2>3 DEF InsertFriendship
  <1> QED BY <1>5, <1>7, <1>8

\* The pair that is committed was not friends: its key was held.
LEMMA CommitStep ==
    ASSUME InviteInv, NEW c \in InviteCall, CommitFriendship(c)
    PROVE  InviteInv'
  <1>1. /\ InviteTyped /\ OwnCodes /\ FriendsMade /\ Knows(c, invites[c], friendships)
        /\ HoldsKey(c) /\ invites[c].at = "commit"
        /\ invites[c] \in Invite /\ invites \in [InviteCall -> Invite]
    BY DEF InviteInv, InviteTyped, CommitFriendship
  <1>2. /\ codeKeys \subseteq InviteCall /\ userKey \in [Person -> InviteCall \cup {NoCode}]
        /\ inviteFaults \in 0 .. MaxInviteFaults /\ MaxInviteFaults \in Nat
        /\ friendships \subseteq PairsOfPersons /\ announced \in [PairsOfPersons -> Nat]
    BY <1>1, InviteAssumption DEF InviteTyped
  <1>3. invites[c].code \in InviteCall /\ CallerOf[invites[c].code] # CallerOf[c]
    BY <1>1 DEF Knows, Accepting
  <1>4. OwnCodes' /\ UNCHANGED <<codeKeys, userKey>> /\ inviteFaults' \in 0 .. MaxInviteFaults
    BY <1>1, <1>2 DEF CommitFriendship, OwnCodes
  <1> DEFINE p == PairOf(c)
  <1>5. /\ p = Pair(CallerOf[invites[c].code], CallerOf[c])
        /\ CallerOf[invites[c].code] \in Person /\ CallerOf[c] \in Person
    BY <1>3, InviteAssumption DEF PairOf, Inviter
  <1>6. p \in PairsOfPersons
    BY <1>5 DEF PairsOfPersons
  <1>7. /\ friendships' = friendships \cup {p} /\ announced' = [announced EXCEPT ![p] = @ + 1]
        /\ p \notin friendships
    BY <1>1 DEF CommitFriendship, HoldsKey
  <1>8. /\ \E a \in {"ok", "error"} : Responds(c, a, invites[c].code)
    BY DEF CommitFriendship
  <1>9. PICK r \in Invite :
            /\ invites' = [invites EXCEPT ![c] = r]
            /\ r.at = "done" /\ r.code = invites[c].code /\ r.answer \in {"ok", "error"}
    BY <1>1, <1>3, <1>8, RespondsWith
  <1>10. /\ \A d \in InviteCall : invites'[d] = IF d = c THEN r ELSE invites[d]
         /\ \A d \in InviteCall \ {c} : PairOf(d)' = PairOf(d)
    BY <1>1, <1>9 DEF PairOf, Inviter
  <1> HIDE DEF p
  <1>11. InviteTyped'
    BY <1>1, <1>2, <1>4, <1>6, <1>7, <1>9 DEF InviteTyped
  <1>12. FriendsMade'
    <2>1. \A q \in PairsOfPersons : announced'[q] = IF q \in friendships' THEN 1 ELSE 0
      BY <1>1, <1>2, <1>6, <1>7 DEF FriendsMade
    <2>2. \A q \in friendships' : \E u, v \in Person : u # v /\ q = Pair(u, v)
      BY <1>1, <1>3, <1>5, <1>7 DEF FriendsMade
    <2> QED BY <2>1, <2>2 DEF FriendsMade
  <1>13. ASSUME NEW d \in InviteCall PROVE Knows(d, invites'[d], friendships')
    <2>1. CASE d = c
      BY <1>3, <1>5, <1>7, <1>9, <1>10, <2>1 DEF Knows, Accepting
    <2>2. CASE d # c
      <3>1. Knows(d, invites[d], friendships)
        BY DEF InviteInv
      <3> QED BY <1>7, <1>10, <2>2, <3>1 DEF Knows
    <2> QED BY <2>1, <2>2
  <1>14. ASSUME NEW d \in InviteCall, invites'[d].at = "commit" PROVE HoldsKey(d)'
    <2>1. d # c /\ invites[d].at = "commit" /\ HoldsKey(d)
      BY <1>9, <1>10, <1>14 DEF InviteInv
    <2>2. PairOf(d)' = PairOf(d) /\ PairOf(d) # p /\ PairOf(d) \notin friendships
      BY <1>1, <1>10, <2>1 DEF HoldsKey, p
    <2>3. ASSUME NEW e \in InviteCall \ {d}, invites'[e].at = "commit"
          PROVE  PairOf(e)' # PairOf(d)'
      BY <1>9, <1>10, <2>1, <2>2, <2>3 DEF HoldsKey
    <2> QED BY <1>7, <2>2, <2>3 DEF HoldsKey
  <1> QED BY <1>4, <1>11, <1>12, <1>13, <1>14 DEF InviteInv

LEMMA InviteFailsStep ==
    ASSUME InviteInv, NEW c \in InviteCall, InviteFails(c)
    PROVE  InviteInv'
  <1>1. /\ InviteTyped /\ OwnCodes /\ Knows(c, invites[c], friendships)
        /\ invites[c] \in Invite /\ invites \in [InviteCall -> Invite]
    BY DEF InviteInv, InviteTyped
  <1>2. /\ codeKeys \subseteq InviteCall /\ userKey \in [Person -> InviteCall \cup {NoCode}]
        /\ inviteFaults \in 0 .. MaxInviteFaults /\ MaxInviteFaults \in Nat
    BY <1>1, InviteAssumption DEF InviteTyped
  <1>3. /\ OwnCodes' /\ UNCHANGED <<codeKeys, userKey, friendships, announced>>
        /\ inviteFaults' \in 0 .. MaxInviteFaults
    <2>1. /\ UNCHANGED <<codeKeys, userKey, friendships, announced>>
          /\ inviteFaults < MaxInviteFaults /\ inviteFaults' = inviteFaults + 1
      BY DEF InviteFails
    <2> QED BY <1>1, <1>2, <2>1 DEF OwnCodes
  <1>4. invites[c].code \in InviteCall \cup {NoCode}
    BY <1>1 DEF Invite
  <1>5. CASE invites[c].at \in Accepting /\ TriesAgain(c)
    <2>1. PICK r \in Invite :
              /\ invites' = [invites EXCEPT ![c] = r] /\ r.code = invites[c].code
              /\ \/ r.at = "check" /\ r.answer = invites[c].answer
                 \/ r.at = "done" /\ r.answer = "error"
      BY <1>1, <1>5, TriedAgain
    <2>2. /\ invites[c].code \in InviteCall /\ CallerOf[invites[c].code] # CallerOf[c]
          /\ invites[c].answer = "none"
      BY <1>1, <1>5 DEF Knows, Accepting
    <2>3. Knows(c, r, friendships) /\ r.at # "commit"
      BY <2>1, <2>2 DEF Knows, Accepting
    <2> QED BY <1>2, <1>3, <2>1, <2>3, CallStep
  <1>6. CASE Responds(c, "error", invites[c].code)
    <2>1. PICK r \in Invite : /\ invites' = [invites EXCEPT ![c] = r]
                              /\ r.at = "done" /\ r.answer = "error"
      BY <1>1, <1>4, <1>6, RespondsWith
    <2>2. Knows(c, r, friendships) /\ r.at # "commit"
      BY <2>1 DEF Knows, Accepting
    <2> QED BY <1>2, <1>3, <2>1, <2>2, CallStep
  <1> QED BY <1>5, <1>6 DEF InviteFails, Accepting

LEMMA InviteExpires ==
    ASSUME InviteInv,
           \/ UNCHANGED inviteVars
           \/ \E c \in InviteCall : CodeExpires(c)
           \/ \E u \in Person : UserKeyExpires(u)
    PROVE  InviteInv'
  <1>1. /\ UNCHANGED <<friendships, announced, invites, inviteFaults>>
        /\ codeKeys' \subseteq codeKeys
        /\ userKey' = userKey \/ \E u \in Person : userKey' = [userKey EXCEPT ![u] = NoCode]
    BY DEF inviteVars, CodeExpires, UserKeyExpires
  <1>2. InviteTyped /\ OwnCodes /\ FriendsMade
    BY DEF InviteInv
  <1>3. InviteTyped'
    BY <1>1, <1>2 DEF InviteTyped
  <1>4. OwnCodes'
    BY <1>1, <1>2, InviteAssumption DEF OwnCodes, InviteTyped
  <1>5. FriendsMade'
    BY <1>1, <1>2 DEF FriendsMade
  <1>6. \A c \in InviteCall : HoldsKey(c) => HoldsKey(c)'
    BY <1>1 DEF HoldsKey, PairOf, Inviter
  <1> QED BY <1>1, <1>3, <1>4, <1>5, <1>6 DEF InviteInv

LEMMA InviteInitInv == InviteInit => InviteInv
  <1> SUFFICES ASSUME InviteInit PROVE InviteInv
    OBVIOUS
  <1>1. NewInvite \in Invite /\ NewInvite.at = "new" /\ NewInvite.answer = "none"
    BY InviteAssumption DEF NewInvite, Invite, InviteStages
  <1>2. announced \in [PairsOfPersons -> Nat] /\ \A p \in PairsOfPersons : announced[p] = 0
    BY DEF InviteInit, PairsOfPersons
  <1>3. InviteTyped
    BY <1>1, <1>2, InviteAssumption DEF InviteInit, InviteTyped
  <1>4. OwnCodes /\ FriendsMade
    BY <1>2 DEF InviteInit, OwnCodes, FriendsMade
  <1>5. \A c \in InviteCall : invites[c] = NewInvite
    BY DEF InviteInit
  <1> QED BY <1>1, <1>3, <1>4, <1>5 DEF InviteInv, Knows, Accepting

LEMMA InviteStepInv == InviteInv /\ [InviteNext]_inviteVars => InviteInv'
  BY CreateStep, AcceptStep, CommitStep, InviteFailsStep, InviteExpires DEF InviteNext

LEMMA InvitedOnceFollows == InviteInv => InvitedOnce
  <1> SUFFICES ASSUME InviteInv PROVE InvitedOnce
    OBVIOUS
  <1>1. /\ InviteTyped /\ FriendsMade
        /\ \A c \in InviteCall : Knows(c, invites[c], friendships)
    BY DEF InviteInv
  <1>2. \A p \in DOMAIN announced : announced[p] = IF p \in friendships THEN 1 ELSE 0
    BY <1>1 DEF InviteTyped, FriendsMade
  <1>3. ASSUME NEW p \in friendships PROVE Cardinality(p) = 2
    <2>1. PICK u, v \in Person : u # v /\ p = {u, v}
      BY <1>1 DEF FriendsMade, Pair
    <2>2. IsFiniteSet({u}) /\ Cardinality({u}) = 1
      BY FS_Singleton
    <2>3. Cardinality({u} \cup {v}) = 2
      BY <2>1, <2>2, FS_AddElement
    <2>4. p = {u} \cup {v}
      BY <2>1
    <2> QED BY <2>3, <2>4
  <1>4. \A c \in InviteCall :
          /\ invites[c].answer = "ok" => AreFriends(Inviter(c), CallerOf[c])
          /\ invites[c].answer = "code" => Inviter(c) = CallerOf[c]
    BY <1>1 DEF Knows, AreFriends, Inviter
  <1> QED BY <1>2, <1>3, <1>4 DEF InvitedOnce

LEMMA InviteFrame == [Next]_servicesVars => [InviteNext]_inviteVars
  BY DEF Next, servicesVars

\* The invariant of invitations: codes lead to their owners, and who has inserted a
\* friendship holds its key.
THEOREM InviteInvariant == Spec => []InviteInv
  <1>1. Init => InviteInv
    BY InviteInitInv DEF Init
  <1>2. InviteInv /\ [Next]_servicesVars => InviteInv'
    BY InviteStepInv, InviteFrame
  <1> QED BY <1>1, <1>2, PTL DEF Spec

\* Two users of one shard become friends once and are announced once, and a call is
\* answered truly, whatever calls, retries and lost answers overlap (acceptInviteOnce).
THEOREM InvitedOnceHolds == Spec => []InvitedOnce
  BY InviteInvariant, InvitedOnceFollows, PTL

-----------------------------------------------------------------------------
(* Backfill.                                                                 *)

Checked == {"count", "copy", "batches", "audit", "friends", "pairs", "final", "PASS"}
Job == [at : {"off", "check", "FAIL"} \cup Checked, table : 1 .. Len(TableOrder),
        shard : TwoShards, expected : Nat, rows : SUBSET SourceRow, pairs : SUBSET FriendPair,
        dry : BOOLEAN]
RowsOnShards == [TwoShards -> [UserTable -> SUBSET SourceRow]]

BackfillTyped ==
    /\ source \in [UserTable -> SUBSET SourceRow]
    /\ sourceFriends \subseteq FriendPair
    /\ target \in RowsOnShards /\ audited \in RowsOnShards
    /\ job \in Job
    /\ backfills \in 0 .. MaxBackfills /\ sourceWrites \in 0 .. MaxSourceWrites

OwnRows == \A s \in TwoShards, t \in UserTable : \A r \in target[s][t] : r % 2 = s

\* The final audit of run j has counted table i of shard s.
Counted(j, i, s) == i < j.table \/ (i = j.table /\ s < j.shard)

\* What run j of the tool has made sure of.
MadeSure(j) ==
    /\ j.at \in {"copy", "batches", "final"} => ~j.dry
    /\ j.at = "batches" =>
          /\ \A r \in j.rows : r % 2 = j.shard
          /\ TableOrder[j.table] \notin deletedFrom => j.rows \subseteq Part(TableOrder[j.table], j.shard)
    /\ j.at \in Checked =>
          /\ j.dry => TargetsEmpty
          /\ \A s \in TwoShards, t \in UserTable : t \notin deletedFrom => target[s][t] \subseteq Part(t, s)
    /\ j.at = "final" =>
          \A i \in 1 .. Len(TableOrder), s \in TwoShards :
              Counted(j, i, s) /\ TableOrder[i] \notin deletedFrom =>
                  target[s][TableOrder[i]] = audited[s][TableOrder[i]]
    /\ j.at = "PASS" /\ ~j.dry =>
          \A s \in TwoShards, t \in UserTable : t \notin deletedFrom => target[s][t] = audited[s][t]
    /\ j.at \in {"final", "PASS"} /\ ~j.dry => \A p \in j.pairs : Placed(p)

BackfillInv == BackfillTyped /\ OwnRows /\ MadeSure(job)

LEMMA TablesListed ==
    /\ Len(TableOrder) \in Nat \ {0} /\ DOMAIN TableOrder = 1 .. Len(TableOrder)
    /\ \A i \in 1 .. Len(TableOrder) : TableOrder[i] \in UserTable
    /\ \A t \in UserTable : \E i \in 1 .. Len(TableOrder) : TableOrder[i] = t
  <1>1. TableOrder \in Seq(UserTable) /\ TableOrder # <<>>
    BY BackfillAssumption
  <1>2. \A q \in Seq(UserTable) : q # <<>> =>
            /\ Len(q) \in Nat \ {0} /\ DOMAIN q = 1 .. Len(q)
            /\ \A i \in 1 .. Len(q) : q[i] \in UserTable
    OBVIOUS
  <1>3. \A t \in UserTable : \E i \in DOMAIN TableOrder : TableOrder[i] = t
    BY BackfillAssumption
  <1> QED BY <1>1, <1>2, <1>3

\* A step of the tool that only moves it on.
LEMMA JobStep ==
    ASSUME BackfillInv, NEW j \in Job, job' = j, MadeSure(j),
           UNCHANGED <<sourceVars, targetVars, backfills, audited>>
    PROVE  BackfillInv'
  <1>1. BackfillTyped'
    BY DEF BackfillInv, BackfillTyped, sourceVars, targetVars
  <1>2. OwnRows'
    BY DEF BackfillInv, OwnRows, targetVars
  <1>3. MadeSure(job)'
    BY DEF MadeSure, Part, TargetsEmpty, Placed, sourceVars, targetVars
  <1> QED BY <1>1, <1>2, <1>3 DEF BackfillInv

LEMMA PartTyped ==
    ASSUME BackfillTyped, NEW t \in UserTable, NEW s
    PROVE  /\ Part(t, s) \subseteq SourceRow /\ IsFiniteSet(Part(t, s))
           /\ Cardinality(Part(t, s)) \in Nat
  <1>1. Part(t, s) \subseteq SourceRow
    BY DEF BackfillTyped, Part
  <1> QED BY <1>1, BackfillAssumption, FS_Subset, FS_CardinalityType

\* The next table and shard, or the first again.
LEMMA Parts ==
    ASSUME BackfillTyped, NEW a \in Checked
    PROVE  /\ FirstPart(a) \in Job
           /\ FirstPart(a).at = a /\ FirstPart(a).table = 1 /\ FirstPart(a).shard = 0
           /\ FirstPart(a).pairs = job.pairs /\ FirstPart(a).dry = job.dry
           /\ ~LastPart =>
                /\ NextPart(a) \in Job /\ NextPart(a).at = a
                /\ NextPart(a).pairs = job.pairs /\ NextPart(a).dry = job.dry
                /\ \A i \in 1 .. Len(TableOrder), s \in TwoShards :
                       Counted(NextPart(a), i, s) =>
                           Counted(job, i, s) \/ (i = job.table /\ s = job.shard)
  <1>1. job \in Job /\ Len(TableOrder) \in Nat \ {0}
    BY TablesListed DEF BackfillTyped
  <1>2. /\ FirstPart(a) \in Job
        /\ FirstPart(a).at = a /\ FirstPart(a).table = 1 /\ FirstPart(a).shard = 0
        /\ FirstPart(a).pairs = job.pairs /\ FirstPart(a).dry = job.dry
    <2> DEFINE r == [job EXCEPT !.at = a, !.shard = 0, !.table = 1, !.rows = {}]
    <2>1. 1 \in 1 .. Len(TableOrder)
      BY <1>1
    <2>2. /\ r \in Job /\ r.at = a /\ r.pairs = job.pairs /\ r.dry = job.dry
          /\ r.table = 1 /\ r.shard = 0
      BY <1>1, <2>1 DEF Job, TwoShards
    <2>3. FirstPart(a) = r
      BY DEF FirstPart
    <2> QED BY <2>2, <2>3
  <1>3. ASSUME ~LastPart, job.shard = 0
        PROVE  /\ NextPart(a) \in Job /\ NextPart(a).at = a
               /\ NextPart(a).pairs = job.pairs /\ NextPart(a).dry = job.dry
               /\ NextPart(a).table = job.table /\ NextPart(a).shard = 1
    <2> DEFINE r == [job EXCEPT !.at = a, !.shard = 1, !.rows = {}]
    <2>1. /\ r \in Job /\ r.at = a /\ r.pairs = job.pairs /\ r.dry = job.dry
          /\ r.table = job.table /\ r.shard = 1
      BY <1>1 DEF Job, TwoShards
    <2>2. NextPart(a) = r
      BY <1>3 DEF NextPart
    <2> QED BY <2>1, <2>2
  <1>4. ASSUME ~LastPart, job.shard = 1
        PROVE  /\ NextPart(a) \in Job /\ NextPart(a).at = a
               /\ NextPart(a).pairs = job.pairs /\ NextPart(a).dry = job.dry
               /\ NextPart(a).table = job.table + 1 /\ NextPart(a).shard = 0
    <2>1. job.table + 1 \in 1 .. Len(TableOrder)
      BY <1>1, <1>4 DEF LastPart, Job
    <2> DEFINE r == [job EXCEPT !.at = a, !.shard = 0, !.table = @ + 1, !.rows = {}]
    <2>2. /\ r \in Job /\ r.at = a /\ r.pairs = job.pairs /\ r.dry = job.dry
          /\ r.table = job.table + 1 /\ r.shard = 0
      BY <1>1, <2>1 DEF Job, TwoShards
    <2>3. NextPart(a) = r
      BY <1>4 DEF NextPart
    <2> QED BY <2>2, <2>3
  <1>5. job.table \in Nat /\ job.shard \in {0, 1}
    BY <1>1 DEF Job, TwoShards
  <1> QED BY <1>2, <1>3, <1>4, <1>5 DEF Counted, TwoShards

\* CheckTargets, CountSource, OpenRows, EndCopy, OpenFriendships and a failure.
LEMMA PlainStep ==
    ASSUME BackfillInv,
           \/ BackfillFails \/ CheckTargets \/ CountSource \/ OpenRows \/ EndCopy \/ OpenFriendships
    PROVE  BackfillInv'
  <1>1. /\ BackfillTyped /\ MadeSure(job) /\ job \in Job
        /\ job.table \in 1 .. Len(TableOrder) /\ job.shard \in TwoShards
        /\ TableOrder[job.table] \in UserTable
    BY TablesListed DEF BackfillInv, BackfillTyped, Job
  <1>2. UNCHANGED <<sourceVars, targetVars, backfills, audited>>
    BY DEF BackfillFails, CheckTargets, CountSource, OpenRows, EndCopy, OpenFriendships
  <1>3. ASSUME NEW j \in Job, job' = j, j.at = "FAIL" PROVE BackfillInv'
    <2>1. MadeSure(j)
      BY <1>3 DEF MadeSure, Checked
    <2> QED BY <1>2, <1>3, <2>1, JobStep
  <1>4. ASSUME job' = [job EXCEPT !.at = "FAIL"] PROVE BackfillInv'
    <2> DEFINE r == [job EXCEPT !.at = "FAIL"]
    <2>1. r \in Job /\ r.at = "FAIL"
      BY <1>1 DEF Job
    <2> HIDE DEF r
    <2> QED BY <1>3, <1>4, <2>1 DEF r
  <1>5. CASE CheckTargets /\ TargetsEmpty
    <2> DEFINE r == [job EXCEPT !.at = "count"]
    <2>1. r \in Job /\ r.at = "count" /\ job' = r
      BY <1>1, <1>5 DEF Job, Checked, CheckTargets
    <2> HIDE DEF r
    <2>2. MadeSure(r)
      BY <1>5, <2>1 DEF MadeSure, TargetsEmpty
    <2> QED BY <1>2, <2>1, <2>2, JobStep
  <1>6. CASE CountSource
    <2> DEFINE n == Cardinality(Part(ThisTable, job.shard))
               r == [job EXCEPT !.expected = n, !.at = IF job.dry \/ n = 0 THEN "audit" ELSE "copy"]
    <2>1. n \in Nat
      BY <1>1, PartTyped DEF ThisTable
    <2>2. r \in Job /\ r.at \in {"audit", "copy"} /\ (r.at = "copy" => ~r.dry) /\ r.dry = job.dry
      BY <1>1, <2>1 DEF Job, Checked
    <2>3. job' = r
      BY <1>6 DEF CountSource
    <2> HIDE DEF r
    <2>4. MadeSure(r)
      BY <1>1, <1>6, <2>2 DEF MadeSure, Checked, CountSource
    <2> QED BY <1>2, <2>2, <2>3, <2>4, JobStep
  <1>7. CASE OpenRows
    <2> DEFINE r == [job EXCEPT !.at = "batches", !.rows = Part(ThisTable, job.shard)]
    <2>1. Part(ThisTable, job.shard) \subseteq SourceRow
      BY <1>1, PartTyped DEF ThisTable
    <2>2. /\ r \in Job /\ r.at = "batches" /\ r.rows = Part(TableOrder[job.table], job.shard)
          /\ r.table = job.table /\ r.shard = job.shard /\ r.dry = job.dry
      BY <1>1, <2>1 DEF Job, Checked, ThisTable
    <2>3. job' = r
      BY <1>7 DEF OpenRows
    <2> HIDE DEF r
    <2>4. MadeSure(r)
      BY <1>1, <1>7, <2>2 DEF MadeSure, Checked, OpenRows, Part
    <2> QED BY <1>2, <2>2, <2>3, <2>4, JobStep
  <1>8. CASE EndCopy /\ job' = [job EXCEPT !.at = "audit"]
    <2> DEFINE r == [job EXCEPT !.at = "audit"]
    <2>1. r \in Job /\ r.at = "audit" /\ r.dry = job.dry
      BY <1>1 DEF Job, Checked
    <2>2. job' = r
      BY <1>8
    <2> HIDE DEF r
    <2>3. MadeSure(r)
      BY <1>1, <1>8, <2>1 DEF MadeSure, Checked, EndCopy
    <2> QED BY <1>2, <2>1, <2>2, <2>3, JobStep
  <1>9. CASE OpenFriendships
    <2> DEFINE r == [job EXCEPT !.at = "pairs", !.pairs = sourceFriends]
    <2>1. r \in Job /\ r.at = "pairs" /\ r.dry = job.dry
      BY <1>1 DEF Job, Checked, BackfillTyped
    <2>2. job' = r
      BY <1>9 DEF OpenFriendships
    <2> HIDE DEF r
    <2>3. MadeSure(r)
      BY <1>1, <1>9, <2>1 DEF MadeSure, Checked, OpenFriendships
    <2> QED BY <1>2, <2>1, <2>2, <2>3, JobStep
  <1>10. BackfillFails => job' = [job EXCEPT !.at = "FAIL"]
    BY DEF BackfillFails
  <1>11. CheckTargets /\ ~TargetsEmpty => job' = [job EXCEPT !.at = "FAIL"]
    BY DEF CheckTargets
  <1>12. EndCopy => job' = [job EXCEPT !.at = "FAIL"] \/ job' = [job EXCEPT !.at = "audit"]
    BY DEF EndCopy
  <1> QED BY <1>4, <1>5, <1>6, <1>7, <1>8, <1>9, <1>10, <1>11, <1>12

LEMMA CountTargetStep ==
    ASSUME BackfillInv, CountTarget
    PROVE  BackfillInv'
  <1>1. BackfillTyped /\ MadeSure(job) /\ job \in Job
    BY DEF BackfillInv, BackfillTyped
  <1>2. /\ UNCHANGED <<sourceVars, targetVars, backfills, audited>> /\ job.at = "audit"
        /\ \/ job' = [job EXCEPT !.at = "FAIL"]
           \/ job' = FirstPart("friends")
           \/ ~LastPart /\ job' = NextPart("count")
    BY DEF CountTarget
  <1>3. CASE job' = [job EXCEPT !.at = "FAIL"]
    <2>1. BackfillFails
      BY <1>2, <1>3 DEF BackfillFails, Working
    <2> QED BY <2>1, PlainStep
  <1>4. CASE job' = FirstPart("friends")
    <2> DEFINE r == FirstPart("friends")
    <2>1. r \in Job /\ r.at = "friends" /\ r.dry = job.dry
      BY <1>1, Parts DEF Checked
    <2> HIDE DEF r
    <2>2. MadeSure(r)
      BY <1>1, <1>2, <2>1 DEF MadeSure, Checked
    <2> QED BY <1>2, <1>4, <2>1, <2>2, JobStep DEF r
  <1>5. CASE ~LastPart /\ job' = NextPart("count")
    <2> DEFINE r == NextPart("count")
    <2>1. r \in Job /\ r.at = "count" /\ r.dry = job.dry
      BY <1>1, <1>5, Parts DEF Checked
    <2> HIDE DEF r
    <2>2. MadeSure(r)
      BY <1>1, <1>2, <2>1 DEF MadeSure, Checked
    <2> QED BY <1>2, <1>5, <2>1, <2>2, JobStep DEF r
  <1> QED BY <1>2, <1>3, <1>4, <1>5

LEMMA EndFriendshipsStep ==
    ASSUME BackfillInv, EndFriendships
    PROVE  BackfillInv'
  <1>1. BackfillTyped /\ MadeSure(job) /\ job \in Job
    BY DEF BackfillInv, BackfillTyped
  <1>2. /\ UNCHANGED <<sourceVars, targetVars, backfills, audited>> /\ job.at = "pairs"
        /\ ~job.dry => \A p \in job.pairs : Placed(p)
    BY DEF EndFriendships
  <1>3. CASE job.dry
    <2> DEFINE r == [job EXCEPT !.at = "PASS"]
    <2>1. r \in Job /\ r.at = "PASS" /\ r.dry
      BY <1>1, <1>3 DEF Job, Checked
    <2>2. job' = r
      BY <1>3 DEF EndFriendships
    <2> HIDE DEF r
    <2>3. MadeSure(r)
      BY <1>1, <1>2, <1>3, <2>1 DEF MadeSure, Checked
    <2> QED BY <1>2, <2>1, <2>2, <2>3, JobStep
  <1>4. CASE ~job.dry
    <2> DEFINE r == FirstPart("final")
    <2>1. /\ r \in Job /\ r.at = "final" /\ ~r.dry /\ r.pairs = job.pairs
          /\ r.table = 1 /\ r.shard = 0
      BY <1>1, <1>4, Parts DEF Checked
    <2>2. job' = r
      BY <1>4 DEF EndFriendships
    <2> HIDE DEF r
    <2>3. \A i \in 1 .. Len(TableOrder), s \in TwoShards : ~Counted(r, i, s)
      BY <2>1, TablesListed DEF Counted, TwoShards
    <2>4. MadeSure(r)
      BY <1>1, <1>2, <1>4, <2>1, <2>3 DEF MadeSure, Checked
    <2> QED BY <1>2, <2>1, <2>2, <2>4, JobStep
  <1> QED BY <1>3, <1>4

\* A target that has no rows but the source's, and as many, has the source's rows.
LEMMA AuditStep ==
    ASSUME BackfillInv, FinalAudit
    PROVE  BackfillInv'
  <1> DEFINE s == job.shard
             t == TableOrder[job.table]
  <1>1. /\ BackfillTyped /\ OwnRows /\ MadeSure(job) /\ job \in Job
        /\ s \in TwoShards /\ job.table \in 1 .. Len(TableOrder) /\ t \in UserTable
        /\ target \in RowsOnShards /\ audited \in RowsOnShards
    BY TablesListed DEF BackfillInv, BackfillTyped, Job
  <1>2. /\ UNCHANGED <<sourceVars, targetVars, backfills>> /\ job.at = "final"
        /\ audited' = [audited EXCEPT ![s][t] = Part(t, s)]
        /\ \/ job' = [job EXCEPT !.at = "FAIL"]
           \/ SameCount(s, t) /\ LastPart /\ job' = [job EXCEPT !.at = "PASS"]
           \/ SameCount(s, t) /\ ~LastPart /\ job' = NextPart("final")
    BY DEF FinalAudit, ThisTable
  <1>3. /\ ~job.dry /\ \A p \in job.pairs : Placed(p)
        /\ t \notin deletedFrom => target[s][t] \subseteq Part(t, s)
        /\ \A i \in 1 .. Len(TableOrder), z \in TwoShards :
              Counted(job, i, z) /\ TableOrder[i] \notin deletedFrom =>
                  target[z][TableOrder[i]] = audited[z][TableOrder[i]]
    BY <1>1, <1>2 DEF MadeSure, Checked
  <1>4. Part(t, s) \subseteq SourceRow /\ IsFiniteSet(Part(t, s))
    BY <1>1, PartTyped
  <1>5. /\ audited' \in RowsOnShards
        /\ \A z \in TwoShards, u \in UserTable :
              audited'[z][u] = IF z = s /\ u = t THEN Part(t, s) ELSE audited[z][u]
    BY <1>1, <1>2, <1>4 DEF RowsOnShards
  <1>6. ASSUME SameCount(s, t), t \notin deletedFrom PROVE target[s][t] = audited'[s][t]
    <2>1. Cardinality(target[s][t]) = Cardinality(Part(t, s))
      BY <1>6 DEF SameCount
    <2>2. target[s][t] = Part(t, s)
      BY <1>3, <1>4, <1>6, <2>1, FS_Subset
    <2> QED BY <1>1, <1>5, <2>2
  <1>7. ASSUME SameCount(s, t), NEW i \in 1 .. Len(TableOrder), NEW z \in TwoShards,
               Counted(job, i, z) \/ (i = job.table /\ z = s), TableOrder[i] \notin deletedFrom
        PROVE  target[z][TableOrder[i]] = audited'[z][TableOrder[i]]
    <2>1. TableOrder[i] \in UserTable
      BY TablesListed
    <2>2. CASE z = s /\ TableOrder[i] = t
      BY <1>6, <1>7, <2>2
    <2>3. CASE ~(z = s /\ TableOrder[i] = t)
      BY <1>3, <1>5, <1>7, <2>1, <2>3
    <2> QED BY <2>2, <2>3
  <1>8. OwnRows'
    BY <1>1, <1>2 DEF OwnRows, targetVars
  <1>9. /\ TargetsEmpty' = TargetsEmpty /\ \A p : Placed(p)' = Placed(p)
        /\ \A z, u : Part(u, z)' = Part(u, z)
    BY <1>2 DEF TargetsEmpty, Placed, Part, sourceVars, targetVars
  <1>10. ASSUME job' \in Job PROVE BackfillTyped'
    BY <1>1, <1>2, <1>5, <1>10 DEF BackfillTyped, sourceVars, targetVars
  <1>11. \A z \in TwoShards, u \in UserTable : u \notin deletedFrom => target[z][u] \subseteq Part(u, z)
    BY <1>1, <1>2 DEF MadeSure, Checked
  <1> HIDE DEF s, t
  <1>12. CASE job' = [job EXCEPT !.at = "FAIL"]
    <2> DEFINE r == [job EXCEPT !.at = "FAIL"]
    <2>1. r \in Job /\ r.at = "FAIL"
      BY <1>1 DEF Job
    <2>2. job' = r
      BY <1>12
    <2> HIDE DEF r
    <2>3. MadeSure(job)'
      BY <2>1, <2>2 DEF MadeSure, Checked
    <2> QED BY <1>8, <1>10, <2>1, <2>2, <2>3 DEF BackfillInv
  <1>13. CASE SameCount(s, t) /\ LastPart /\ job' = [job EXCEPT !.at = "PASS"]
    <2> DEFINE r == [job EXCEPT !.at = "PASS"]
    <2>1. r \in Job /\ r.at = "PASS" /\ r.pairs = job.pairs /\ ~r.dry
      BY <1>1, <1>3 DEF Job, Checked
    <2>2. job' = r
      BY <1>13
    <2> HIDE DEF r
    <2>3. \A i \in 1 .. Len(TableOrder), z \in TwoShards : Counted(job, i, z) \/ (i = job.table /\ z = s)
      BY <1>1, <1>13, TablesListed DEF Counted, LastPart, TwoShards, s
    <2>4. \A z \in TwoShards, u \in UserTable : u \notin deletedFrom => target[z][u] = audited'[z][u]
      BY <1>7, <1>13, <2>3, TablesListed
    <2>5. /\ job'.at = "PASS" /\ ~job'.dry /\ job'.pairs = job.pairs
          /\ UNCHANGED <<target, deletedFrom>>
      BY <1>2, <2>1, <2>2 DEF sourceVars, targetVars
    <2>6. MadeSure(job)'
      BY <1>3, <1>9, <1>11, <2>4, <2>5 DEF MadeSure, Checked
    <2> QED BY <1>8, <1>10, <2>1, <2>2, <2>6 DEF BackfillInv
  <1>14. CASE SameCount(s, t) /\ ~LastPart /\ job' = NextPart("final")
    <2> DEFINE r == NextPart("final")
    <2>1. /\ r \in Job /\ r.at = "final" /\ r.pairs = job.pairs /\ ~r.dry
          /\ \A i \in 1 .. Len(TableOrder), z \in TwoShards :
                 Counted(r, i, z) => Counted(job, i, z) \/ (i = job.table /\ z = s)
      BY <1>1, <1>3, <1>14, Parts DEF Checked, s
    <2>2. job' = r
      BY <1>14
    <2> HIDE DEF r
    <2>3. \A i \in 1 .. Len(TableOrder), z \in TwoShards :
             Counted(r, i, z) /\ TableOrder[i] \notin deletedFrom =>
                 target[z][TableOrder[i]] = audited'[z][TableOrder[i]]
      BY <1>7, <1>14, <2>1
    <2>4. /\ job' = r /\ job'.at = "final" /\ ~job'.dry /\ job'.pairs = job.pairs
          /\ UNCHANGED <<target, deletedFrom>>
      BY <1>2, <2>1, <2>2 DEF sourceVars, targetVars
    <2>5. \A i, z : Counted(job, i, z)' = Counted(r, i, z)
      BY <2>4 DEF Counted
    <2>6. MadeSure(job)'
      BY <1>3, <1>9, <1>11, <2>3, <2>4, <2>5 DEF MadeSure, Checked
    <2> QED BY <1>8, <1>10, <2>1, <2>2, <2>6 DEF BackfillInv
  <1> QED BY <1>2, <1>12, <1>13, <1>14

LEMMA StartStep ==
    ASSUME BackfillInv, StartBackfill
    PROVE  BackfillInv'
  <1>1. BackfillTyped /\ OwnRows /\ MaxBackfills \in Nat /\ Len(TableOrder) \in Nat \ {0}
    BY BackfillAssumption, TablesListed DEF BackfillInv
  <1>2. PICK d \in BOOLEAN : job' = [NoJob EXCEPT !.at = "check", !.dry = d]
    BY DEF StartBackfill
  <1>3. /\ UNCHANGED <<source, sourceFriends, sourceWrites, targetVars, audited>>
        /\ backfills < MaxBackfills /\ backfills' = backfills + 1
    BY DEF StartBackfill
  <1>4. 1 \in 1 .. Len(TableOrder)
    BY <1>1
  <1>5. job' \in Job /\ job'.at = "check"
    BY <1>2, <1>4 DEF NoJob, Job, TwoShards
  <1>6. backfills' \in 0 .. MaxBackfills
    BY <1>1, <1>3 DEF BackfillTyped
  <1>7. BackfillTyped'
    BY <1>1, <1>3, <1>5, <1>6 DEF BackfillTyped, targetVars
  <1>8. OwnRows'
    BY <1>1, <1>3 DEF OwnRows, targetVars
  <1>9. MadeSure(job)'
    BY <1>5 DEF MadeSure, Checked
  <1> QED BY <1>7, <1>8, <1>9 DEF BackfillInv

\* The rows of a batch are of the source and of the shard they are put on.
LEMMA CopyBatchStep ==
    ASSUME BackfillInv, CopyBatch
    PROVE  BackfillInv'
  <1> DEFINE s == job.shard
             t == TableOrder[job.table]
  <1>1. /\ BackfillTyped /\ OwnRows /\ MadeSure(job) /\ job \in Job
        /\ s \in TwoShards /\ t \in UserTable /\ target \in RowsOnShards
        /\ job.rows \subseteq SourceRow
    BY TablesListed DEF BackfillInv, BackfillTyped, Job
  <1>2. /\ UNCHANGED <<sourceVars, friendRows, friendEdges, job, backfills, audited>>
        /\ job.at = "batches"
    BY DEF CopyBatch
  <1>3. PICK b \in SUBSET job.rows : target' = [target EXCEPT ![s][t] = @ \cup b]
    BY DEF CopyBatch, ThisTable
  <1>4. /\ ~job.dry /\ \A r \in b : r % 2 = s
        /\ t \notin deletedFrom => b \subseteq Part(t, s)
        /\ t \notin deletedFrom => job.rows \subseteq Part(t, s)
        /\ \A r \in job.rows : r % 2 = s
        /\ \A z \in TwoShards, u \in UserTable : u \notin deletedFrom => target[z][u] \subseteq Part(u, z)
    BY <1>1, <1>2 DEF MadeSure, Checked
  <1>5. /\ target' \in RowsOnShards
        /\ \A z \in TwoShards, u \in UserTable :
              target'[z][u] = IF z = s /\ u = t THEN target[z][u] \cup b ELSE target[z][u]
    BY <1>1, <1>3 DEF RowsOnShards
  <1>6. BackfillTyped'
    BY <1>1, <1>2, <1>5 DEF BackfillTyped, sourceVars
  <1>7. OwnRows'
    <2>1. \A r \in b : r % 2 = s
      BY <1>4
    <2>2. \A z \in TwoShards, u \in UserTable : \A r \in target[z][u] : r % 2 = z
      BY <1>1 DEF OwnRows
    <2> HIDE DEF s, t
    <2>3. ASSUME NEW z \in TwoShards, NEW u \in UserTable, NEW r \in target'[z][u]
          PROVE  r % 2 = z
      <3>1. r \in target[z][u] \/ (z = s /\ r \in b)
        BY <1>5
      <3> QED BY <2>1, <2>2, <3>1
    <2> QED BY <2>3 DEF OwnRows
  <1>8. \A z, u : Part(u, z)' = Part(u, z)
    BY <1>2 DEF Part, sourceVars
  <1>9. /\ job' = job /\ UNCHANGED deletedFrom
        /\ \A z \in TwoShards, u \in UserTable : u \notin deletedFrom => target'[z][u] \subseteq Part(u, z)
    BY <1>2, <1>4, <1>5 DEF sourceVars
  <1> HIDE DEF s, t
  <1>10. MadeSure(job)'
    BY <1>2, <1>4, <1>8, <1>9 DEF MadeSure, Checked, s, t
  <1> QED BY <1>6, <1>7, <1>10 DEF BackfillInv

LEMMA CopyFriendshipStep ==
    ASSUME BackfillInv, NEW p \in FriendPair, CopyFriendship(p)
    PROVE  BackfillInv'
  <1>1. /\ UNCHANGED <<sourceVars, target, job, backfills, audited>>
        /\ job.at = "pairs" /\ ~job.dry
    BY DEF CopyFriendship
  <1>2. BackfillTyped' /\ OwnRows'
    BY <1>1 DEF BackfillInv, BackfillTyped, OwnRows, sourceVars
  <1>3. \A z, u : Part(u, z)' = Part(u, z)
    BY <1>1 DEF Part, sourceVars
  <1>4. MadeSure(job)'
    BY <1>1, <1>3 DEF BackfillInv, MadeSure, Checked, sourceVars
  <1> QED BY <1>2, <1>4 DEF BackfillInv

\* What is written to the source while the tool runs adds to its rows or is a
\* deletion that is remembered.
LEMMA WriteSourceStep ==
    ASSUME BackfillInv, WriteSource
    PROVE  BackfillInv'
  <1>1. BackfillTyped /\ MadeSure(job) /\ OwnRows /\ MaxSourceWrites \in Nat
        /\ source \in [UserTable -> SUBSET SourceRow]
    BY BackfillAssumption DEF BackfillInv, BackfillTyped
  <1>2. /\ UNCHANGED <<targetVars, job, backfills, audited>>
        /\ sourceWrites < MaxSourceWrites /\ sourceWrites' = sourceWrites + 1
    BY DEF WriteSource
  <1>3. sourceFriends' \subseteq FriendPair
    BY <1>1 DEF WriteSource, BackfillTyped
  <1>4. /\ source' \in [UserTable -> SUBSET SourceRow]
        /\ deletedFrom \subseteq deletedFrom'
        /\ \A u \in UserTable : u \notin deletedFrom' => source[u] \subseteq source'[u]
    BY <1>1 DEF WriteSource
  <1>5. \A u \in UserTable : \A z : u \notin deletedFrom' => Part(u, z) \subseteq Part(u, z)'
    BY <1>4 DEF Part
  <1>6. sourceWrites' \in 0 .. MaxSourceWrites
    BY <1>1, <1>2 DEF BackfillTyped
  <1>7. BackfillTyped' /\ OwnRows'
    BY <1>1, <1>2, <1>3, <1>4, <1>6 DEF BackfillTyped, OwnRows, targetVars
  <1>8. TableOrder[job.table] \in UserTable
    BY <1>1, TablesListed DEF BackfillTyped, Job
  <1>9. /\ TargetsEmpty' = TargetsEmpty /\ \A p : Placed(p)' = Placed(p)
        /\ \A i, s : Counted(job, i, s)' = Counted(job, i, s)
        /\ UNCHANGED <<job, target, audited>>
    BY <1>2 DEF TargetsEmpty, Placed, Counted, targetVars
  <1>10. job.at = "batches" =>
           (TableOrder[job.table] \notin deletedFrom' =>
               job.rows \subseteq Part(TableOrder[job.table], job.shard)')
    <2> SUFFICES ASSUME job.at = "batches", TableOrder[job.table] \notin deletedFrom'
                 PROVE  job.rows \subseteq Part(TableOrder[job.table], job.shard)'
      OBVIOUS
    <2>1. TableOrder[job.table] \notin deletedFrom
      BY <1>4
    <2>2. job.rows \subseteq Part(TableOrder[job.table], job.shard)
      BY <1>1, <2>1 DEF MadeSure
    <2>3. source[TableOrder[job.table]] \subseteq source'[TableOrder[job.table]]
      BY <1>4, <1>8
    <2> QED BY <1>9, <2>2, <2>3 DEF Part
  <1>11. job.at \in Checked =>
           \A s \in TwoShards, t \in UserTable :
               t \notin deletedFrom' => target[s][t] \subseteq Part(t, s)'
    BY <1>1, <1>4, <1>5 DEF MadeSure
  <1>12. MadeSure(job)'
    BY <1>1, <1>4, <1>9, <1>10, <1>11 DEF MadeSure
  <1> QED BY <1>7, <1>12 DEF BackfillInv

LEMMA BackfillInitInv == BackfillInit => BackfillInv
  <1> SUFFICES ASSUME BackfillInit PROVE BackfillInv
    OBVIOUS
  <1>1. 1 \in 1 .. Len(TableOrder)
    BY TablesListed
  <1>2. job \in Job /\ job.at = "off"
    BY <1>1 DEF BackfillInit, NoJob, Job, TwoShards
  <1>3. /\ source \in [UserTable -> SUBSET SourceRow] /\ sourceFriends \subseteq FriendPair
        /\ backfills \in 0 .. MaxBackfills /\ sourceWrites \in 0 .. MaxSourceWrites
    BY BackfillAssumption DEF BackfillInit
  <1>4. target \in RowsOnShards /\ audited \in RowsOnShards
    BY DEF BackfillInit, RowsOnShards
  <1>5. OwnRows
    BY DEF BackfillInit, OwnRows
  <1>6. MadeSure(job)
    BY <1>2 DEF MadeSure, Checked
  <1> QED BY <1>2, <1>3, <1>4, <1>5, <1>6 DEF BackfillInv, BackfillTyped

LEMMA BackfillStepInv == BackfillInv /\ [BackfillNext]_bfVars => BackfillInv'
  <1> SUFFICES ASSUME BackfillInv, [BackfillNext]_bfVars PROVE BackfillInv'
    OBVIOUS
  <1>1. ASSUME UNCHANGED bfVars PROVE BackfillInv'
    <2>1. /\ UNCHANGED <<sourceVars, targetVars, backfills, audited>> /\ job' = job
      BY <1>1 DEF bfVars, sourceVars, targetVars
    <2>2. job \in Job /\ MadeSure(job)
      BY DEF BackfillInv, BackfillTyped
    <2> QED BY <2>1, <2>2, JobStep
  <1> QED BY <1>1, StartStep, PlainStep, CountTargetStep, EndFriendshipsStep, AuditStep,
             CopyBatchStep, CopyFriendshipStep, WriteSourceStep DEF BackfillNext

LEMMA BackfillFrame == [Next]_servicesVars => [BackfillNext]_bfVars
  BY DEF Next, servicesVars

\* The invariant of the backfill: what the run has copied is of the source, and what
\* it has audited is what it found there.
THEOREM BackfillInvariant == Spec => []BackfillInv
  <1>1. Init => BackfillInv
    BY BackfillInitInv DEF Init
  <1>2. BackfillInv /\ [Next]_servicesVars => BackfillInv'
    BY BackfillStepInv, BackfillFrame
  <1> QED BY <1>1, <1>2, PTL DEF Spec

\* A run that reports PASS has put every row where its owner belongs, whenever the
\* source was written meanwhile, failures ended earlier runs, and batches ended (run).
THEOREM BackfillIsWhole == Spec => []BackfillWhole
  <1>1. BackfillInv => BackfillWhole
    BY DEF BackfillInv, OwnRows, MadeSure, BackfillWhole, Checked
  <1> QED BY <1>1, BackfillInvariant, PTL

-----------------------------------------------------------------------------
(* Projections.                                                              *)

Task == [progress : Nat, status : {"none", "ACTIVE", "COMPLETED", "REWARD_CLAIMED"}]
Holding == [projector : Projector \cup {"none"}, event : ProjEvent \cup {NoEvent}, next : Nat,
            tries : 0 .. MaxTries]

ProjTyped ==
    /\ tasks \in [Player \X TaskKey -> Task]
    /\ coins \in [Player -> Int]
    /\ notices \in [ProjEvent \X Player -> Nat]
    /\ consumed \cup givenUp \subseteq Projector \X ProjEvent
    /\ work \in [Member -> Holding]
    /\ projFaults \in 0 .. MaxProjFaults

\* The i-th effect of e is done for good: e is consumed, or a member that handles it
\* is past the effect.
Did(p, e, i) ==
    \/ <<p, e>> \in consumed
    \/ \E m \in Member : work[m].projector = p /\ work[m].event = e /\ i < work[m].next

Done(u, k) ==
    {e \in ProjEvent : /\ EventOf[e].actor = u /\ k \in TaskKeysByEvent(e)
                       /\ \E i \in DOMAIN TaskEffects(e) :
                              TaskEffects(e)[i].what = k /\ Did("task-projector", e, i)}

\* A task's progress is not behind the events done for it, of which d are.
InStep(t, goal, d) ==
    /\ t.status = "none" => t.progress = 0 /\ d = {}
    /\ t.status = "ACTIVE" => /\ Cardinality(d) <= t.progress /\ t.progress <= goal
                              /\ t.progress < goal \/ t.progress = 1
    /\ t.status \in {"COMPLETED", "REWARD_CLAIMED"} => t.progress = goal

Sent(f) ==
    /\ f.kind = "mail" => notices[<<f.what, f.user>>] > 0
    /\ f.kind = "catalog" => <<f.user, f.what>> \in unlocked

Counts ==
    /\ \A u \in Player, k \in TaskKey : InStep(tasks[<<u, k>>], Target[k], Done(u, k))
    /\ \A p \in Projector, e \in ProjEvent : \A i \in DOMAIN Effects(p, e) :
           Did(p, e, i) => Sent(Effects(p, e)[i])

Paying == \A u \in Player : IsFiniteSet(Units(Paid(u))) /\ coins[u] = Tally(Paid(u))

\* Who handles an event handles one of a projector, and starts with its first effect.
Handles(w) == w.projector \in Projector /\ w.event \in ProjEvent /\ w.next >= 1
Handling == \A m \in Member : work[m] = IdleMember \/ Handles(work[m])

ProjInv == ProjTyped /\ Handling /\ Counts /\ Paying

\* SetToSeq lists every element of a finite set.
LEMMA Listed ==
    ASSUME NEW S, IsFiniteSet(S)
    PROVE  /\ SetToSeq(S) \in Seq(S) /\ DOMAIN SetToSeq(S) = 1 .. Len(SetToSeq(S))
           /\ Len(SetToSeq(S)) \in Nat
           /\ \A x \in S : \E i \in DOMAIN SetToSeq(S) : SetToSeq(S)[i] = x
           /\ \A i \in DOMAIN SetToSeq(S) : SetToSeq(S)[i] \in S
  <1> DEFINE n == Cardinality(S)
             f == SetToSeq(S)
  <1>1. n \in Nat /\ ExistsBijection(1 .. n, S)
    BY FS_CardinalityType
  <1>2. \E g \in [1 .. n -> S] : IsInjective(g)
    BY <1>1 DEF ExistsBijection, Bijection, Injection
  <1>3. f \in [1 .. n -> S] /\ IsInjective(f)
    BY <1>2 DEF SetToSeq
  <1>4. f \in Injection(1 .. n, S)
    BY <1>3 DEF Injection
  <1>5. Cardinality(1 .. n) = n
    BY <1>1, FS_Interval
  <1> HIDE DEF f
  <1>6. f \in Surjection(1 .. n, S)
    BY <1>4, <1>5, FS_Injection
  <1>7. \A x \in S : \E i \in DOMAIN f : f[i] = x
    BY <1>3, <1>6 DEF Surjection
  <1>8. f \in Seq(S) /\ Len(f) = n
    BY <1>1, <1>3
  <1> QED BY <1>1, <1>3, <1>7, <1>8 DEF f

\* What the effects of an event are.
LEMMA EffectsAre ==
    ASSUME NEW p \in Projector, NEW e \in ProjEvent
    PROVE  /\ Len(Effects(p, e)) \in Nat /\ DOMAIN Effects(p, e) = 1 .. Len(Effects(p, e))
           /\ \A i \in DOMAIN Effects(p, e) :
                 LET f == Effects(p, e)[i] IN
                 /\ f.kind = "task" => /\ p = "task-projector" /\ f.user = EventOf[e].actor
                                       /\ f.what \in TaskKeysByEvent(e) \cap TaskKey
                 /\ f.kind = "mail" => f.what = e /\ f.user \in Player
                 /\ p = "task-projector" => f.kind = "task"
           /\ p = "task-projector" => \A k \in TaskKeysByEvent(e) \cap TaskKey :
                 \E i \in DOMAIN Effects(p, e) : Effects(p, e)[i].what = k
  <1>1. EventOf[e].actor \in Player /\ EventOf[e].owner \in Player
    BY ProjAssumption
  <1>2. CASE p = "task-projector"
    <2> DEFINE K == TaskKeysByEvent(e) \cap TaskKey
               effect(k) == [kind |-> "task", user |-> EventOf[e].actor, what |-> k]
               F == {effect(k) : k \in K}
    <2>1. IsFiniteSet(K)
      <3>1. K \subseteq {"plant_10", "harvest_5", "steal_1", "help_water_3"}
        BY DEF TaskKeysByEvent
      <3>2. IsFiniteSet(((({} \cup {"plant_10"}) \cup {"harvest_5"}) \cup {"steal_1"}) \cup {"help_water_3"})
        BY FS_EmptySet, FS_AddElement
      <3>3. {"plant_10", "harvest_5", "steal_1", "help_water_3"} =
              ((({} \cup {"plant_10"}) \cup {"harvest_5"}) \cup {"steal_1"}) \cup {"help_water_3"}
        OBVIOUS
      <3> QED BY <3>1, <3>2, <3>3, FS_Subset
    <2>2. IsFiniteSet(F)
      <3> DEFINE g == [k \in K |-> effect(k)]
      <3>1. g \in Surjection(K, F)
        BY DEF Surjection
      <3> QED BY <2>1, <3>1, FS_Surjection
    <2>3. Effects(p, e) = SetToSeq(F)
      BY <1>2 DEF Effects, TaskEffects
    <2>4. /\ Len(Effects(p, e)) \in Nat /\ DOMAIN Effects(p, e) = 1 .. Len(Effects(p, e))
          /\ \A x \in F : \E i \in DOMAIN Effects(p, e) : Effects(p, e)[i] = x
          /\ \A i \in DOMAIN Effects(p, e) : Effects(p, e)[i] \in F
      BY <2>2, <2>3, Listed
    <2>5. \A k \in K : effect(k) \in F /\ effect(k).what = k
      OBVIOUS
    <2>6. \A x \in F : x.kind = "task" /\ x.user = EventOf[e].actor /\ x.what \in K
      OBVIOUS
    <2> HIDE DEF F, effect
    <2> QED BY <1>2, <2>4, <2>5, <2>6
  <1>3. CASE p = "mail-projector"
    <2> DEFINE to(u) == [kind |-> "mail", user |-> u, what |-> e]
               x == to(EventOf[e].owner)
               y == to(EventOf[e].actor)
    <2>1. Effects(p, e) = <<x>> \/ Effects(p, e) = <<x, y>> \/ Effects(p, e) = <<>>
      BY <1>3 DEF Effects, MailEffects
    <2>2. /\ x.kind = "mail" /\ x.what = e /\ x.user \in Player
          /\ y.kind = "mail" /\ y.what = e /\ y.user \in Player
      BY <1>1
    <2> HIDE DEF x, y
    <2>3. /\ Len(Effects(p, e)) \in Nat /\ DOMAIN Effects(p, e) = 1 .. Len(Effects(p, e))
          /\ \A i \in DOMAIN Effects(p, e) : Effects(p, e)[i] \in {x, y}
      BY <2>1
    <2> QED BY <1>3, <2>2, <2>3
  <1>4. CASE p = "catalog-projector"
    <2> DEFINE x == [kind |-> "catalog", user |-> EventOf[e].owner, what |-> EventOf[e].crop]
    <2>1. Effects(p, e) = <<x>> \/ Effects(p, e) = <<>>
      BY <1>4 DEF Effects, CatalogEffects
    <2>2. x.kind = "catalog"
      OBVIOUS
    <2> HIDE DEF x
    <2>3. /\ Len(Effects(p, e)) \in Nat /\ DOMAIN Effects(p, e) = 1 .. Len(Effects(p, e))
          /\ \A i \in DOMAIN Effects(p, e) : Effects(p, e)[i] = x
      BY <2>1
    <2> QED BY <1>4, <2>2, <2>3
  <1> QED BY <1>2, <1>3, <1>4 DEF Projector

LEMMA DoneFinite ==
    ASSUME NEW u, NEW k
    PROVE  IsFiniteSet(Done(u, k)) /\ Cardinality(Done(u, k)) \in Nat
  <1>1. Done(u, k) \subseteq ProjEvent
    BY DEF Done
  <1> QED BY <1>1, ProjAssumption, FS_Subset, FS_CardinalityType

\* Nothing has been done but what was before.
LEMMA FewerDone ==
    ASSUME NEW t \in Task, NEW n, NEW d, NEW c, InStep(t, n, d), c \subseteq d,
           IsFiniteSet(d)
    PROVE  InStep(t, n, c)
  <1>1. Cardinality(c) <= Cardinality(d) /\ Cardinality(c) \in Nat /\ Cardinality(d) \in Nat
    BY FS_Subset, FS_CardinalityType
  <1> QED BY <1>1 DEF InStep, Task

\* One event more, and the progress is incremented.
LEMMA OneMoreDone ==
    ASSUME NEW t \in Task, NEW k \in TaskKey, NEW d, NEW c, NEW e, InStep(t, Target[k], d),
           c \subseteq d \cup {e}, IsFiniteSet(d)
    PROVE  InStep(Incremented(t, k), Target[k], c) /\ Incremented(t, k) \in Task
  <1>1. /\ Cardinality(c) <= Cardinality(d) + 1 /\ Cardinality(c) \in Nat /\ Cardinality(d) \in Nat
        /\ d = {} => Cardinality(d) = 0
    <2>1. IsFiniteSet(d \cup {e}) /\ Cardinality(d \cup {e}) <= Cardinality(d) + 1
          /\ Cardinality(d) \in Nat
      <3>1. Cardinality(d) \in Nat
        BY FS_CardinalityType
      <3>2. /\ IsFiniteSet(d \cup {e})
            /\ Cardinality(d \cup {e}) = IF e \in d THEN Cardinality(d) ELSE Cardinality(d) + 1
        BY FS_AddElement
      <3> QED BY <3>1, <3>2
    <2>2. Cardinality(c) <= Cardinality(d \cup {e}) /\ IsFiniteSet(c)
      BY <2>1, FS_Subset
    <2>3. Cardinality(d \cup {e}) \in Nat /\ Cardinality(c) \in Nat
      BY <2>1, <2>2, FS_CardinalityType
    <2> QED BY <2>1, <2>2, <2>3, FS_EmptySet
  <1>2. Target[k] \in Nat \ {0} /\ t.progress \in Nat
    BY ProjAssumption DEF Task
  <1>3. CASE t.status = "none"
    <2>1. Incremented(t, k) = [progress |-> 1, status |-> "ACTIVE"]
      BY <1>3 DEF Incremented
    <2> QED BY <1>1, <1>2, <1>3, <2>1 DEF InStep, Task
  <1>4. CASE t.status = "ACTIVE"
    <2> DEFINE n == IF t.progress < Target[k] THEN t.progress + 1 ELSE Target[k]
    <2>1. Incremented(t, k) = [progress |-> n, status |-> IF n >= Target[k] THEN "COMPLETED" ELSE "ACTIVE"]
      BY <1>4 DEF Incremented
    <2>2. n \in Nat /\ n <= Target[k] /\ (n < Target[k] => n = t.progress + 1)
      BY <1>2
    <2> HIDE DEF n
    <2> QED BY <1>1, <1>2, <1>4, <2>1, <2>2 DEF InStep, Task
  <1>5. CASE t.status \in {"COMPLETED", "REWARD_CLAIMED"}
    BY <1>5 DEF Incremented, InStep
  <1> QED BY <1>3, <1>4, <1>5 DEF Task

\* A handler's step that has no effect, and after which no more is done for good.
LEMMA NoEffect ==
    ASSUME ProjInv, UNCHANGED <<tasks, notices, unlocked>>,
           \A p \in Projector, e \in ProjEvent : \A i \in DOMAIN Effects(p, e) : Did(p, e, i)' => Did(p, e, i)
    PROVE  Counts'
  <1>1. ASSUME NEW u \in Player, NEW k \in TaskKey
        PROVE  InStep(tasks[<<u, k>>], Target[k], Done(u, k))'
    <2>1. Done(u, k)' \subseteq Done(u, k)
      BY DEF Done, Projector, Effects
    <2>2. InStep(tasks[<<u, k>>], Target[k], Done(u, k)) /\ tasks[<<u, k>>] \in Task
      BY DEF ProjInv, ProjTyped, Counts
    <2>3. InStep(tasks[<<u, k>>], Target[k], Done(u, k)')
      BY <2>1, <2>2, DoneFinite, FewerDone
    <2> QED BY <2>3
  <1>2. \A p \in Projector, e \in ProjEvent : \A i \in DOMAIN Effects(p, e) :
          Did(p, e, i)' => Sent(Effects(p, e)[i])'
    BY DEF ProjInv, Counts, Sent
  <1> QED BY <1>1, <1>2 DEF Counts

\* Nothing more is done for good than the n-th effect of e.
AtMostDid(p, e, n) ==
    \A q \in Projector, d \in ProjEvent : \A i \in DOMAIN Effects(q, d) :
        Did(q, d, i)' => Did(q, d, i) \/ (q = p /\ d = e /\ i = n)

\* A member performs the effect f of an event, which is the only one that may have
\* been added to what is done.
LEMMA EffectOn ==
    ASSUME ProjInv, NEW p \in Projector, NEW e \in ProjEvent, NEW n \in DOMAIN Effects(p, e),
           TakesEffect(Effects(p, e)[n]),
           AtMostDid(p, e, n)
    PROVE  /\ Counts'
           /\ tasks' \in [Player \X TaskKey -> Task] /\ notices' \in [ProjEvent \X Player -> Nat]
           /\ \A u \in Player, k \in TaskKey :
                  tasks'[<<u, k>>].status = "REWARD_CLAIMED" <=> tasks[<<u, k>>].status = "REWARD_CLAIMED"
  <1> DEFINE f == Effects(p, e)[n]
  <1>1. /\ tasks \in [Player \X TaskKey -> Task] /\ notices \in [ProjEvent \X Player -> Nat]
        /\ \A u \in Player, k \in TaskKey :
              /\ InStep(tasks[<<u, k>>], Target[k], Done(u, k)) /\ tasks[<<u, k>>] \in Task
    BY DEF ProjInv, ProjTyped, Counts
  <1>2. /\ f.kind = "task" => /\ p = "task-projector" /\ f.user = EventOf[e].actor
                              /\ f.what \in TaskKey /\ f.user \in Player
        /\ f.kind = "mail" => f.what = e /\ f.user \in Player
        /\ p = "task-projector" => f.kind = "task"
    BY EffectsAre, ProjAssumption
  <1>3. /\ tasks' = IF f.kind = "task"
                    THEN [tasks EXCEPT ![<<f.user, f.what>>] = Incremented(@, f.what)] ELSE tasks
        /\ notices' = IF f.kind = "mail" THEN [notices EXCEPT ![<<f.what, f.user>>] = @ + 1]
                      ELSE notices
        /\ unlocked' = IF f.kind = "catalog" THEN unlocked \cup {<<f.user, f.what>>} ELSE unlocked
    BY DEF TakesEffect
  <1>4. ASSUME NEW u \in Player, NEW k \in TaskKey
        PROVE  Done(u, k)' \subseteq Done(u, k) \cup {e}
    BY DEF Done, Projector, Effects, AtMostDid
  <1>5. ASSUME NEW u \in Player, NEW k \in TaskKey, ~(f.kind = "task" /\ f.user = u /\ f.what = k)
        PROVE  Done(u, k)' \subseteq Done(u, k)
    <2> SUFFICES ASSUME NEW d \in Done(u, k)' PROVE d \in Done(u, k)
      OBVIOUS
    <2>1. /\ d \in ProjEvent /\ EventOf[d].actor = u /\ k \in TaskKeysByEvent(d)
      BY DEF Done
    <2>2. PICK i \in DOMAIN TaskEffects(d) : TaskEffects(d)[i].what = k /\ Did("task-projector", d, i)'
      BY DEF Done
    <2>3. TaskEffects(d) = Effects("task-projector", d) /\ "task-projector" \in Projector
      BY DEF Effects, Projector
    <2>4. Did("task-projector", d, i) \/ (p = "task-projector" /\ d = e /\ i = n)
      BY <2>1, <2>2, <2>3 DEF AtMostDid
    <2>5. ~(p = "task-projector" /\ d = e /\ i = n)
      BY <1>2, <1>5, <2>1, <2>2, <2>3
    <2> QED BY <2>1, <2>2, <2>4, <2>5 DEF Done
  <1> HIDE DEF f
  <1>6. notices' \in [ProjEvent \X Player -> Nat]
    BY <1>1, <1>2, <1>3
  <1>7. ASSUME NEW u \in Player, NEW k \in TaskKey
        PROVE  /\ tasks'[<<u, k>>] \in Task
               /\ InStep(tasks'[<<u, k>>], Target[k], Done(u, k)')
               /\ tasks'[<<u, k>>].status = "REWARD_CLAIMED" <=> tasks[<<u, k>>].status = "REWARD_CLAIMED"
    <2>1. CASE f.kind = "task" /\ f.user = u /\ f.what = k
      <3>1. tasks'[<<u, k>>] = Incremented(tasks[<<u, k>>], k)
        BY <1>1, <1>3, <2>1
      <3>2. InStep(tasks[<<u, k>>], Target[k], Done(u, k)) /\ tasks[<<u, k>>] \in Task
        BY <1>1
      <3>3. /\ InStep(Incremented(tasks[<<u, k>>], k), Target[k], Done(u, k)')
            /\ Incremented(tasks[<<u, k>>], k) \in Task
        BY <1>4, <3>2, DoneFinite, OneMoreDone
      <3>4. Incremented(tasks[<<u, k>>], k).status = "REWARD_CLAIMED" <=> tasks[<<u, k>>].status = "REWARD_CLAIMED"
        BY DEF Incremented
      <3> QED BY <3>1, <3>3, <3>4
    <2>2. CASE ~(f.kind = "task" /\ f.user = u /\ f.what = k)
      <3>1. tasks'[<<u, k>>] = tasks[<<u, k>>]
        <4>1. CASE f.kind # "task"
          BY <1>3, <4>1
        <4>2. CASE f.kind = "task"
          <5>1. <<f.user, f.what>> # <<u, k>>
            BY <2>2, <4>2
          <5> QED BY <1>1, <1>3, <4>2, <5>1
        <4> QED BY <4>1, <4>2
      <3>2. InStep(tasks[<<u, k>>], Target[k], Done(u, k)) /\ tasks[<<u, k>>] \in Task
        BY <1>1
      <3>3. InStep(tasks[<<u, k>>], Target[k], Done(u, k)')
        BY <1>5, <2>2, <3>2, DoneFinite, FewerDone
      <3> QED BY <3>1, <3>2, <3>3
    <2> QED BY <2>1, <2>2
  <1>8. tasks' \in [Player \X TaskKey -> Task]
    <2>1. \E A \in {Player \X TaskKey} : tasks' \in [A -> {tasks'[x] : x \in A}]
      BY <1>1, <1>3
    <2>2. \A x \in Player \X TaskKey : tasks'[x] \in Task
      BY <1>7
    <2> QED BY <2>1, <2>2
  <1>9. /\ \A x \in ProjEvent \X Player : notices[x] > 0 => notices'[x] > 0
        /\ unlocked \subseteq unlocked'
        /\ f.kind = "mail" => notices'[<<f.what, f.user>>] > 0
        /\ f.kind = "catalog" => <<f.user, f.what>> \in unlocked'
    BY <1>1, <1>2, <1>3
  <1>10. ASSUME NEW q \in Projector, NEW d \in ProjEvent, NEW i \in DOMAIN Effects(q, d),
                Did(q, d, i)'
         PROVE  Sent(Effects(q, d)[i])'
    <2>1. CASE Did(q, d, i)
      <3>1. Sent(Effects(q, d)[i])
        BY <2>1 DEF ProjInv, Counts
      <3>2. Effects(q, d)[i].kind = "mail" =>
              <<Effects(q, d)[i].what, Effects(q, d)[i].user>> \in ProjEvent \X Player
        BY EffectsAre
      <3> QED BY <1>9, <3>1, <3>2 DEF Sent
    <2>2. CASE q = p /\ d = e /\ i = n
      BY <1>9, <2>2 DEF Sent, f
    <2> QED BY <1>10, <2>1, <2>2 DEF AtMostDid
  <1>11. \A u \in Player, k \in TaskKey : InStep(tasks[<<u, k>>], Target[k], Done(u, k))'
    BY <1>7
  <1>12. Counts'
    BY <1>10, <1>11 DEF Counts
  <1> QED BY <1>6, <1>7, <1>8, <1>12

\* Rewards that nobody claims stay paid.
LEMMA PaidStays ==
    ASSUME ProjInv, UNCHANGED coins,
           \A u \in Player, k \in TaskKey :
               tasks'[<<u, k>>].status = "REWARD_CLAIMED" <=> tasks[<<u, k>>].status = "REWARD_CLAIMED"
    PROVE  Paying'
  <1>1. \A u \in Player : Paid(u)' = Paid(u)
    BY DEF Paid
  <1> QED BY <1>1 DEF ProjInv, Paying

\* What a member goes to without an effect: nothing more is done for good.
LEMMA HoldingStep ==
    ASSUME ProjTyped, Handling, NEW m \in Member, NEW w \in Holding,
           work' = [work EXCEPT ![m] = w],
           w = IdleMember \/ (Handles(w) /\ w.next = 1), UNCHANGED consumed
    PROVE  /\ work' \in [Member -> Holding] /\ Handling'
           /\ \A p \in Projector, e \in ProjEvent : \A i \in DOMAIN Effects(p, e) : Did(p, e, i)' => Did(p, e, i)
  <1>1. /\ work \in [Member -> Holding] /\ work' \in [Member -> Holding]
        /\ \A j \in Member : work'[j] = IF j = m THEN w ELSE work[j]
    BY DEF ProjTyped
  <1>2. ASSUME NEW p \in Projector, NEW e \in ProjEvent, NEW i \in DOMAIN Effects(p, e), Did(p, e, i)'
        PROVE  Did(p, e, i)
    <2>1. i \in Nat /\ i >= 1
      BY EffectsAre
    <2>2. w.projector = p => w.next = 1
      BY DEF Projector, IdleMember
    <2>3. CASE <<p, e>> \in consumed'
      BY <2>3 DEF Did
    <2>4. ASSUME NEW j \in Member, work'[j].projector = p, work'[j].event = e, i < work'[j].next
          PROVE  Did(p, e, i)
      <3>1. j # m
        BY <1>1, <2>1, <2>2, <2>4
      <3> QED BY <1>1, <2>4, <3>1 DEF Did
    <2> QED BY <1>2, <2>3, <2>4 DEF Did
  <1>3. Handling'
    BY <1>1 DEF Handling
  <1> QED BY <1>1, <1>2, <1>3

LEMMA IdleTyped == IdleMember \in Holding
  BY ProjAssumption DEF IdleMember, Holding

\* A handler starts over or parks its event.
LEMMA RetryStep ==
    ASSUME ProjTyped, Handling, NEW m \in Member, Retry(m), UNCHANGED consumed,
           work[m] # IdleMember
    PROVE  /\ work' \in [Member -> Holding] /\ Handling'
           /\ (consumed \cup givenUp)' \subseteq Projector \X ProjEvent
           /\ \A p \in Projector, e \in ProjEvent : \A i \in DOMAIN Effects(p, e) : Did(p, e, i)' => Did(p, e, i)
  <1>1. /\ work \in [Member -> Holding] /\ work[m] \in Holding /\ MaxTries \in Nat
        /\ consumed \cup givenUp \subseteq Projector \X ProjEvent /\ Handles(work[m])
    BY ProjAssumption DEF ProjTyped, Handling
  <1>2. CASE work[m].tries < MaxTries
    <2> DEFINE w == [work[m] EXCEPT !.tries = @ + 1, !.next = 1]
    <2>1. work[m].tries + 1 \in 0 .. MaxTries
      BY <1>1, <1>2 DEF Holding
    <2>2. /\ w \in Holding /\ w.next = 1
          /\ w.projector = work[m].projector /\ w.event = work[m].event
      BY <1>1, <2>1 DEF Holding
    <2>3. work' = [work EXCEPT ![m] = w] /\ givenUp' = givenUp
      BY <1>2 DEF Retry
    <2> HIDE DEF w
    <2>4. Handles(w)
      BY <1>1, <2>2 DEF Handles
    <2> QED BY <1>1, <2>2, <2>3, <2>4, HoldingStep
  <1>3. CASE ~(work[m].tries < MaxTries)
    <2>1. work' = [work EXCEPT ![m] = IdleMember]
          /\ givenUp' = givenUp \cup {<<work[m].projector, work[m].event>>}
      BY <1>3 DEF Retry
    <2>2. (consumed \cup givenUp)' \subseteq Projector \X ProjEvent
      BY <1>1, <2>1 DEF Handles
    <2> QED BY <2>1, <2>2, IdleTyped, HoldingStep
  <1> QED BY <1>2, <1>3

LEMMA TakeStep ==
    ASSUME ProjInv, NEW m \in Member, NEW p \in Projector, NEW e \in ProjEvent, TakeEvent(m, p, e)
    PROVE  ProjInv'
  <1> DEFINE w == [projector |-> p, event |-> e, next |-> 1, tries |-> 0]
  <1>1. w \in Holding /\ Handles(w) /\ w.next = 1
    BY ProjAssumption DEF Holding, Handles
  <1>2. /\ work' = [work EXCEPT ![m] = w]
        /\ UNCHANGED <<tasks, coins, notices, unlocked, consumed, givenUp, projFaults>>
    BY DEF TakeEvent
  <1> HIDE DEF w
  <1>3. ProjTyped /\ Handling
    BY DEF ProjInv
  <1>4. /\ work' \in [Member -> Holding] /\ Handling'
        /\ \A q \in Projector, d \in ProjEvent : \A i \in DOMAIN Effects(q, d) : Did(q, d, i)' => Did(q, d, i)
    BY <1>1, <1>2, <1>3, HoldingStep
  <1>5. ProjTyped'
    BY <1>2, <1>3, <1>4 DEF ProjTyped
  <1>6. Counts'
    BY <1>2, <1>4, NoEffect
  <1>7. Paying'
    BY <1>2, PaidStays
  <1> QED BY <1>4, <1>5, <1>6, <1>7 DEF ProjInv

LEMMA PerformStep ==
    ASSUME ProjInv, NEW m \in Member, Perform(m)
    PROVE  ProjInv'
  <1> DEFINE p == work[m].projector
             e == work[m].event
             n == work[m].next
             w == [work[m] EXCEPT !.next = @ + 1]
  <1>1. /\ ProjTyped /\ Handling /\ work \in [Member -> Holding] /\ work[m] \in Holding
        /\ p \in Projector /\ e \in ProjEvent /\ n \in Nat /\ n >= 1
    BY DEF ProjInv, ProjTyped, Handling, Handles, Perform, HasEffect, Holding
  <1>2. w \in Holding /\ w.projector = p /\ w.event = e /\ w.next = n + 1
    BY <1>1 DEF Holding
  <1>3. /\ work' = [work EXCEPT ![m] = w] /\ TakesEffect(Effects(p, e)[n])
        /\ n <= Len(Effects(p, e)) /\ UNCHANGED <<coins, consumed, givenUp, projFaults>>
    BY DEF Perform, HasEffect, Effect
  <1> HIDE DEF p, e, n, w
  <1>4. \A j \in Member : work'[j] = IF j = m THEN w ELSE work[j]
    BY <1>1, <1>3
  <1>5. AtMostDid(p, e, n)
    <2> SUFFICES ASSUME NEW q \in Projector, NEW d \in ProjEvent, NEW i \in DOMAIN Effects(q, d),
                        Did(q, d, i)', ~(q = p /\ d = e /\ i = n)
                 PROVE  Did(q, d, i)
      BY DEF AtMostDid
    <2>1. i \in Nat
      BY EffectsAre
    <2>2. CASE <<q, d>> \in consumed'
      BY <1>3, <2>2 DEF Did
    <2>3. ASSUME NEW j \in Member, work'[j].projector = q, work'[j].event = d, i < work'[j].next
          PROVE  Did(q, d, i)
      <3>1. CASE j # m
        BY <1>4, <2>3, <3>1 DEF Did
      <3>2. CASE j = m
        <4>1. q = p /\ d = e /\ i < n + 1
          BY <1>2, <1>4, <2>3, <3>2
        <4>2. i < n
          BY <1>1, <2>1, <4>1
        <4> QED BY <4>1, <4>2 DEF Did, p, e, n
      <3> QED BY <3>1, <3>2
    <2> QED BY <2>2, <2>3 DEF Did
  <1>6. n \in DOMAIN Effects(p, e)
    BY <1>1, <1>3, EffectsAre
  <1>7. /\ Counts'
        /\ tasks' \in [Player \X TaskKey -> Task] /\ notices' \in [ProjEvent \X Player -> Nat]
        /\ \A u \in Player, k \in TaskKey :
               tasks'[<<u, k>>].status = "REWARD_CLAIMED" <=> tasks[<<u, k>>].status = "REWARD_CLAIMED"
    <2>1. p \in Projector /\ e \in ProjEvent /\ TakesEffect(Effects(p, e)[n])
      BY <1>1, <1>3
    <2> QED BY <1>5, <1>6, <2>1, EffectOn
  <1>8. ProjTyped'
    BY <1>1, <1>2, <1>3, <1>7 DEF ProjTyped
  <1>9. Handling'
    BY <1>1, <1>2, <1>4 DEF Handling, Handles
  <1>10. Paying'
    BY <1>3, <1>7, PaidStays
  <1> QED BY <1>7, <1>8, <1>9, <1>10 DEF ProjInv

\* A call that fails has had its effect or not, and the handler starts over.
LEMMA CallFailsStep ==
    ASSUME ProjInv, NEW m \in Member, CallFails(m)
    PROVE  ProjInv'
  <1> DEFINE p == work[m].projector
             e == work[m].event
             n == work[m].next
  <1>1. /\ ProjTyped /\ Handling /\ work[m] # IdleMember
        /\ p \in Projector /\ e \in ProjEvent /\ n \in Nat /\ n >= 1 /\ MaxProjFaults \in Nat
    <2>1. ProjTyped /\ Handling /\ work[m] # IdleMember /\ MaxProjFaults \in Nat
      BY ProjAssumption DEF ProjInv, CallFails, HasEffect
    <2>2. work[m] \in Holding /\ Handles(work[m])
      BY <2>1 DEF ProjTyped, Handling
    <2> QED BY <2>1, <2>2 DEF Handles, Holding
  <1>2. /\ Retry(m) /\ n <= Len(Effects(p, e)) /\ UNCHANGED <<coins, consumed>>
        /\ projFaults < MaxProjFaults /\ projFaults' = projFaults + 1
        /\ TakesEffect(Effects(p, e)[n]) \/ UNCHANGED <<tasks, notices, unlocked>>
    BY DEF CallFails, HasEffect, Effect
  <1> HIDE DEF p, e, n
  <1>3. /\ work' \in [Member -> Holding] /\ Handling'
        /\ (consumed \cup givenUp)' \subseteq Projector \X ProjEvent
        /\ \A q \in Projector, d \in ProjEvent : \A i \in DOMAIN Effects(q, d) : Did(q, d, i)' => Did(q, d, i)
    BY <1>1, <1>2, RetryStep
  <1>4. n \in DOMAIN Effects(p, e)
    BY <1>1, <1>2, EffectsAre
  <1>5. projFaults' \in 0 .. MaxProjFaults
    BY <1>1, <1>2 DEF ProjTyped
  <1>6. /\ Counts'
        /\ tasks' \in [Player \X TaskKey -> Task] /\ notices' \in [ProjEvent \X Player -> Nat]
        /\ \A u \in Player, k \in TaskKey :
               tasks'[<<u, k>>].status = "REWARD_CLAIMED" <=> tasks[<<u, k>>].status = "REWARD_CLAIMED"
    <2>1. CASE TakesEffect(Effects(p, e)[n])
      <3>1. AtMostDid(p, e, n)
        BY <1>3 DEF AtMostDid
      <3> QED BY <1>1, <1>4, <2>1, <3>1, EffectOn
    <2>2. CASE UNCHANGED <<tasks, notices, unlocked>>
      BY <1>1, <1>3, <2>2, NoEffect DEF ProjTyped
    <2> QED BY <1>2, <2>1, <2>2
  <1>7. ProjTyped'
    BY <1>1, <1>2, <1>3, <1>5, <1>6 DEF ProjTyped
  <1>8. Paying'
    BY <1>2, <1>6, PaidStays
  <1> QED BY <1>3, <1>6, <1>7, <1>8 DEF ProjInv

\* The record of an event comes after its last effect.
LEMMA RecordStep ==
    ASSUME ProjInv, NEW m \in Member, RecordEvent(m)
    PROVE  ProjInv'
  <1> DEFINE p == work[m].projector
             e == work[m].event
             n == work[m].next
  <1>1. /\ ProjTyped /\ Handling /\ work \in [Member -> Holding] /\ work[m] \in Holding
        /\ p \in Projector /\ e \in ProjEvent /\ n \in Nat
    BY DEF ProjInv, ProjTyped, Handling, Handles, RecordEvent, AllDone, Holding
  <1>2. /\ work' = [work EXCEPT ![m] = IdleMember] /\ consumed' = consumed \cup {<<p, e>>}
        /\ UNCHANGED <<tasks, coins, notices, unlocked, givenUp, projFaults>>
        /\ ~(n <= Len(Effects(p, e)))
    BY DEF RecordEvent, AllDone, HasEffect
  <1> HIDE DEF p, e, n
  <1>3. \A q \in Projector, d \in ProjEvent : \A i \in DOMAIN Effects(q, d) : Did(q, d, i)' => Did(q, d, i)
    <2> SUFFICES ASSUME NEW q \in Projector, NEW d \in ProjEvent, NEW i \in DOMAIN Effects(q, d), Did(q, d, i)'
                 PROVE  Did(q, d, i)
      OBVIOUS
    <2>1. CASE <<q, d>> = <<p, e>>
      <3>1. i < n /\ q = p /\ d = e
        BY <1>1, <1>2, <2>1, EffectsAre
      <3> QED BY <3>1 DEF Did, p, e, n
    <2>2. CASE <<q, d>> # <<p, e>> /\ <<q, d>> \in consumed'
      BY <1>2, <2>2 DEF Did
    <2>3. ASSUME NEW j \in Member, work'[j].projector = q, work'[j].event = d, i < work'[j].next
          PROVE  Did(q, d, i)
      <3>1. j # m
        BY <1>1, <1>2, <2>3 DEF IdleMember, Projector
      <3> QED BY <1>1, <1>2, <2>3, <3>1 DEF Did
    <2> QED BY <2>1, <2>2, <2>3 DEF Did
  <1>4. work' \in [Member -> Holding] /\ Handling'
    BY <1>1, <1>2, IdleTyped DEF Handling
  <1>5. ProjTyped'
    BY <1>1, <1>2, <1>4 DEF ProjTyped
  <1>6. Counts'
    BY <1>2, <1>3, NoEffect
  <1>7. Paying'
    BY <1>2, PaidStays
  <1> QED BY <1>4, <1>5, <1>6, <1>7 DEF ProjInv

LEMMA LoseStep ==
    ASSUME ProjInv, NEW m \in Member, RecordFails(m) \/ MemberCrashes(m)
    PROVE  ProjInv'
  <1>1. /\ ProjTyped /\ Handling /\ work[m] # IdleMember /\ MaxProjFaults \in Nat
        /\ UNCHANGED <<tasks, coins, notices, unlocked, consumed>>
        /\ projFaults < MaxProjFaults /\ projFaults' = projFaults + 1
        /\ Retry(m) \/ (work' = [work EXCEPT ![m] = IdleMember] /\ UNCHANGED givenUp)
    BY ProjAssumption DEF ProjInv, RecordFails, AllDone, MemberCrashes
  <1>2. /\ work' \in [Member -> Holding] /\ Handling'
        /\ (consumed \cup givenUp)' \subseteq Projector \X ProjEvent
        /\ \A q \in Projector, d \in ProjEvent : \A i \in DOMAIN Effects(q, d) : Did(q, d, i)' => Did(q, d, i)
    <2>1. CASE Retry(m)
      BY <1>1, <2>1, RetryStep
    <2>2. CASE work' = [work EXCEPT ![m] = IdleMember] /\ UNCHANGED givenUp
      <3>1. (consumed \cup givenUp)' \subseteq Projector \X ProjEvent
        BY <1>1, <2>2 DEF ProjTyped
      <3> QED BY <1>1, <2>2, <3>1, IdleTyped, HoldingStep
    <2> QED BY <1>1, <2>1, <2>2
  <1>3. projFaults' \in 0 .. MaxProjFaults
    BY <1>1 DEF ProjTyped
  <1>4. ProjTyped'
    BY <1>1, <1>2, <1>3 DEF ProjTyped
  <1>5. Counts'
    BY <1>1, <1>2, NoEffect
  <1>6. Paying'
    BY <1>1, PaidStays
  <1> QED BY <1>2, <1>4, <1>5, <1>6 DEF ProjInv

\* A claimed reward is one more of those that are paid.
LEMMA ClaimRewardStep ==
    ASSUME ProjInv, NEW u \in Player, NEW k \in TaskKey, ClaimReward(u, k)
    PROVE  ProjInv'
  <1>1. /\ ProjTyped /\ Handling /\ Counts /\ Paying
        /\ tasks \in [Player \X TaskKey -> Task] /\ coins \in [Player -> Int]
        /\ tasks[<<u, k>>] \in Task
    BY DEF ProjInv, ProjTyped
  <1> DEFINE t == [tasks[<<u, k>>] EXCEPT !.status = "REWARD_CLAIMED"]
  <1>2. t \in Task /\ t.status = "REWARD_CLAIMED" /\ t.progress = tasks[<<u, k>>].progress
    BY <1>1 DEF Task
  <1>3. /\ tasks[<<u, k>>].status = "COMPLETED"
        /\ tasks' = [tasks EXCEPT ![<<u, k>>] = t] /\ coins' = [coins EXCEPT ![u] = @ + Reward[k]]
        /\ UNCHANGED <<notices, unlocked, consumed, givenUp, work, projFaults>>
    BY DEF ClaimReward
  <1> HIDE DEF t
  <1>4. \A v \in Player, l \in TaskKey :
          tasks'[<<v, l>>] = IF v = u /\ l = k THEN t ELSE tasks[<<v, l>>]
    BY <1>1, <1>3
  <1>5. \A j \in TaskKey : Reward[j] \in Nat
    BY ProjAssumption
  <1>6. ProjTyped'
    BY <1>1, <1>2, <1>3, <1>5 DEF ProjTyped
  <1>7. Handling'
    BY <1>1, <1>3 DEF Handling
  <1>8. Counts'
    <2>1. \A v \in Player, l \in TaskKey : Done(v, l)' = Done(v, l)
      BY <1>3 DEF Done, Did
    <2>2. InStep(t, Target[k], Done(u, k))
      BY <1>1, <1>2, <1>3 DEF Counts, InStep
    <2>3. \A v \in Player, l \in TaskKey : InStep(tasks'[<<v, l>>], Target[l], Done(v, l)')
      BY <1>1, <1>4, <2>1, <2>2 DEF Counts
    <2>4. \A q \in Projector, d \in ProjEvent : \A i \in DOMAIN Effects(q, d) :
            Did(q, d, i)' => Sent(Effects(q, d)[i])'
      BY <1>1, <1>3 DEF Counts, Did, Sent
    <2> QED BY <2>3, <2>4 DEF Counts
  <1>9. Paying'
    <2>1. ASSUME NEW v \in Player, v # u
          PROVE  IsFiniteSet(Units(Paid(v)))' /\ (coins[v] = Tally(Paid(v)))'
      <3>1. Paid(v)' = Paid(v) /\ coins'[v] = coins[v]
        BY <1>1, <1>3, <1>4, <2>1 DEF Paid
      <3> QED BY <1>1, <3>1 DEF Paying
    <2>2. IsFiniteSet(Units(Paid(u)))' /\ (coins[u] = Tally(Paid(u)))'
      <3> DEFINE f == Paid(u)
                 g == Paid(u)'
      <3>1. f \in [TaskKey -> Int] /\ g \in [TaskKey -> Int]
        BY <1>5 DEF Paid
      <3>2. \A j \in TaskKey \ {k} : g[j] = f[j]
        BY <1>4 DEF Paid
      <3>3. f[k] = 0 /\ g[k] = Reward[k]
        BY <1>2, <1>3, <1>4 DEF Paid
      <3>4. IsFiniteSet(Units(f)) /\ coins[u] = Tally(f)
        BY <1>1 DEF Paying
      <3> HIDE DEF f, g
      <3>5. /\ IsFiniteSet(Units(g)) /\ Tally(g) \in Nat /\ Tally(f) \in Nat
            /\ Tally(g) = Tally(f) - (IF f[k] > 0 THEN f[k] ELSE 0) + (IF g[k] > 0 THEN g[k] ELSE 0)
        BY <3>1, <3>2, <3>4, TallyChange
      <3>6. Tally(g) = coins[u] + Reward[k]
        BY <1>5, <3>3, <3>4, <3>5
      <3>7. coins'[u] = Tally(g) /\ IsFiniteSet(Units(g))
        BY <1>1, <1>3, <3>5, <3>6
      <3> QED BY <3>7 DEF g, Units, Tally
    <2> QED BY <2>1, <2>2 DEF Paying
  <1> QED BY <1>6, <1>7, <1>8, <1>9 DEF ProjInv

LEMMA ProjInitInv == ProjInit => ProjInv
  <1> SUFFICES ASSUME ProjInit PROVE ProjInv
    OBVIOUS
  <1>1. /\ \A u \in Player, k \in TaskKey : tasks[<<u, k>>] = [progress |-> 0, status |-> "none"]
        /\ \A m \in Member : work[m] = IdleMember
        /\ consumed = {}
    BY DEF ProjInit
  <1>2. [progress |-> 0, status |-> "none"] \in Task
    BY DEF Task
  <1>3. ProjTyped
    BY <1>2, IdleTyped, ProjAssumption DEF ProjInit, ProjTyped
  <1>4. Handling
    BY <1>1 DEF Handling
  <1>5. \A p \in Projector : \A e, i : ~Did(p, e, i)
    BY <1>1 DEF Did, IdleMember, Projector
  <1>6. \A u \in Player, k \in TaskKey : InStep(tasks[<<u, k>>], Target[k], Done(u, k))
    <2>1. "task-projector" \in Projector
      BY DEF Projector
    <2>2. \A u, k : Done(u, k) = {}
      BY <1>5, <2>1 DEF Done
    <2>3. \A n : InStep([progress |-> 0, status |-> "none"], n, {})
      BY DEF InStep
    <2> QED BY <1>1, <2>2, <2>3
  <1>7. Counts
    BY <1>5, <1>6 DEF Counts
  <1>8. ASSUME NEW u \in Player PROVE IsFiniteSet(Units(Paid(u))) /\ coins[u] = Tally(Paid(u))
    <2> DEFINE f == Paid(u)
    <2>1. \A k \in DOMAIN f : f[k] \in Int /\ f[k] <= 0
      BY <1>1 DEF Paid
    <2> HIDE DEF f
    <2>2. IsFiniteSet(Units(f)) /\ Tally(f) = 0
      BY <2>1, EmptyTally
    <2>3. coins[u] = 0
      BY DEF ProjInit
    <2> QED BY <2>2, <2>3 DEF f
  <1> QED BY <1>3, <1>4, <1>7, <1>8 DEF ProjInv, Paying

LEMMA ProjStepInv == ProjInv /\ [ProjNext]_projVars => ProjInv'
  <1> SUFFICES ASSUME ProjInv, [ProjNext]_projVars PROVE ProjInv'
    OBVIOUS
  <1>1. ASSUME UNCHANGED projVars PROVE ProjInv'
    <2>1. UNCHANGED <<tasks, coins, notices, unlocked, consumed, givenUp, work, projFaults>>
      BY <1>1 DEF projVars
    <2>2. ProjTyped' /\ Handling'
      BY <2>1 DEF ProjInv, ProjTyped, Handling
    <2>3. \A p \in Projector, e \in ProjEvent : \A i \in DOMAIN Effects(p, e) : Did(p, e, i)' => Did(p, e, i)
      BY <2>1 DEF Did
    <2>4. Counts'
      BY <2>1, <2>3, NoEffect
    <2>5. Paying'
      BY <2>1, PaidStays
    <2> QED BY <2>2, <2>4, <2>5 DEF ProjInv
  <1> QED BY <1>1, TakeStep, PerformStep, CallFailsStep, RecordStep, LoseStep, ClaimRewardStep DEF ProjNext

\* What the counts say of the events that are recorded.
LEMMA ProjectedOnceFollows == ProjInv => ProjectedOnce
  <1> SUFFICES ASSUME ProjInv PROVE ProjectedOnce
    OBVIOUS
  <1>1. ProjTyped /\ Counts /\ Paying
    BY DEF ProjInv
  <1>2. \A a, b \in Nat : /\ Min({a, b}) = IF a <= b THEN a ELSE b
                          /\ Max({a, b}) = IF a >= b THEN a ELSE b
    BY DEF Min, Max
  <1>3. ASSUME NEW u \in Player, NEW k \in TaskKey
        PROVE  /\ tasks[<<u, k>>].progress >= Min({Target[k], Due(u, k)})
               /\ tasks[<<u, k>>].status = "ACTIVE" /\ tasks[<<u, k>>].progress = Target[k] => Target[k] = 1
               /\ Due(u, k) >= Max({Target[k], 2}) => tasks[<<u, k>>].status \in {"COMPLETED", "REWARD_CLAIMED"}
    <2> DEFINE D == {e \in ProjEvent : <<"task-projector", e>> \in consumed
                                       /\ EventOf[e].actor = u /\ k \in TaskKeysByEvent(e)}
               t == tasks[<<u, k>>]
    <2>1. D \subseteq Done(u, k)
      <3> SUFFICES ASSUME NEW e \in D PROVE e \in Done(u, k)
        OBVIOUS
      <3>1. "task-projector" \in Projector /\ Effects("task-projector", e) = TaskEffects(e)
        BY DEF Projector, Effects
      <3>2. PICK i \in DOMAIN TaskEffects(e) : TaskEffects(e)[i].what = k
        BY <3>1, EffectsAre
      <3> QED BY <3>2 DEF Done, Did
    <2>2. /\ Cardinality(D) \in Nat /\ Cardinality(Done(u, k)) \in Nat
          /\ Cardinality(D) <= Cardinality(Done(u, k)) /\ IsFiniteSet(D)
      BY <2>1, DoneFinite, FS_Subset, FS_CardinalityType
    <2>3. Due(u, k) = Cardinality(D)
      BY DEF Due
    <2>4. InStep(t, Target[k], Done(u, k)) /\ t \in Task /\ Target[k] \in Nat \ {0}
      BY <1>1, ProjAssumption DEF ProjTyped, Counts
    <2>5. Done(u, k) = {} => Cardinality(Done(u, k)) = 0
      BY FS_EmptySet
    <2> HIDE DEF D, t
    <2>6. /\ Min({Target[k], Due(u, k)}) = IF Target[k] <= Due(u, k) THEN Target[k] ELSE Due(u, k)
          /\ Max({Target[k], 2}) = IF Target[k] >= 2 THEN Target[k] ELSE 2
      BY <1>2, <2>2, <2>3, <2>4
    <2>7. /\ t.progress >= Min({Target[k], Due(u, k)})
          /\ t.status = "ACTIVE" /\ t.progress = Target[k] => Target[k] = 1
          /\ Due(u, k) >= Max({Target[k], 2}) => t.status \in {"COMPLETED", "REWARD_CLAIMED"}
      BY <2>2, <2>3, <2>4, <2>5, <2>6 DEF InStep, Task
    <2> QED BY <2>7 DEF t
  <1>4. \A u \in Player : coins[u] = Tally(Paid(u))
    BY <1>1 DEF Paying
  <1>5. ASSUME NEW c \in consumed, NEW i \in DOMAIN Effects(c[1], c[2])
        PROVE  LET f == Effects(c[1], c[2])[i] IN
               /\ f.kind = "mail" => notices[<<c[2], f.user>>] > 0
               /\ f.kind = "catalog" => <<f.user, f.what>> \in unlocked
    <2>1. c[1] \in Projector /\ c[2] \in ProjEvent /\ c = <<c[1], c[2]>>
      BY <1>1 DEF ProjTyped
    <2>2. Sent(Effects(c[1], c[2])[i])
      BY <1>1, <2>1 DEF Counts, Did
    <2>3. Effects(c[1], c[2])[i].kind = "mail" => Effects(c[1], c[2])[i].what = c[2]
      BY <2>1, EffectsAre
    <2> QED BY <2>2, <2>3 DEF Sent
  <1> QED BY <1>3, <1>4, <1>5 DEF ProjectedOnce

LEMMA ProjFrame == [Next]_servicesVars => [ProjNext]_projVars
  BY DEF Next, servicesVars

\* The invariant of the projections: no task is behind the events whose effect on it
\* is done for good, and what was claimed was paid.
THEOREM ProjInvariant == Spec => []ProjInv
  <1>1. Init => ProjInv
    BY ProjInitInv DEF Init
  <1>2. ProjInv /\ [Next]_servicesVars => ProjInv'
    BY ProjStepInv, ProjFrame
  <1> QED BY <1>1, <1>2, PTL DEF Spec

\* A recorded event has had every effect and every reward is paid once, whatever
\* retries, second members and crashes repeat.
THEOREM ProjectedOnceHolds == Spec => []ProjectedOnce
  BY ProjInvariant, ProjectedOnceFollows, PTL

-----------------------------------------------------------------------------
(* Accounts.                                                                 *)

Call == [at : {"new", "search", "begin", "allocate", "insert", "commit", "session", "done"},
         now : 0 .. MaxMs, shard : Shard, id : Int, fresh : BOOLEAN,
         answer : {"none", "session", "exists", "unauthorized", "error"}]

AccountsTyped ==
    /\ clock \in 0 .. MaxMs
    /\ generator \in [{NodeOf[c] : c \in Login} \X Shard -> Generator]
    /\ \A a \in accounts : a.id \in Nat /\ a.shard \in Shard
    /\ logins \in [Login -> Call]
    /\ sessions \subseteq {a.id : a \in accounts}

\* An account was copied, or made on the home of its subject.
Placement ==
    /\ Imported \subseteq accounts
    /\ \A a \in accounts : a \in Imported \/ a.shard = HomeOf[a.subject]
    /\ \A a \in accounts : ShardForUserID(a.id) = a.shard
    /\ \A a, b \in accounts : a.id = b.id => a = b
    /\ \A a, b \in accounts :
          a.subject = b.subject /\ ~Overlooked(a) /\ ~Overlooked(b) => a = b

HasAccount(c, id) == \E a \in accounts : a.subject = Subject(c) /\ a.id = id

\* The call is where its subject has its account, if it has one that is not overlooked.
AtHome(c, r) ==
    /\ r.shard = HomeOf[Subject(c)]
    /\ \A a \in Imported : a.subject = Subject(c) => a.shard = r.shard \/ Overlooked(a)

\* No account has the ID, and none that is found has the call's subject.
Free(c, id) == \A a \in accounts : a.id # id /\ (a.subject = Subject(c) => Overlooked(a))

\* What a call knows, and what it has done.
Sound(c, r) ==
    /\ r.at # "done" => r.answer = "none"
    /\ r.at \in {"new", "search", "begin", "allocate"} => ~r.fresh
    /\ r.at = "search" => \A a \in Imported : a.subject = Subject(c) => a.shard >= r.shard
    /\ r.at = "begin" => AtHome(c, r) \/ Existing(c, r.shard) # {}
    /\ r.at \in {"allocate", "insert"} => AtHome(c, r)
    /\ r.at = "insert" => r.fresh
    /\ r.at \in {"insert", "commit"} /\ r.fresh =>
          AtHome(c, r) /\ r.id \in Nat /\ r.id % Shards = r.shard
    /\ r.at = "commit" /\ r.fresh => Free(c, r.id)
    /\ (r.at = "commit" /\ ~r.fresh) \/ r.at = "session" \/ r.answer = "session" =>
          HasAccount(c, r.id)

Inserted(r) == r.at = "commit" /\ r.fresh

\* Of two accounts that are about to be committed neither has the other's keys.
Apart ==
    \A c, d \in Login : c # d /\ Inserted(logins[c]) /\ Inserted(logins[d]) =>
        Subject(c) # Subject(d) /\ logins[c].id # logins[d].id

AccountInv ==
    /\ AccountsTyped
    /\ Placement
    /\ Apart
    /\ \A c \in Login : Sound(c, logins[c])

\* The low bits of an ID are its shard.
LEMMA IdOfShard ==
    ASSUME NEW x \in Nat, NEW s \in Shard
    PROVE  x * ShardIds + s \in Nat /\ (x * ShardIds + s) % Shards = s
  <1>1. /\ Shards \in Nat \ {0} /\ ShardIds \in Nat \ {0} /\ ShardIds % Shards = 0
        /\ s \in Nat /\ s < Shards
    BY LoginAssumption DEF Shard
  <1>2. PICK q \in Nat : ShardIds = q * Shards
    BY <1>1
  <1>3. x * ShardIds = (x * q) * Shards
    BY <1>1, <1>2
  <1>4. x * q \in Nat
    BY <1>2
  <1>5. ASSUME NEW y \in Nat PROVE (y * Shards + s) % Shards = s
    <2> DEFINE n == y * Shards + s
               d == n \div Shards
    <2>1. n \in Nat /\ y * Shards \in Nat
      BY <1>1
    <2>2. d \in Int /\ n = d * Shards + (n % Shards) /\ n % Shards \in 0 .. Shards - 1
      BY <1>1, <2>1
    <2> HIDE DEF d
    <2>3. d = y
      <3>1. CASE d < y
        <4>1. (y - d) * Shards >= Shards
          BY <1>1, <2>2, <3>1
        <4>2. (y - d) * Shards = y * Shards - d * Shards
          BY <1>1, <2>2
        <4> QED BY <1>1, <2>1, <2>2, <4>1, <4>2
      <3>2. CASE d > y
        <4>1. (d - y) * Shards >= Shards
          BY <1>1, <2>2, <3>2
        <4>2. (d - y) * Shards = d * Shards - y * Shards
          BY <1>1, <2>2
        <4> QED BY <1>1, <2>1, <2>2, <4>1, <4>2
      <3> QED BY <2>2, <3>1, <3>2
    <2>4. d * Shards = y * Shards
      BY <2>3
    <2>5. n = y * Shards + s
      OBVIOUS
    <2> HIDE DEF n
    <2>6. n % Shards = s
      BY <1>1, <2>1, <2>2, <2>4, <2>5
    <2> QED BY <2>5, <2>6
  <1>6. x * ShardIds \in Nat
    BY <1>1
  <1>7. ((x * q) * Shards + s) % Shards = s
    BY <1>4, <1>5
  <1> QED BY <1>1, <1>3, <1>6, <1>7

\* What a step leaves to be shown when no account is added: the call that moved.
Others(c, r) ==
    Inserted(r) => \A d \in Login \ {c} : Inserted(logins[d]) =>
        Subject(c) # Subject(d) /\ r.id # logins[d].id

RestTyped ==
    /\ clock' \in 0 .. MaxMs
    /\ generator' \in [{NodeOf[c] : c \in Login} \X Shard -> Generator]
    /\ sessions' \subseteq {a.id : a \in accounts}

LEMMA CallMoves ==
    ASSUME AccountInv, NEW c \in Login, NEW r \in Call, Moves(c, r), accounts' = accounts,
           RestTyped, Sound(c, r), Others(c, r)
    PROVE  AccountInv'
  <1>1. logins \in [Login -> Call]
    BY DEF AccountInv, AccountsTyped
  <1>2. /\ logins' \in [Login -> Call]
        /\ logins'[c] = r
        /\ \A d \in Login \ {c} : logins'[d] = logins[d]
    BY <1>1 DEF Moves
  <1>3. AccountsTyped'
    BY <1>2 DEF AccountInv, AccountsTyped, RestTyped
  <1>4. Placement'
    BY DEF AccountInv, Placement
  <1>5. Apart'
    BY <1>2 DEF AccountInv, Apart, Others, Inserted
  <1>6. ASSUME NEW d \in Login PROVE Sound(d, logins[d])'
    <2>1. Sound(d, logins[d]) /\ (d # c => logins'[d] = logins[d])
      BY <1>2 DEF AccountInv
    <2>2. Sound(d, logins'[d])
      BY <1>2, <2>1
    <2> QED BY <2>2 DEF Sound, Existing, HasAccount, AtHome, Free
  <1> QED BY <1>3, <1>4, <1>5, <1>6 DEF AccountInv

\* A call that ends without a session owes nothing.
LEMMA CallEnds ==
    ASSUME AccountInv, NEW c \in Login, NEW a \in {"session", "exists", "unauthorized", "error"},
           Answers(c, a), accounts' = accounts, RestTyped,
           a = "session" => HasAccount(c, logins[c].id)
    PROVE  AccountInv'
  <1> DEFINE r == [logins[c] EXCEPT !.at = "done", !.answer = a]
  <1>1. logins[c] \in Call
    BY DEF AccountInv, AccountsTyped
  <1>2. r \in Call /\ r.at = "done" /\ r.answer = a /\ r.id = logins[c].id
    BY <1>1 DEF Call
  <1>3. Moves(c, r)
    BY DEF Answers
  <1> HIDE DEF r
  <1>4. Sound(c, r) /\ Others(c, r)
    BY <1>2 DEF Sound, Others, Inserted
  <1> QED BY <1>2, <1>3, <1>4, CallMoves

LEMMA RestKept ==
    ASSUME AccountInv, UNCHANGED <<clock, generator, accounts, sessions>>
    PROVE  RestTyped
  BY DEF AccountInv, AccountsTyped, RestTyped

LEMMA AccountStarts ==
    ASSUME AccountInv, NEW c \in Login, StartLogin(c) PROVE AccountInv'
  <1> DEFINE r == [logins[c] EXCEPT
          !.at = IF Local(c) THEN "begin" ELSE "search",
          !.now = clock,
          !.shard = IF Local(c) THEN HomeOf[Subject(c)] ELSE 0]
  <1>1. logins[c] \in Call /\ clock \in 0 .. MaxMs /\ Sound(c, logins[c]) /\ logins[c].at = "new"
    BY DEF AccountInv, AccountsTyped, StartLogin
  <1>2. HomeOf[Subject(c)] \in Shard /\ 0 \in Shard
    BY LoginAssumption DEF Subject, Shard
  <1>3. /\ r \in Call
        /\ r.at = IF Local(c) THEN "begin" ELSE "search"
        /\ r.shard = IF Local(c) THEN HomeOf[Subject(c)] ELSE 0
        /\ r.answer = logins[c].answer /\ r.fresh = logins[c].fresh
    BY <1>1, <1>2 DEF Call
  <1>4. Moves(c, r) /\ accounts' = accounts /\ RestTyped
    BY RestKept DEF StartLogin
  <1> HIDE DEF r
  <1>5. r.answer = "none" /\ ~r.fresh
    BY <1>1, <1>3 DEF Sound
  <1>6. CASE Local(c)
    <2>1. AtHome(c, r)
      BY <1>3, <1>6 DEF AtHome, Overlooked
    <2> QED BY <1>3, <1>4, <1>5, <1>6, <2>1, CallMoves DEF Sound, Others, Inserted
  <1>7. CASE ~Local(c)
    <2>1. \A a \in Imported : a.shard >= 0
      BY LoginAssumption
    <2>2. Sound(c, r) /\ Others(c, r)
      BY <1>3, <1>5, <1>7, <2>1 DEF Sound, Others, Inserted
    <2> QED BY <1>3, <1>4, <2>2, CallMoves
  <1> QED BY <1>6, <1>7

\* A call that moves without a row of its own.
LEMMA NoRowYet ==
    ASSUME NEW c \in Login, NEW r \in Call, ~r.fresh \/ r.at # "commit" PROVE Others(c, r)
  BY DEF Others, Inserted

\* The search passes a shard only when it has no account of the device.
LEMMA AccountLooksUp ==
    ASSUME AccountInv, NEW c \in Login, LookUp(c) PROVE AccountInv'
  <1> DEFINE s == logins[c].shard
             r == IF Existing(c, s) # {} THEN [logins[c] EXCEPT !.at = "begin"]
                  ELSE IF s = Shards - 1
                       THEN [logins[c] EXCEPT !.at = "begin", !.shard = HomeOf[Subject(c)]]
                       ELSE [logins[c] EXCEPT !.shard = s + 1]
  <1>1. /\ logins[c] \in Call /\ Sound(c, logins[c]) /\ logins[c].at = "search" /\ s \in Shard
        /\ Imported \subseteq accounts
    BY DEF AccountInv, AccountsTyped, LookUp, Call, Placement
  <1>2. HomeOf[Subject(c)] \in Shard /\ Shards \in Nat /\ (s # Shards - 1 => s + 1 \in Shard)
    BY <1>1, LoginAssumption DEF Subject, Shard
  <1>3. /\ r \in Call
        /\ r.answer = logins[c].answer /\ r.fresh = logins[c].fresh
        /\ Existing(c, s) # {} => r.at = "begin" /\ r.shard = s
        /\ Existing(c, s) = {} /\ s = Shards - 1 => r.at = "begin" /\ r.shard = HomeOf[Subject(c)]
        /\ Existing(c, s) = {} /\ s # Shards - 1 => r.at = "search" /\ r.shard = s + 1
    BY <1>1, <1>2 DEF Call
  <1>4. Moves(c, r) /\ accounts' = accounts /\ RestTyped
    BY RestKept DEF LookUp
  <1>5. /\ r.answer = "none" /\ ~r.fresh
        /\ \A a \in Imported : a.subject = Subject(c) => a.shard >= s
    BY <1>1, <1>3 DEF Sound
  <1>6. \A a \in Imported : a.shard \in Shard
    BY <1>1 DEF AccountInv, AccountsTyped
  <1>7. s \in Int /\ \A a \in Imported : a.shard \in Int /\ a.shard <= Shards - 1
    BY <1>1, <1>2, <1>6 DEF Shard
  <1> HIDE DEF r
  <1>8. CASE Existing(c, s) # {}
    <2>1. Sound(c, r)
      BY <1>3, <1>5, <1>8 DEF Sound
    <2> QED BY <1>3, <1>4, <1>5, <2>1, NoRowYet, CallMoves
  <1>9. CASE Existing(c, s) = {}
    <2>1. \A a \in Imported : a.subject = Subject(c) => a.shard # s
      BY <1>1, <1>9 DEF Existing
    <2> HIDE DEF s
    <2>2. \A a \in Imported : a.subject = Subject(c) => a.shard >= s + 1
      BY <1>5, <1>7, <2>1
    <2>3. CASE s = Shards - 1
      <3>1. \A a \in Imported : a.subject # Subject(c)
        BY <1>2, <1>7, <2>2, <2>3
      <3>2. AtHome(c, r)
        BY <1>3, <1>9, <2>3, <3>1 DEF AtHome
      <3>3. Sound(c, r)
        BY <1>3, <1>5, <1>9, <2>3, <3>2 DEF Sound
      <3> QED BY <1>3, <1>4, <1>5, <3>3, NoRowYet, CallMoves
    <2>4. CASE s # Shards - 1
      <3>1. Sound(c, r)
        BY <1>3, <1>5, <1>9, <2>2, <2>4 DEF Sound
      <3> QED BY <1>3, <1>4, <1>5, <3>1, NoRowYet, CallMoves
    <2> QED BY <2>3, <2>4
  <1> QED BY <1>8, <1>9

LEMMA AccountFinds ==
    ASSUME AccountInv, NEW c \in Login, FindIdentity(c) PROVE AccountInv'
  <1> DEFINE found == Existing(c, logins[c].shard)
  <1>1. /\ logins[c] \in Call /\ Sound(c, logins[c]) /\ logins[c].at = "begin"
        /\ \A a \in accounts : a.id \in Nat
    BY DEF AccountInv, AccountsTyped, FindIdentity
  <1>2. accounts' = accounts /\ RestTyped
    BY RestKept DEF FindIdentity
  <1>3. CASE \E x \in {"unauthorized", "exists"} : Answers(c, x)
    <2>1. PICK x \in {"unauthorized", "exists"} : Answers(c, x)
      BY <1>3
    <2> QED BY <1>2, <2>1, CallEnds
  <1>4. CASE found = {} /\ Moves(c, [logins[c] EXCEPT !.at = "allocate"])
    <2> DEFINE r == [logins[c] EXCEPT !.at = "allocate"]
    <2>1. /\ r \in Call /\ r.at = "allocate" /\ r.shard = logins[c].shard
          /\ r.answer = logins[c].answer /\ r.fresh = logins[c].fresh
      BY <1>1 DEF Call
    <2>2. Moves(c, r)
      BY <1>4
    <2> HIDE DEF r
    <2>3. AtHome(c, r) /\ ~r.fresh /\ r.answer = "none"
      BY <1>1, <1>4, <2>1 DEF Sound, AtHome
    <2>4. Sound(c, r)
      BY <2>1, <2>3 DEF Sound
    <2> QED BY <1>2, <2>1, <2>2, <2>3, <2>4, NoRowYet, CallMoves
  <1>5. CASE \E a \in found : Moves(c, [logins[c] EXCEPT !.at = "commit", !.id = a.id])
    <2>1. PICK a \in found : Moves(c, [logins[c] EXCEPT !.at = "commit", !.id = a.id])
      BY <1>5
    <2>2. a \in accounts /\ a.subject = Subject(c) /\ a.id \in Int
      BY <1>1 DEF Existing
    <2> DEFINE r == [logins[c] EXCEPT !.at = "commit", !.id = a.id]
    <2>3. /\ r \in Call /\ r.at = "commit" /\ r.id = a.id
          /\ r.answer = logins[c].answer /\ r.fresh = logins[c].fresh
      BY <1>1, <2>2 DEF Call
    <2>4. Moves(c, r)
      BY <2>1
    <2> HIDE DEF r
    <2>5. HasAccount(c, r.id) /\ ~r.fresh /\ r.answer = "none"
      BY <1>1, <2>2, <2>3 DEF Sound, HasAccount
    <2>6. Sound(c, r)
      BY <2>3, <2>5 DEF Sound
    <2> QED BY <1>2, <2>3, <2>4, <2>5, <2>6, NoRowYet, CallMoves
  <1> QED BY <1>3, <1>4, <1>5 DEF FindIdentity

LEMMA GlobalIdOfShard ==
    ASSUME NEW ms \in Nat, NEW node \in Nat, NEW sequence \in Nat, NEW s \in Shard
    PROVE  /\ GlobalId(ms, node, sequence, s) \in Nat
           /\ GlobalId(ms, node, sequence, s) % Shards = s
  <1> DEFINE x == (ms * NodeIds + node) * SequenceIds + sequence
  <1>1. NodeIds \in Nat /\ SequenceIds \in Nat
    BY LoginAssumption
  <1>2. ms * NodeIds + node \in Nat
    BY <1>1
  <1>3. x \in Nat
    BY <1>1, <1>2
  <1>4. GlobalId(ms, node, sequence, s) = x * ShardIds + s
    BY DEF GlobalId
  <1> HIDE DEF x
  <1> QED BY <1>3, <1>4, IdOfShard

LEMMA AdvanceTyped ==
    ASSUME NEW g \in Generator, NEW ms \in 0 .. MaxMs, ~Exhausted(g, ms)
    PROVE  Advance(g, ms) \in Generator
  <1>1. g.sequence \in Nat /\ g.sequence < SequenceIds /\ SequenceIds \in Nat \ {0}
    BY LoginAssumption DEF Generator
  <1>2. CASE ms = g.last
    <2>1. g.sequence + 1 \in 0 .. SequenceIds - 1
      BY <1>1, <1>2 DEF Exhausted
    <2>2. Advance(g, ms) = [g EXCEPT !.sequence = g.sequence + 1]
      BY <1>2 DEF Advance
    <2> QED BY <2>1, <2>2 DEF Generator
  <1>3. CASE ms # g.last
    <2>1. 0 \in 0 .. SequenceIds - 1
      BY <1>1
    <2>2. Advance(g, ms) = [last |-> ms, sequence |-> 0]
      BY <1>3 DEF Advance
    <2> QED BY <2>1, <2>2 DEF Generator
  <1> QED BY <1>2, <1>3

LEMMA AccountAllocates ==
    ASSUME AccountInv, NEW c \in Login, Allocate(c) PROVE AccountInv'
  <1> DEFINE q == logins[c]
             k == <<NodeOf[c], q.shard>>
             g == generator[k]
             h == Advance(g, q.now)
  <1>1. /\ q \in Call /\ Sound(c, q) /\ q.at = "allocate"
        /\ generator \in [{NodeOf[d] : d \in Login} \X Shard -> Generator]
        /\ clock \in 0 .. MaxMs /\ sessions \subseteq {a.id : a \in accounts}
    BY DEF AccountInv, AccountsTyped, Allocate
  <1>2. q.shard \in Shard /\ q.now \in 0 .. MaxMs /\ q.now \in Nat
    BY <1>1, LoginAssumption DEF Call
  <1>3. k \in {NodeOf[d] : d \in Login} \X Shard
    BY <1>2
  <1>4. g \in Generator
    BY <1>1, <1>3
  <1>5. CASE Exhausted(g, q.now)
    <2>1. accounts' = accounts /\ RestTyped /\ Answers(c, "error")
      BY <1>1, <1>5 DEF Allocate, RestTyped
    <2> QED BY <2>1, CallEnds
  <1>6. CASE ~Exhausted(g, q.now)
    <2> DEFINE i == GlobalId(q.now, NodeOf[c], h.sequence, q.shard)
               r == [q EXCEPT !.at = "insert", !.fresh = TRUE, !.id = i]
    <2>1. h \in Generator
      BY <1>2, <1>4, <1>6, AdvanceTyped
    <2>2. h.sequence \in Nat /\ NodeOf[c] \in Nat
      BY <2>1, LoginAssumption DEF Generator
    <2>3. i \in Nat /\ i % Shards = q.shard
      BY <1>2, <2>2, GlobalIdOfShard
    <2>4. generator' = [generator EXCEPT ![k] = h] /\ Moves(c, r) /\ accounts' = accounts
      BY <1>6 DEF Allocate
    <2>5. clock' = clock /\ sessions' = sessions
      BY DEF Allocate
    <2> HIDE DEF h, k
    <2>6. generator' \in [{NodeOf[d] : d \in Login} \X Shard -> Generator]
      BY <1>1, <2>1, <2>4
    <2>7. RestTyped
      BY <1>1, <2>5, <2>6 DEF RestTyped
    <2> HIDE DEF i
    <2>8. i \in Int
      BY <2>3
    <2>9. /\ r \in Call /\ r.at = "insert" /\ r.fresh /\ r.id = i
          /\ r.shard = q.shard /\ r.answer = q.answer
      BY <1>1, <2>8 DEF Call
    <2> HIDE DEF r
    <2>10. AtHome(c, r) /\ r.answer = "none"
      BY <1>1, <2>9 DEF Sound, AtHome
    <2>11. Sound(c, r)
      BY <2>3, <2>9, <2>10 DEF Sound
    <2> QED BY <2>4, <2>7, <2>9, <2>11, NoRowYet, CallMoves
  <1> QED BY <1>5, <1>6

\* An inserted row has neither key in common with what is committed or about to be.
LEMMA AccountInserts ==
    ASSUME AccountInv, NEW c \in Login, InsertAccount(c) PROVE AccountInv'
  <1> DEFINE q == logins[c]
             r == [q EXCEPT !.at = "commit"]
  <1>1. /\ q \in Call /\ Sound(c, q) /\ q.at = "insert"
        /\ \A d \in Login : Sound(d, logins[d])
        /\ Placement
    BY DEF AccountInv, AccountsTyped, InsertAccount
  <1>2. accounts' = accounts /\ RestTyped
    BY RestKept DEF InsertAccount
  <1>3. CASE \E x \in {"exists", "error"} : Answers(c, x)
    <2>1. PICK x \in {"exists", "error"} : Answers(c, x)
      BY <1>3
    <2> QED BY <1>2, <2>1, CallEnds
  <1>4. CASE /\ ~ \E a \in accounts : a.shard = q.shard /\ (a.id = q.id \/ a.subject = Subject(c))
             /\ Moves(c, r)
    <2>1. /\ r \in Call /\ r.at = "commit" /\ r.fresh = q.fresh /\ r.id = q.id
          /\ r.shard = q.shard /\ r.answer = q.answer
      BY <1>1 DEF Call
    <2>2. /\ q.fresh /\ AtHome(c, q) /\ q.id \in Nat /\ q.id % Shards = q.shard /\ q.answer = "none"
      BY <1>1 DEF Sound
    <2>3. \A a \in accounts :
             /\ a.id = q.id => a.shard = q.shard
             /\ a.subject = Subject(c) => a.shard = q.shard \/ Overlooked(a)
      BY <1>1, <2>2 DEF Placement, AtHome, ShardForUserID
    <2>4. Free(c, q.id)
      BY <1>4, <2>3 DEF Free
    <2> HIDE DEF r
    <2>5. AtHome(c, r)
      BY <2>1, <2>2 DEF AtHome
    <2>6. Sound(c, r)
      BY <2>1, <2>2, <2>4, <2>5 DEF Sound
    <2>7. ASSUME NEW d \in Login \ {c}, Inserted(logins[d])
          PROVE  Subject(c) # Subject(d) /\ r.id # logins[d].id
      <3>1. AtHome(d, logins[d]) /\ logins[d].id % Shards = logins[d].shard
        BY <1>1, <2>7 DEF Sound, Inserted
      <3>2. ~Collides(c, d)
        BY <2>7 DEF InsertAccount, Inserted
      <3>3. (Subject(c) = Subject(d) \/ q.id = logins[d].id) => q.shard = logins[d].shard
        BY <2>2, <3>1 DEF AtHome
      <3> QED BY <2>1, <3>2, <3>3 DEF Collides
    <2>8. Others(c, r)
      BY <2>7 DEF Others
    <2>9. Moves(c, r)
      BY <1>4
    <2> QED BY <1>2, <2>1, <2>6, <2>8, <2>9, CallMoves
  <1> QED BY <1>3, <1>4 DEF InsertAccount

LEMMA AccountCommits ==
    ASSUME AccountInv, NEW c \in Login, CommitAccount(c) PROVE AccountInv'
  <1> DEFINE q == logins[c]
             r == [q EXCEPT !.at = "session"]
             n == [subject |-> Subject(c), shard |-> q.shard, id |-> q.id]
  <1>1. /\ q \in Call /\ Sound(c, q) /\ q.at = "commit"
        /\ logins \in [Login -> Call]
        /\ \A d \in Login : Sound(d, logins[d])
    BY DEF AccountInv, AccountsTyped, CommitAccount
  <1>2. /\ r \in Call /\ r.at = "session" /\ r.fresh = q.fresh /\ r.id = q.id
        /\ r.answer = q.answer /\ q.answer = "none" /\ q.shard \in Shard
    BY <1>1 DEF Call, Sound
  <1>3. /\ accounts' = IF q.fresh THEN accounts \cup {n} ELSE accounts
        /\ Moves(c, r) /\ UNCHANGED <<clock, generator, sessions>>
    BY DEF CommitAccount, NewAccount
  <1>4. CASE ~q.fresh
    <2>1. RestTyped /\ accounts' = accounts
      BY <1>3, <1>4 DEF AccountInv, AccountsTyped, RestTyped
    <2>2. HasAccount(c, r.id)
      BY <1>1, <1>2, <1>4 DEF Sound
    <2> HIDE DEF r
    <2>3. Sound(c, r)
      BY <1>2, <1>4, <2>2 DEF Sound
    <2> QED BY <1>2, <1>3, <2>1, <2>3, NoRowYet, CallMoves
  <1>5. CASE q.fresh
    <2>1. /\ AtHome(c, q) /\ q.id \in Nat /\ q.id % Shards = q.shard
          /\ Free(c, q.id)
      BY <1>1, <1>5 DEF Sound
    <2>2. /\ n.subject = Subject(c) /\ n.shard = q.shard /\ n.id = q.id
          /\ accounts' = accounts \cup {n}
      BY <1>3, <1>5
    <2> HIDE DEF n, r
    <2>3. /\ logins' \in [Login -> Call] /\ logins'[c] = r
          /\ \A d \in Login \ {c} : logins'[d] = logins[d]
      BY <1>1, <1>2, <1>3 DEF Moves
    <2>4. AccountsTyped'
      <3>1. \A a \in accounts' : a.id \in Nat /\ a.shard \in Shard
        BY <1>2, <2>1, <2>2 DEF AccountInv, AccountsTyped
      <3>2. sessions' \subseteq {a.id : a \in accounts'}
        BY <1>3, <2>2 DEF AccountInv, AccountsTyped
      <3> QED BY <1>3, <2>3, <3>1, <3>2 DEF AccountInv, AccountsTyped
    <2>5. Placement'
      <3>1. n.shard = HomeOf[n.subject] /\ ShardForUserID(n.id) = n.shard
        BY <2>1, <2>2 DEF AtHome, ShardForUserID
      <3>2. \A a \in accounts : a.id # n.id /\ (a.subject = n.subject => Overlooked(a))
        BY <2>1, <2>2 DEF Free
      <3>3. /\ \A a, b \in accounts \cup {n} : a.id = b.id => a = b
            /\ \A a, b \in accounts \cup {n} :
                  a.subject = b.subject /\ ~Overlooked(a) /\ ~Overlooked(b) => a = b
        BY <3>2 DEF AccountInv, Placement
      <3>4. \A a \in accounts \cup {n} : ShardForUserID(a.id) = a.shard
        BY <3>1 DEF AccountInv, Placement
      <3> QED BY <2>2, <3>1, <3>3, <3>4 DEF AccountInv, Placement, ShardForUserID
    <2>6. Apart'
      BY <1>2, <2>3 DEF AccountInv, Apart, Inserted
    <2>7. ASSUME NEW d \in Login PROVE Sound(d, logins[d])'
      <3>1. CASE d = c
        <4>1. n \in accounts' /\ n.subject = Subject(c) /\ n.id = logins'[c].id
          BY <1>2, <2>2, <2>3
        <4>2. HasAccount(c, logins[c].id)'
          BY <4>1 DEF HasAccount, Subject
        <4>3. logins'[d].at = "session" /\ logins'[d].answer = "none"
          BY <1>2, <2>3, <3>1
        <4> QED BY <3>1, <4>2, <4>3 DEF Sound
      <3>2. CASE d # c
        <4>1. logins'[d] = logins[d] /\ Sound(d, logins[d])
          BY <1>1, <2>3, <3>2
        <4>2. HasAccount(d, logins[d].id) => HasAccount(d, logins[d].id)'
          BY <2>2, <4>1 DEF HasAccount
        <4>3. Existing(d, logins[d].shard) # {} => Existing(d, logins[d].shard)' # {}
          BY <2>2, <4>1 DEF Existing
        <4>4. Inserted(logins[d]) => Subject(c) # Subject(d) /\ q.id # logins[d].id
          BY <1>1, <1>5, <3>2 DEF AccountInv, Apart, Inserted
        <4>5. Inserted(logins[d]) => Free(d, logins[d].id)'
          BY <2>2, <4>1, <4>4 DEF Sound, Inserted, Free
        <4> QED BY <4>1, <4>2, <4>3, <4>5 DEF Sound, AtHome, Inserted
      <3> QED BY <3>1, <3>2
    <2> QED BY <2>4, <2>5, <2>6, <2>7 DEF AccountInv
  <1> QED BY <1>4, <1>5

LEMMA AccountGetsSession ==
    ASSUME AccountInv, NEW c \in Login, CreateSession(c) PROVE AccountInv'
  <1>1. /\ HasAccount(c, logins[c].id) /\ accounts' = accounts
        /\ clock' = clock /\ generator' = generator
    BY DEF AccountInv, Sound, CreateSession
  <1>2. sessions' \subseteq {a.id : a \in accounts}
    <2>1. logins[c].id \in {a.id : a \in accounts}
      BY <1>1 DEF HasAccount
    <2> QED BY <2>1 DEF AccountInv, AccountsTyped, CreateSession
  <1>3. RestTyped
    BY <1>1, <1>2 DEF AccountInv, AccountsTyped, RestTyped
  <1>4. PICK x \in {"session", "error"} : Answers(c, x)
    BY DEF CreateSession
  <1> QED BY <1>1, <1>3, <1>4, CallEnds

LEMMA AccountAborts ==
    ASSUME AccountInv, NEW c \in Login, AbortLogin(c) PROVE AccountInv'
  <1>1. Answers(c, "error") /\ accounts' = accounts /\ RestTyped
    BY RestKept DEF AbortLogin
  <1> QED BY <1>1, CallEnds

LEMMA AccountRests ==
    ASSUME AccountInv, UNCHANGED <<generator, accounts, logins, sessions>>, clock' \in 0 .. MaxMs
    PROVE  AccountInv'
  <1>1. AccountsTyped'
    BY DEF AccountInv, AccountsTyped
  <1>2. Placement' /\ Apart'
    BY DEF AccountInv, Placement, Apart, Inserted
  <1>3. ASSUME NEW c \in Login PROVE Sound(c, logins[c])'
    BY DEF AccountInv, Sound, Existing, HasAccount, AtHome, Free
  <1> QED BY <1>1, <1>2, <1>3 DEF AccountInv

LEMMA MsPassesTyped == AccountInv /\ MsPasses => clock' \in 0 .. MaxMs
  BY LoginAssumption DEF AccountInv, AccountsTyped, MsPasses

LEMMA AccountInitInv == AccountInit => AccountInv
  <1> SUFFICES ASSUME AccountInit PROVE AccountInv
    OBVIOUS
  <1> USE DEF AccountInit
  <1>1. 0 \in Shard /\ clock \in 0 .. MaxMs /\ [last |-> 0, sequence |-> 0] \in Generator
    BY LoginAssumption DEF Shard, Generator
  <1>2. Waiting \in Call
    BY <1>1, LoginAssumption DEF Waiting, Call, NoId
  <1>3. \A a \in accounts : a.id \in Nat /\ a.shard = ShardForUserID(a.id) /\ a.shard \in Shard
    BY LoginAssumption DEF ShardForUserID, Shard
  <1>4. AccountsTyped
    BY <1>1, <1>2, <1>3 DEF AccountsTyped
  <1>5. Placement
    BY <1>3, LoginAssumption DEF Placement
  <1>6. \A c \in Login : logins[c].at = "new" /\ ~logins[c].fresh /\ logins[c].answer = "none"
    BY DEF Waiting
  <1>7. Apart /\ \A c \in Login : Sound(c, logins[c])
    BY <1>6 DEF Apart, Inserted, Sound
  <1> QED BY <1>4, <1>5, <1>7 DEF AccountInv

LEMMA AccountStepInv == AccountInv /\ [AccountNext]_accountVars => AccountInv'
  <1> SUFFICES ASSUME AccountInv, [AccountNext]_accountVars PROVE AccountInv'
    OBVIOUS
  <1>1. ASSUME NEW c \in Login,
               \/ StartLogin(c) \/ LookUp(c) \/ FindIdentity(c) \/ Allocate(c)
               \/ InsertAccount(c) \/ CommitAccount(c) \/ CreateSession(c) \/ AbortLogin(c)
        PROVE  AccountInv'
    BY <1>1, AccountStarts, AccountLooksUp, AccountFinds, AccountAllocates,
       AccountInserts, AccountCommits, AccountGetsSession, AccountAborts
  <1>2. CASE MsPasses
    BY <1>2, MsPassesTyped, AccountRests DEF MsPasses
  <1>3. CASE UNCHANGED accountVars
    <2>1. clock' \in 0 .. MaxMs
      BY <1>3 DEF accountVars, AccountInv, AccountsTyped
    <2> QED BY <1>3, <2>1, AccountRests DEF accountVars
  <1> QED BY <1>1, <1>2, <1>3 DEF AccountNext

LEMMA AccountFrame == [Next]_servicesVars => [AccountNext]_accountVars
  BY DEF Next, servicesVars, accountVars

\* What the calls rely on of each other, wherever their transactions stand.
THEOREM AccountInvariant == Spec => []AccountInv
  <1>1. Init => AccountInv
    BY AccountInitInv DEF Init
  <1>2. AccountInv /\ [Next]_servicesVars => AccountInv'
    BY AccountStepInv, AccountFrame
  <1> QED BY <1>1, <1>2, PTL DEF Spec

\* However calls, instances and shards interleave, and wherever accounts were copied
\* to, a name or device has one account besides one that is overlooked, and no two
\* accounts share an ID (OneAccountEach): the generators may repeat an ID, and the
\* unique keys of the shard it leads to refuse it.
THEOREM OneAccountHolds == Spec => []OneAccountEach
  <1>1. AccountInv => OneAccountEach
    BY DEF AccountInv, Placement, Sound, HasAccount, OneAccountEach
  <1> QED BY <1>1, AccountInvariant, PTL

-----------------------------------------------------------------------------
(* All services together.                                                    *)

LEMMA AllTyped ==
    ASSUME FriendInv, InviteInv, AccountInv, ProjInv, RouteInv, BackfillInv, focus \in Focus
    PROVE  ServicesTypeOK
  <1>1. FriendTypeOK /\ RouteTypeOK
    BY DEF FriendInv, RouteInv, RouteTyped
  <1>2. InviteTypeOK
    <2>1. \A p \in friendships : p \subseteq Person
      <3>1. friendships \subseteq PairsOfPersons
        BY DEF InviteInv, InviteTyped
      <3>2. \A p \in PairsOfPersons : p \subseteq Person
        BY DEF PairsOfPersons, Pair
      <3> QED BY <3>1, <3>2
    <2>2. \A c \in InviteCall : /\ invites[c].at \in InviteStages
                                /\ invites[c].answer \in {"none", "code", "ok", "expired", "self", "error"}
                                /\ invites[c].tries <= MaxAccepts
      BY InviteAssumption DEF InviteInv, InviteTyped, Invite
    <2> QED BY <2>1, <2>2 DEF InviteInv, InviteTyped, InviteTypeOK, InviteStages
  <1>3. AccountTypeOK
    BY DEF AccountInv, AccountsTyped, AccountTypeOK, Call
  <1>4. ProjTypeOK
    <2>1. \A u \in Player, k \in TaskKey : tasks[<<u, k>>].progress <= Target[k]
      <3> SUFFICES ASSUME NEW u \in Player, NEW k \in TaskKey
                   PROVE  tasks[<<u, k>>].progress <= Target[k]
        OBVIOUS
      <3>1. InStep(tasks[<<u, k>>], Target[k], Done(u, k))
        BY DEF ProjInv, Counts
      <3>2. /\ tasks[<<u, k>>].status \in {"none", "ACTIVE", "COMPLETED", "REWARD_CLAIMED"}
            /\ tasks[<<u, k>>].progress \in Nat /\ Target[k] \in Nat
        BY ProjAssumption DEF ProjInv, ProjTyped, Task
      <3> QED BY <3>1, <3>2 DEF InStep
    <2>2. \A u \in Player : coins[u] \in Nat
      BY FS_CardinalityType DEF ProjInv, Paying, Tally
    <2>3. \A m \in Member : work[m].tries <= MaxTries
      BY ProjAssumption DEF ProjInv, ProjTyped, Holding
    <2> QED BY <2>1, <2>2, <2>3 DEF ProjInv, ProjTyped, ProjTypeOK, Task
  <1>5. BackfillTypeOK
    BY DEF BackfillInv, BackfillTyped, BackfillTypeOK, RowsOnShards, Job, Checked
  <1> QED BY <1>1, <1>2, <1>3, <1>4, <1>5 DEF ServicesTypeOK

LEMMA FriendFrame == [Next]_servicesVars => [FriendNext]_friendVars
  BY DEF Next, servicesVars, friendVars

\* Every part of the services keeps its types (ServicesTypeOK), a call or an event at
\* any stage included.
THEOREM ServicesTyped == Spec => []ServicesTypeOK
  <1>1. Init => focus \in Focus /\ FriendInv
    BY FriendInitInv DEF Init
  <1>2. focus \in Focus /\ FriendInv /\ [Next]_servicesVars => (focus \in Focus /\ FriendInv)'
    <2>1. [Next]_servicesVars => focus' = focus
      BY DEF Next, servicesVars
    <2>2. FriendInv /\ [Next]_servicesVars => FriendInv'
      BY FriendFrame, FriendStepInv
    <2>3. focus \in Focus /\ focus' = focus => focus' \in Focus
      OBVIOUS
    <2> QED BY <2>1, <2>2, <2>3
  <1>3. Spec => [](focus \in Focus /\ FriendInv)
    BY <1>1, <1>2, PTL DEF Spec
  <1>4. (/\ focus \in Focus /\ FriendInv
         /\ InviteInv /\ AccountInv /\ ProjInv /\ RouteInv /\ BackfillInv) => ServicesTypeOK
    BY AllTyped
  <1> QED BY <1>3, <1>4, InviteInvariant, AccountInvariant, ProjInvariant, RouteInvariant,
             BackfillInvariant, PTL

================
