------------------------------ MODULE FriendEdge ------------------------------
(***************************************************************************)
(* A friendship between users of two shards.  Each keeps an edge on his    *)
(* own shard.  Who accepts an invitation writes a PENDING edge and a       *)
(* request; the other's shard answers it by an ACTIVE edge and an          *)
(* acknowledgement, which makes the first edge ACTIVE and announces the    *)
(* friendship.  Both may accept each other's invitation at once.           *)
(*                                                                         *)
(* Requests and acknowledgements are outbox rows.  Of the way they take    *)
(* this module keeps what OutboxRelay and EventConsumer leave open: a row  *)
(* is published any number of times or goes DEAD, before or after that; a  *)
(* message is delivered any number of times, in any order, or is parked.   *)
(* A shard's transaction is one step (the edge's row lock).                *)
(***************************************************************************)
EXTENDS Naturals

CONSTANTS User, NoUser

ASSUME UserAssumption == \E u, v \in User : u # v /\ User = {u, v} /\ NoUser \notin User

VARIABLES
    edge,     \* edge[u]: u's row in friendship_edges; its source_event_id is
              \* named by the user whose request it is
    outbox,   \* status of the outbox rows; the row of an ack is on the shard
              \* of the user who answers
    topic,    \* the rows that have been published
    settled,  \* messages the consumer group has done with
    parked,   \* of these, the ones it has parked
    accepted  \* accepted[u]: friend_accepted events announced by u's shard

friendVars == <<edge, outbox, topic, settled, parked, accepted>>

Message == [kind : {"request", "ack"}, source : User]
Request(u) == [kind |-> "request", source |-> u]
Ack(u) == [kind |-> "ack", source |-> u]

Other(u) == CHOOSE v \in User : v # u

FriendInit ==
    /\ edge = [u \in User |-> [state |-> "none", event |-> NoUser]]
    /\ outbox = [m \in Message |-> "none"]
    /\ topic = {} /\ settled = {} /\ parked = {}
    /\ accepted = [u \in User |-> 0]

-----------------------------------------------------------------------------

\* u accepts the other's invitation for the first time.  Accepting again finds
\* the edge and its event and changes nothing.
Begin(u) ==
    /\ edge[u].state = "none"
    /\ edge' = [edge EXCEPT ![u] = [state |-> "PENDING", event |-> u]]
    /\ outbox' = [outbox EXCEPT ![Request(u)] = "PENDING"]
    /\ UNCHANGED <<topic, settled, parked, accepted>>

\* Mutant: a new edge does not keep the event it comes from.
ApplyNameless(u) ==
    LET t == Other(u) IN
    IF edge[t].state \in {"none", "PENDING"}
    THEN /\ edge' = [edge EXCEPT ![t].state = "ACTIVE"]
         /\ outbox' = [outbox EXCEPT ![Ack(u)] = "PENDING"]
         /\ UNCHANGED accepted
    ELSE UNCHANGED <<edge, outbox, accepted>>

\* The other's shard receives the request of u.  Only a change is acknowledged.
ApplyRemote(u) ==
    LET t == Other(u) IN
    IF edge[t].state \in {"none", "PENDING"}
    THEN /\ edge' = [edge EXCEPT ![t].state = "ACTIVE",
                                 ![t].event = IF @ = NoUser THEN u ELSE @]
         /\ outbox' = [outbox EXCEPT ![Ack(u)] = "PENDING"]
         /\ UNCHANGED accepted
    ELSE UNCHANGED <<edge, outbox, accepted>>

\* Mutant: the edge is not required to be PENDING.
ConfirmsAny(u) == edge[u].event = u

\* The UPDATE of ConfirmSource finds a row.
Confirms(u) == edge[u].event = u /\ edge[u].state = "PENDING"

\* The shard of u receives the acknowledgement.
ConfirmSource(u) ==
    IF Confirms(u)
    THEN /\ edge' = [edge EXCEPT ![u].state = "ACTIVE"]
         /\ accepted' = [accepted EXCEPT ![u] = @ + 1]
         /\ UNCHANGED outbox
    ELSE /\ edge[u].event = u /\ edge[u].state = "ACTIVE"
         /\ UNCHANGED <<edge, outbox, accepted>>

\* FriendEdgeProjector.Handle
Handle(m) ==
    IF m.kind = "request" THEN ApplyRemote(m.source) ELSE ConfirmSource(m.source)

-----------------------------------------------------------------------------
(* The relay and the consumer group.                                       *)

Publish(m) ==
    /\ outbox[m] = "PENDING"
    /\ topic' = topic \cup {m}
    /\ outbox' = [outbox EXCEPT ![m] = "PUBLISHED"]
    /\ UNCHANGED <<edge, settled, parked, accepted>>

\* The publication succeeds and is not recorded, for the relay has died or another
\* has meanwhile taken over the row.
PublishUnmarked(m) ==
    /\ outbox[m] \in {"PENDING", "DEAD"}
    /\ topic' = topic \cup {m}
    /\ UNCHANGED <<edge, outbox, settled, parked, accepted>>

\* The last retry is reported to have failed.
GiveUp(m) ==
    /\ outbox[m] = "PENDING"
    /\ outbox' = [outbox EXCEPT ![m] = "DEAD"]
    /\ UNCHANGED <<edge, topic, settled, parked, accepted>>

\* A relay that lost its claim long ago records its own failure, naming the row
\* only (markRetryOrDead).
MarkLate(m) ==
    /\ outbox[m] \in {"PUBLISHED", "DEAD"}
    /\ \E s \in {"PENDING", "DEAD"} : outbox' = [outbox EXCEPT ![m] = s]
    /\ UNCHANGED <<edge, topic, settled, parked, accepted>>

Deliver(m) ==
    /\ m \in topic
    /\ Handle(m)
    /\ settled' = settled \cup {m}
    /\ UNCHANGED <<topic, parked>>

\* Its handler has failed too often.
Park(m) ==
    /\ m \in topic \ settled
    /\ settled' = settled \cup {m} /\ parked' = parked \cup {m}
    /\ UNCHANGED <<edge, outbox, topic, accepted>>

\* Mutant: an edge that has become ACTIVE is failed as well.
FailsEveryState(u) == edge[u].event = u /\ outbox[Request(u)] = "DEAD"

\* The candidates of CompensateDeadRequests.
Fails(u) ==
    edge[u] = [state |-> "PENDING", event |-> u] /\ outbox[Request(u)] = "DEAD"

Compensate(u) ==
    /\ Fails(u)
    /\ edge' = [edge EXCEPT ![u].state = "FAILED"]
    /\ UNCHANGED <<outbox, topic, settled, parked, accepted>>

FriendNext ==
    \/ \E u \in User : Begin(u) \/ Compensate(u)
    \/ \E m \in Message :
        \/ Publish(m) \/ PublishUnmarked(m) \/ GiveUp(m) \/ MarkLate(m)
        \/ Deliver(m) \/ Park(m)

\* Relays scan and consumers fetch in a loop, and so does the compensation.
\* Nobody has to accept an invitation, and no failure has to happen.
FriendFairness ==
    /\ \A m \in Message :
        /\ WF_friendVars(Publish(m))
        /\ WF_friendVars(m \notin settled /\ (Deliver(m) \/ Park(m)))
    /\ \A u \in User : WF_friendVars(Compensate(u))

FriendSpec == FriendInit /\ [][FriendNext]_friendVars /\ FriendFairness

-----------------------------------------------------------------------------
(* Properties.                                                             *)

State == {"none", "PENDING", "ACTIVE", "FAILED"}

\* Types; a row of friendship_edges names the event it comes from.
FriendTypeOK ==
    /\ edge \in [User -> [state : State, event : User \cup {NoUser}]]
    /\ \A u \in User : edge[u].state = "none" <=> edge[u].event = NoUser
    /\ outbox \in [Message -> {"none", "PENDING", "PUBLISHED", "DEAD"}]
    /\ topic \subseteq Message /\ settled \subseteq topic /\ parked \subseteq settled
    /\ accepted \in [User -> Nat]

Friends == \A u \in User : edge[u].state = "ACTIVE"

\* A message went the way of no return: it is parked or its row is DEAD.
Lost == parked # {} \/ \E m \in Message : outbox[m] = "DEAD"

\* An accepted invitation ends in a friendship that both shards know of, unless
\* the relay or the consumer group has given up on a message (FriendEdgeSaga).
EndsInFriendship == \A u \in User : edge[u].state = "PENDING" ~> Friends \/ Lost

\* However often messages come and whoever asked first, a friendship is announced
\* at most once, and only when both edges are ACTIVE (ConfirmSource,
\* insertFriendAcceptedOutbox).
AnnouncedOnce ==
    \A u \in User : accepted[u] > 0 =>
        accepted[u] = 1 /\ accepted[Other(u)] = 0 /\ Friends

\* Friends stay friends: neither a late request or acknowledgement nor the
\* compensation of a row that went DEAD after it was published takes an
\* ACTIVE edge away (CompensateDeadRequests).
StayFriends ==
    [][\A u \in User : edge[u].state = "ACTIVE" => edge'[u].state = "ACTIVE"]_friendVars
=============================================================================
