------------------------------- MODULE Invites --------------------------------
(***************************************************************************)
(* Invitation codes and the friendships of users of one shard.             *)
(*                                                                         *)
(* A code is a key in Redis, with a second key that finds a user's code    *)
(* again; both expire, and each Redis or MySQL call is a step.  A          *)
(* transaction sees what is committed and waits at a unique key that       *)
(* another has inserted.  Users of two shards are FriendEdge's.            *)
(***************************************************************************)
EXTENDS Naturals, FiniteSets

CONSTANTS
    Person,
    InviteCall,     \* calls of CreateInvite and AcceptInvite
    CallerOf,       \* CallerOf[c]: the user who calls
    CodeFrom,       \* CodeFrom[c]: the call whose code c accepts; c itself creates one
    NoCode,
    MaxAccepts,     \* attempts of mysqlretry
    MaxInviteFaults \* bound: failures

ASSUME InviteAssumption ==
    /\ NoCode \notin InviteCall
    /\ MaxAccepts \in Nat \ {0} /\ MaxInviteFaults \in Nat
    /\ \A c \in InviteCall : CallerOf[c] \in Person /\ CodeFrom[c] \in InviteCall

VARIABLES
    codeKeys,   \* the codes that have not expired; a code is named by the call
                \* that generated it, and holds its caller
    userKey,    \* userKey[u]: the code u is found by
    friendships,
    announced,  \* announced[p]: friend_accepted events of pair p in the outbox
    invites,    \* what each call is doing
    inviteFaults

inviteVars == <<codeKeys, userKey, friendships, announced, invites, inviteFaults>>

Pair(u, v) == {u, v}
Creates(c) == CodeFrom[c] = c
NewInvite == [at |-> "new", code |-> NoCode, tries |-> 0, answer |-> "none"]

InviteTypeOK ==
    /\ codeKeys \subseteq InviteCall
    /\ userKey \in [Person -> InviteCall \cup {NoCode}]
    /\ \A p \in friendships : p \subseteq Person
    /\ \A c \in InviteCall :
          /\ invites[c].at \in {"new", "ttl", "set code", "set user", "check", "insert", "commit", "done"}
          /\ invites[c].answer \in {"none", "code", "ok", "expired", "self", "error"}
          /\ invites[c].tries <= MaxAccepts
    /\ inviteFaults \in 0 .. MaxInviteFaults

InviteInit ==
    /\ codeKeys = {} /\ userKey = [u \in Person |-> NoCode]
    /\ friendships = {}
    /\ announced = [p \in {Pair(u, v) : u, v \in Person} |-> 0]
    /\ invites = [c \in InviteCall |-> NewInvite]
    /\ inviteFaults = 0

Goes(c, a) == invites' = [invites EXCEPT ![c].at = a]
Responds(c, a, d) == invites' = [invites EXCEPT ![c].at = "done", ![c].answer = a, ![c].code = d]

-----------------------------------------------------------------------------
(* GetOrCreate.                                                              *)

ReadUserKey(c) ==
    /\ Creates(c) /\ invites[c].at = "new"
    /\ invites' = [invites EXCEPT ![c].code = userKey[CallerOf[c]],
          ![c].at = IF userKey[CallerOf[c]] = NoCode THEN "set code" ELSE "ttl"]
    /\ UNCHANGED <<codeKeys, userKey, friendships, announced, inviteFaults>>

ReadTTL(c) ==
    /\ invites[c].at = "ttl"
    /\ IF invites[c].code \in codeKeys
       THEN Responds(c, "code", invites[c].code) ELSE Goes(c, "set code")
    /\ UNCHANGED <<codeKeys, userKey, friendships, announced, inviteFaults>>

\* The pipeline's two commands.
SetCode(c) ==
    /\ invites[c].at = "set code"
    /\ codeKeys' = codeKeys \cup {c}
    /\ Goes(c, "set user")
    /\ UNCHANGED <<userKey, friendships, announced, inviteFaults>>

SetUser(c) ==
    /\ invites[c].at = "set user"
    /\ userKey' = [userKey EXCEPT ![CallerOf[c]] = c]
    /\ Responds(c, "code", c)
    /\ UNCHANGED <<codeKeys, friendships, announced, inviteFaults>>

CodeExpires(d) ==
    /\ d \in codeKeys /\ invites[d].at = "done"
    /\ codeKeys' = codeKeys \ {d}
    /\ UNCHANGED <<userKey, friendships, announced, invites, inviteFaults>>

UserKeyExpires(u) ==
    /\ userKey[u] # NoCode
    /\ userKey' = [userKey EXCEPT ![u] = NoCode]
    /\ UNCHANGED <<codeKeys, friendships, announced, invites, inviteFaults>>

-----------------------------------------------------------------------------
(* AcceptInvite.                                                             *)

Inviter(c) == CallerOf[invites[c].code]
PairOf(c) == Pair(Inviter(c), CallerOf[c])
AreFriends(u, v) == Pair(u, v) \in friendships

GetInviter(c) ==
    LET d == invites[CodeFrom[c]].code IN
    /\ ~Creates(c) /\ invites[c].at = "new"
    /\ invites[CodeFrom[c]].answer = "code"
    /\ IF d \notin codeKeys THEN Responds(c, "expired", d)
       ELSE IF CallerOf[d] = CallerOf[c] THEN Responds(c, "self", d)
       ELSE invites' = [invites EXCEPT ![c].at = "check", ![c].code = d]
    /\ UNCHANGED <<codeKeys, userKey, friendships, announced, inviteFaults>>

CheckFriendship(c) ==
    /\ invites[c].at = "check"
    /\ IF AreFriends(Inviter(c), CallerOf[c])
       THEN Responds(c, "ok", invites[c].code) ELSE Goes(c, "insert")
    /\ UNCHANGED <<codeKeys, userKey, friendships, announced, inviteFaults>>

\* The transaction is rolled back; mysqlretry begins another or gives up.
TriesAgain(c) ==
    IF invites[c].tries + 1 < MaxAccepts
    THEN invites' = [invites EXCEPT ![c].at = "check", ![c].tries = @ + 1]
    ELSE Responds(c, "error", invites[c].code)

\* Mutant: the pair is not a unique key.
InsertFriendshipTwice(c) ==
    /\ invites[c].at = "insert"
    /\ Goes(c, "commit")
    /\ UNCHANGED <<codeKeys, userKey, friendships, announced, inviteFaults>>

\* A duplicate key is retried: the next attempt finds the row.
InsertFriendship(c) ==
    /\ invites[c].at = "insert"
    /\ \A d \in InviteCall \ {c} : invites[d].at = "commit" => PairOf(d) # PairOf(c)
    /\ IF PairOf(c) \in friendships THEN TriesAgain(c) ELSE Goes(c, "commit")
    /\ UNCHANGED <<codeKeys, userKey, friendships, announced, inviteFaults>>

\* The row and its outbox event.  The answer to the COMMIT may be lost.
CommitFriendship(c) ==
    /\ invites[c].at = "commit"
    /\ friendships' = friendships \cup {PairOf(c)}
    /\ announced' = [announced EXCEPT ![PairOf(c)] = @ + 1]
    /\ \/ Responds(c, "ok", invites[c].code) /\ UNCHANGED inviteFaults
       \/ /\ inviteFaults < MaxInviteFaults /\ inviteFaults' = inviteFaults + 1
          /\ Responds(c, "error", invites[c].code)
    /\ UNCHANGED <<codeKeys, userKey>>

\* A deadlock or a lost connection, or the caller goes away.
InviteFails(c) ==
    /\ inviteFaults < MaxInviteFaults /\ inviteFaults' = inviteFaults + 1
    /\ \/ invites[c].at \in {"check", "insert", "commit"} /\ TriesAgain(c)
       \/ invites[c].at \in {"set code", "set user", "check"}
          /\ Responds(c, "error", invites[c].code)
    /\ UNCHANGED <<codeKeys, userKey, friendships, announced>>

InviteNext ==
    \/ \E c \in InviteCall :
          \/ ReadUserKey(c) \/ ReadTTL(c) \/ SetCode(c) \/ SetUser(c) \/ CodeExpires(c)
          \/ GetInviter(c) \/ CheckFriendship(c) \/ InsertFriendship(c)
          \/ CommitFriendship(c) \/ InviteFails(c)
    \/ \E u \in Person : UserKeyExpires(u)

-----------------------------------------------------------------------------
\* Two users become friends once and are announced once, though both accept the
\* other's code at the same time or a call is repeated after a lost answer; who is
\* told of success has the friend, and a code leads to the user who was given it
\* (AcceptInvite, acceptInviteOnce, GetOrCreate).
InvitedOnce ==
    /\ \A p \in DOMAIN announced : announced[p] = IF p \in friendships THEN 1 ELSE 0
    /\ \A p \in friendships : Cardinality(p) = 2
    /\ \A c \in InviteCall :
          /\ invites[c].answer = "ok" => AreFriends(Inviter(c), CallerOf[c])
          /\ invites[c].answer = "code" => Inviter(c) = CallerOf[c]
=============================================================================
