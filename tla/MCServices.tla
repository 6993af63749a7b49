------------------------------ MODULE MCServices ------------------------------
(***************************************************************************)
(* The instance of Services that TLC checks.  MCNext takes out what only   *)
(* multiplies its states: the imported device logs in last, the            *)
(* mails and the catalog follow the tasks, the friends' mails the catalog, *)
(* the second fault comes in a retry, and only b, which has the higher     *)
(* score, starts twice.                                                    *)
(***************************************************************************)
EXTENDS Services, TLC

\* amy registers twice through two instances, ipad is new, and phone was imported off
\* its home, as was an older amy.
MCLoginKind == <<"register", "register", "guest", "guest">>
MCSubjectOf == <<"amy", "amy", "ipad", "phone">>
MCHomeOf == [amy |-> 0, ipad |-> 0, phone |-> 0]
MCImported == {[subject |-> "phone", shard |-> 1, id |-> 3],
               [subject |-> "amy", shard |-> 1, id |-> 5]}
MCNodeOf == <<0, 1, 0, 0>>

\* Three devices that are new to one instance and one shard.
NewLoginKind == <<"guest", "guest", "guest">>
NewSubjectOf == <<"ipad", "phone", "watch">>
NewHomeOf == [ipad |-> 0, phone |-> 0, watch |-> 0]
NewNodeOf == <<0, 0, 0>>

\* u and v create codes, each accepts the other's, and u asks for a code again.
MCCallerOf == <<"u", "v", "v", "u", "u">>
MCCodeFrom == <<1, 2, 1, 2, 5>>

MCEvent(t, a, o) == [type |-> t, actor |-> a, owner |-> o, crop |-> "wheat"]
MCEventOf == <<MCEvent("farm.stolen.v1", "p", "q"), MCEvent("farm.watered.v1", "p", "q"),
               MCEvent("farm.watered.v1", "p", "q"), MCEvent("farm.harvested.v1", "q", "q"),
               MCEvent("social.friend_accepted.v1", "p", "q")>>
MCTarget == [steal_1 |-> 1, help_water_3 |-> 2]
MCReward == [steal_1 |-> 1, help_water_3 |-> 1]
MCHandled == {"task-projector"} \X {1, 2, 3} \cup {<<"catalog-projector", 4>>, <<"mail-projector", 5>>}

MCScore == [a |-> 1, b |-> 2]

MCTableOrder == <<"accounts", "mails">>
MCPair == {<<1, 3>>, <<1, 2>>}

\* The calls and events that wait, and for which.
PhoneWaits == (\A c \in {1, 2, 3} : logins[c].at = "done") \/ logins'[4] = logins[4]
MailsWait ==
    \/ {<<"task-projector", e>> : e \in {1, 2, 3}} \subseteq consumed \cup givenUp
    \/ \A m \in Member : work'[m].projector \in {"none", "task-projector"}
FriendsWait ==
    \/ <<"catalog-projector", 4>> \in consumed \cup givenUp
    \/ \A m \in Member : work'[m].event # 5

\* The second fault meets a retry, so that an event is parked.
FaultsMeet ==
    projFaults = 1 /\ projFaults' = 2 =>
        \E m \in Member : work[m].tries = 1 /\ work'[m] # work[m]

MCNext ==
    /\ Next
    /\ PhoneWaits
    /\ MailsWait
    /\ FriendsWait
    /\ FaultsMeet
    /\ started'["a"] <= 1

\* Whoever has mails at first has an account, and all are friends or none.
MCInit ==
    /\ Init
    /\ source["mails"] \subseteq source["accounts"]
    /\ sourceFriends \in {{}, SeededPair}

MCSpec == MCInit /\ [][MCNext]_servicesVars /\ FriendFairness /\ RouteFairness
=============================================================================
