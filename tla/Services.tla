------------------------------- MODULE Services -------------------------------
(***************************************************************************)
(* The services around the farm: friendships of two shards and of one,     *)
(* accounts and their IDs, the projections of events, the routes of the    *)
(* farm buckets, and the tool that fills the shards.                       *)
(*                                                                         *)
(* They keep different tables and keys.  As in Gateway, a behaviour moves  *)
(* one of them, its focus.                                                 *)
(***************************************************************************)
EXTENDS FriendEdge, Invites, Accounts, Projections, RouteControl, Backfill

CONSTANT Focus   \* the services that move

VARIABLE focus

servicesVars ==
    <<focus, friendVars, inviteVars, accountVars, projVars, routeVars, bfVars>>

ServicesTypeOK ==
    /\ focus \in Focus
    /\ FriendTypeOK
    /\ InviteTypeOK
    /\ AccountTypeOK
    /\ ProjTypeOK
    /\ RouteTypeOK
    /\ BackfillTypeOK

\* A part out of focus rests in one of its initial states.
Init ==
    /\ focus \in Focus
    /\ FriendInit
    /\ InviteInit
    /\ AccountInit
    /\ ProjInit
    /\ RouteInit
    /\ BackfillInit
    /\ focus # "backfill" => /\ source = [t \in UserTable |-> {}]
                             /\ sourceFriends = {}

Next ==
    /\ UNCHANGED focus
    /\ \/ /\ focus = "friends" /\ FriendNext
          /\ UNCHANGED <<inviteVars, accountVars, projVars, routeVars, bfVars>>
       \/ /\ focus = "invites" /\ InviteNext
          /\ UNCHANGED <<friendVars, accountVars, projVars, routeVars, bfVars>>
       \/ /\ focus = "accounts" /\ AccountNext
          /\ UNCHANGED <<friendVars, inviteVars, projVars, routeVars, bfVars>>
       \/ /\ focus = "projections" /\ ProjNext
          /\ UNCHANGED <<friendVars, inviteVars, accountVars, routeVars, bfVars>>
       \/ /\ focus = "routes" /\ RouteNext
          /\ UNCHANGED <<friendVars, inviteVars, accountVars, projVars, bfVars>>
       \/ /\ focus = "backfill" /\ BackfillNext
          /\ UNCHANGED <<friendVars, inviteVars, accountVars, projVars, routeVars>>

Spec == Init /\ [][Next]_servicesVars /\ FriendFairness /\ RouteFairness

-----------------------------------------------------------------------------
\* What friendships and routes come to when their loops keep running: no edge
\* stays half-made (EndsInFriendship), and gateways, whose view of the epochs never
\* goes back on the way (ResolvedForward), learn every bucket's last owner
\* (RoutesSettle).
ServicesSettle == EndsInFriendship /\ ResolvedForward /\ RoutesSettle
=============================================================================
