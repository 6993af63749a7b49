---------------------------- MODULE MCEventDelivery ----------------------------
(***************************************************************************)
(* EventDelivery in one of these scenarios: "relays", one event, two       *)
(* relays that race and fail, and a consumer that restarts but handles at  *)
(* the first attempt; "group", two events of two farms, one of them        *)
(* malformed, one relay whose leases may run out early, and two members of *)
(* the group that fail and retry; "all", nothing held back.                *)
(***************************************************************************)
EXTENDS EventDelivery

CONSTANTS r1, r2, m1, m2, Scenario

VARIABLE scenario

OneFarm == <<"farm", "farm">>
TwoFarms == <<"farm A", "farm B">>

mcVars == <<vars, scenario>>

\* Who works in the scenario.
Works(r) == r = r1 \/ scenario # "group"
Waits == IF scenario = "relays" THEN {2} ELSE {}

\* What relay r may come to: in the group's scenario it publishes without failure.
Succeeds(r) == Works(r) /\ (scenario = "group" => relay'[r].failed = {})

MCInit == Init /\ scenario \in Scenario

MCNext ==
    /\ Next
    /\ UNCHANGED scenario
    /\ \A e \in Waits : row'[e] = NoRow
    /\ \A r \in Relay : relay'[r] # relay[r] => Succeeds(r)
    /\ scenario = "relays" => assigned' = m1 /\ member'[m1].tries <= 1
    /\ scenario = "group" => faults' = faults \/ relay' = relay

MCSpec ==
    /\ MCInit /\ [][MCNext]_mcVars
    /\ \A r \in Relay : WF_relayVars(Scan(r) /\ Succeeds(r))
    /\ \A e \in Event : WF_relayVars(BackoffEnds(e)) /\ WF_relayVars(LeaseExpires(e))
    /\ C!MemberFairness
=============================================================================
