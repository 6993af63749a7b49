------------------------------ MODULE MCGateway ------------------------------
(***************************************************************************)
(* The instance of Gateway that TLC checks: two connections of one user    *)
(* and two farms, one of them its own; a mail sent, read, and read with    *)
(* all others; two sessions, one of an older release, and two connections  *)
(* to one instance; an Idempotency-Key sent twice.  MCNext takes out what  *)
(* only multiplies states.                                                 *)
(***************************************************************************)
EXTENDS Gateway, TLC

CONSTANTS c1, c2

MCUserOf == c1 :> "b" @@ c2 :> "b"
MCSessionOf == c1 :> "s1" @@ c2 :> "s1"
MCGatewayOf == c1 :> "g1" @@ c2 :> "g1"

MCKind(c) == CASE c = 1 -> "send" [] c = 2 -> "read" [] c = 3 -> "read all"
MCMailOf(c) == 2

\* Calls 3 and 4 carry the same key.
MCKey(q) == IF q = 4 THEN 3 ELSE q
MCQuantity(k) == 1

\* Of calls 1 and 2, of 3 and 4, and of the two connections, which do the same, the
\* first comes first.
InTurn ==
    /\ \A q \in {1, 3} : buys'[q].at = "new" => buys'[q + 1].at = "new"
    /\ socket'[c1] = "new" => socket'[c2] = "new"
    /\ links'["l2"] = "registered" => links'["l1"] = "registered"

\* A link that ws:conn does not name fetches one summary, and the second one stays.
FewFetches ==
    /\ \A l \in Link \ {connOwner} : shown'[l] # shown[l] => shown[l] = NoSummary \/ mailWire' # mailWire
    /\ connOwner = "l2" => connOwner' = "l2"

\* With a connection, one session is logged in and exchanges once, or two are logged in.
FewTokens == (\E c \in Socket : socket'[c] # "new") => tokens' <= 2

MCNext == Next /\ InTurn /\ FewFetches /\ FewTokens

MCSpec == Init /\ [][MCNext]_gatewayVars /\ ViewerFairness /\ SessFairness
=============================================================================
