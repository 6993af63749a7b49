------------------------------- MODULE Gateway --------------------------------
(***************************************************************************)
(* A gatesvr: admission control, sessions, the viewers' hub, the mailbox   *)
(* badge, cached reads, the economy coalescer and the calls to services.   *)
(*                                                                         *)
(* In the code these parts share no variable and no lock; a request goes   *)
(* from one to the next.  A behaviour therefore moves one part, its focus, *)
(* and every behaviour of every part occurs under its own focus.           *)
(***************************************************************************)
EXTENDS ViewerHub, Mailbox, ReadCache, Admission, Sessions, ServiceCalls

CONSTANTS
    Focus,                                   \* the parts that move
    Buy, Key(_), Quantity(_), MaxQuantity    \* of EconomyCoalescer

\* The handlers refuse a quantity below 1 or above the limit
\* (shop_handler.go:110, :115).
ASSUME BuyAssumption ==
    /\ MaxQuantity \in Nat \ {0}
    /\ \A q \in Buy : Quantity(Key(q)) \in 1 .. MaxQuantity

VARIABLES
    focus,
    buys, bucket, current, holder, sent      \* of EconomyCoalescer

Buys == INSTANCE EconomyCoalescer

purchases == <<buys, bucket, current, holder, sent>>
gatewayVars == <<focus, viewVars, mailVars, cacheVars, purchases, admVars, sessVars, callVars>>

GatewayTypeOK ==
    /\ focus \in Focus
    /\ ViewerTypeOK
    /\ MailTypeOK
    /\ ReadTypeOK
    /\ Buys!CoalTypeOK
    /\ AdmTypeOK
    /\ SessTypeOK
    /\ CallTypeOK

Init ==
    /\ focus \in Focus
    /\ ViewerInit
    /\ MailInit
    /\ ReadInit
    /\ Buys!CoalInit
    /\ AdmInit
    /\ SessInit
    /\ CallInit

Next ==
    /\ UNCHANGED focus
    /\ \/ /\ focus = "viewers" /\ ViewerNext
          /\ UNCHANGED <<mailVars, cacheVars, purchases, admVars, sessVars, callVars>>
       \/ /\ focus = "mail" /\ MailNext
          /\ UNCHANGED <<viewVars, cacheVars, purchases, admVars, sessVars, callVars>>
       \/ /\ focus = "reads" /\ ReadNext
          /\ UNCHANGED <<viewVars, mailVars, purchases, admVars, sessVars, callVars>>
       \/ /\ focus = "buys" /\ Buys!CoalNext
          /\ UNCHANGED <<viewVars, mailVars, cacheVars, admVars, sessVars, callVars>>
       \/ /\ focus = "limits" /\ AdmNext
          /\ UNCHANGED <<viewVars, mailVars, cacheVars, purchases, sessVars, callVars>>
       \/ /\ focus = "sessions" /\ SessNext
          /\ UNCHANGED <<viewVars, mailVars, cacheVars, purchases, admVars, callVars>>
       \/ /\ focus = "calls" /\ CallNext
          /\ UNCHANGED <<viewVars, mailVars, cacheVars, purchases, admVars, sessVars>>

Spec == Init /\ [][Next]_gatewayVars /\ ViewerFairness /\ SessFairness

-----------------------------------------------------------------------------
\* A coalesced command buys what its distinct keys asked for, once
\* (economy_coalescer.go:110, :137), and no client gets more than its rate
\* (AdmissionBounded).
LimitsHold == Buys!SentAddsUp /\ AdmissionBounded

\* Farms nobody watches are left, and connections that were replaced are closed
\* (bus.go:199, conn_store.go:38).
LetGo == UnwatchedIsLeft /\ DoomedClose
=============================================================================
