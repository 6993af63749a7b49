----------------------------- MODULE FarmLedger -----------------------------
(***************************************************************************)
(* What the farm write path promises about one farm, with no process,      *)
(* message or retry in sight: a history of applied commands that only      *)
(* grows, a route epoch (the fence) that only advances, and answers that   *)
(* name an entry of that history.  FarmCommit is shown to implement it.    *)
(***************************************************************************)
EXTENDS Integers, Sequences

CONSTANTS
    Cmd,    \* commands the clients issue
    KeyOf,  \* KeyOf[c]: the (user, cmd_id) under which c is made idempotent
    Kind    \* Kind[c]: "receipt", "pet" (both keep a receipt) or "plain"

VARIABLES
    ledger, \* the applied commands in order; entry n produced version n
    fence,  \* the persistent route epoch
    base,   \* base[c]: the version c was issued against, Unsent before that
    acked   \* acked[c]: the version the issuer was told, 0 when it was not

vars == <<ledger, fence, base, acked>>

Unsent == -1

KeepsReceipt(c) == Kind[c] # "plain"

\* Entry n of history h is the effect that command c may be answered with.
Realizes(h, n, c) ==
    \/ h[n].cmd = c
    \/ /\ KeepsReceipt(c)
       /\ KeepsReceipt(h[n].cmd)
       /\ KeyOf[h[n].cmd] = KeyOf[c]

-----------------------------------------------------------------------------

Init ==
    /\ ledger = <<>>
    /\ fence = 0
    /\ base = [c \in Cmd |-> Unsent]
    /\ acked = [c \in Cmd |-> 0]

\* A client issues c against a version it has seen or the next one (the pet
\* scanner: against the schedule it has read).
Issue(c) ==
    /\ base[c] = Unsent
    /\ base'[c] # Unsent
    /\ Kind[c] # "pet" => base'[c] \in 0..Len(ledger) + 1
    /\ base' = [base EXCEPT ![c] = base'[c]]
    /\ UNCHANGED <<ledger, fence, acked>>

\* c takes effect: once per idempotency key, and on exactly the version its
\* issuer saw (the pet scanner's command names a schedule instead).
Apply(c) ==
    /\ base[c] # Unsent
    /\ KeepsReceipt(c) => \A n \in 1..Len(ledger) : ~ Realizes(ledger, n, c)
    /\ Kind[c] # "pet" => base[c] = Len(ledger)
    /\ ledger' = Append(ledger, [cmd |-> c, epoch |-> fence])
    /\ UNCHANGED <<fence, base, acked>>

\* The farm moves to a newer owner.
Advance ==
    /\ fence' \in Nat
    /\ fence' > fence
    /\ UNCHANGED <<ledger, base, acked>>

\* The issuer of c is told the version c produced.
Answer(c) ==
    /\ \E n \in 1..Len(ledger) :
           Realizes(ledger, n, c) /\ acked' = [acked EXCEPT ![c] = n]
    /\ UNCHANGED <<ledger, fence, base>>

Next ==
    \/ Advance
    \/ \E c \in Cmd : Issue(c) \/ Apply(c) \/ Answer(c)

Spec == Init /\ [][Next]_vars
=============================================================================
