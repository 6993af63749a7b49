------------------------------- MODULE Mailbox --------------------------------
(***************************************************************************)
(* The mailbox of one user and the badge that shows how much of it is      *)
(* unread: transactions that send and read mail, the triggers that keep    *)
(* mailbox_states, and the way of a summary over Redis to the connection.  *)
(*                                                                         *)
(* Rows are locked in the order the statements touch them; a row of a      *)
(* transaction that has not committed is locked and reads as it was.  The  *)
(* client keeps the newest summary it has been told, and fetches one when  *)
(* it connects.  It sees the connection open before the gateway has put it *)
(* into ws:conn; when that fails, only a log line says so.                 *)
(***************************************************************************)
EXTENDS Integers, FiniteSetsExt

CONSTANTS
    Mail,          \* mails that may be sent, numbered
    Delivered,     \* mails the user already has, unread
    MailCall,      \* calls of the service, numbered from 1
    Kind(_),       \* what a call does: "send", "read" or "read all"
    MailOf(_),     \* the mail it sends or reads
    Link,          \* connections of the user, each to its own gatesvr
    MaxMailFaults  \* bound: lost messages and crashes

NoLink == "no connection"
NoCaller == 0

\* A mail's id is given once, to the call that sends it.
ASSUME MailAssumption ==
    /\ IsFiniteSet(Mail) /\ Mail \subseteq Nat
    /\ Delivered \subseteq Mail
    /\ NoLink \notin Link /\ NoCaller \notin MailCall
    /\ \A c \in MailCall : MailOf(c) \in Mail
    /\ \A c \in MailCall : Kind(c) = "send" => MailOf(c) \notin Delivered
    /\ \A c, d \in MailCall :
          Kind(c) = "send" /\ Kind(d) = "send" /\ MailOf(c) = MailOf(d) => c = d

VARIABLES
    mails,         \* mails.status, "none" before the row exists
    box,           \* mailbox_states: unread_count and version
    boxLock,       \* the transaction that has changed mailbox_states
    mailCalls,     \* what each call is doing
    connOwner,     \* the connection in ws:conn, or NoLink
    mailWire,      \* summaries published and not yet received
    shown,         \* what the client of each connection shows
    links,         \* connections: "new", "open" to the client, or "registered" once
    missed,        \* connections with a gap: no summary fetched since registration or a loss
    mailFaults

mailVars == <<mails, box, boxLock, mailCalls, connOwner, mailWire, shown, links, missed,
              mailFaults>>

NoSummary == [unread |-> 0, version |-> 0]
Summary == [unread : 0 .. Cardinality(Mail), version : 0 .. 2 * Cardinality(Mail)]
Ended == [at |-> "done", wrote |-> {}, summary |-> NoSummary, to |-> NoLink]
Unread == {m \in Mail : mails[m] = "UNREAD"}

MailTypeOK ==
    /\ mails \in [Mail -> {"none", "UNREAD", "READ"}]
    /\ box \in Summary
    /\ boxLock \in MailCall \cup {NoCaller}
    /\ \A c \in MailCall :
          /\ mailCalls[c].at \in {"open", "notify", "publish", "done"}
          /\ mailCalls[c].wrote \subseteq Mail
          /\ mailCalls[c].wrote = {} => boxLock # c
    /\ connOwner \in Link \cup {NoLink}
    /\ mailWire \subseteq [to : Link, summary : Summary]
    /\ shown \in [Link -> Summary]
    /\ links \in [Link -> {"new", "open", "registered"}]
    /\ missed \subseteq Link

MailInit ==
    /\ mails = [m \in Mail |-> IF m \in Delivered THEN "UNREAD" ELSE "none"]
    /\ box = [unread |-> Cardinality(Delivered), version |-> Cardinality(Delivered)]
    /\ boxLock = NoCaller
    /\ mailCalls = [c \in MailCall |-> [Ended EXCEPT !.at = "open"]]
    /\ connOwner = NoLink
    /\ mailWire = {}
    /\ shown = [l \in Link |-> NoSummary]
    /\ links = [l \in Link |-> "new"]
    /\ missed = Link
    /\ mailFaults = 0

MailFault == mailFaults < MaxMailFaults /\ mailFaults' = mailFaults + 1

-----------------------------------------------------------------------------
(* Transactions.                                                             *)

Locked(m) == \E c \in MailCall : mailCalls[c].at = "open" /\ m \in mailCalls[c].wrote

\* Rows a call has still to change.  MarkAllRead goes through the index once, and
\* waits at a row that another transaction is inserting or changing.
Inserting == {m \in Mail : Locked(m) /\ mails[m] = "none"}

ToWrite(c) ==
    LET wrote == mailCalls[c].wrote
        there == Unread \cup Inserting IN
    IF Kind(c) = "read all"
    THEN {m \in there : \A n \in wrote : m > n}
    ELSE {m \in {MailOf(c)} \ wrote : Kind(c) = "send" \/ m \in there}

\* The first row is followed by its trigger, which locks mailbox_states.
WriteRow(c) ==
    /\ mailCalls[c].at = "open"
    /\ mailCalls[c].wrote # {} => boxLock = c
    /\ \E m \in ToWrite(c) :
          /\ \A n \in ToWrite(c) : m <= n
          /\ ~Locked(m)
          /\ mailCalls' = [mailCalls EXCEPT ![c].wrote = @ \cup {m}]
    /\ UNCHANGED <<mails, box, boxLock, connOwner, mailWire, shown, links, missed, mailFaults>>

Trigger(c) ==
    /\ mailCalls[c].at = "open"
    /\ mailCalls[c].wrote # {}
    /\ boxLock = NoCaller
    /\ boxLock' = c
    /\ UNCHANGED <<mails, box, mailCalls, connOwner, mailWire, shown, links, missed, mailFaults>>

\* What the trigger makes of mailbox_states for n rows that turn unread or read.
Counted(c, n) ==
    [unread |-> IF Kind(c) = "send" THEN box.unread + n ELSE Max({box.unread - n, 0}),
     version |-> box.version + n]

\* All rows are written: read the summary under the lock and commit.
CommitMail(c) ==
    /\ mailCalls[c].at = "open"
    /\ ToWrite(c) = {}
    /\ mailCalls[c].wrote = {} \/ boxLock = c
    /\ LET rows == mailCalls[c].wrote IN
       /\ mails' = [m \in Mail |-> IF m \notin rows THEN mails[m]
                                   ELSE IF Kind(c) = "send" THEN "UNREAD" ELSE "READ"]
       /\ box' = Counted(c, Cardinality(rows))
       /\ boxLock' = IF boxLock = c THEN NoCaller ELSE boxLock
       /\ mailCalls' = [mailCalls EXCEPT ![c] =
             IF rows = {} THEN Ended ELSE [Ended EXCEPT !.at = "notify", !.summary = box']]
    /\ UNCHANGED <<connOwner, mailWire, shown, links, missed, mailFaults>>

\* A deadlock's victim, a lock wait that times out, or a caller that goes away.
RollBackMail(c) ==
    /\ mailCalls[c].at = "open"
    /\ mailCalls' = [mailCalls EXCEPT ![c] = Ended]
    /\ boxLock' = IF boxLock = c THEN NoCaller ELSE boxLock
    /\ UNCHANGED <<mails, box, connOwner, mailWire, shown, links, missed, mailFaults>>

-----------------------------------------------------------------------------
(* From the commit to the badge.                                             *)

\* GET ws:conn names the gateway, if the user is online.
Resolve(c) ==
    /\ mailCalls[c].at = "notify"
    /\ mailCalls' = [mailCalls EXCEPT ![c] =
          IF connOwner = NoLink THEN Ended ELSE [@ EXCEPT !.at = "publish", !.to = connOwner]]
    /\ UNCHANGED <<mails, box, boxLock, connOwner, mailWire, shown, links, missed, mailFaults>>

\* PUBLISH reaches that gateway while it listens.
PublishSummary(c) ==
    /\ mailCalls[c].at = "publish"
    /\ mailCalls' = [mailCalls EXCEPT ![c] = Ended]
    /\ mailWire' = mailWire \cup {[to |-> mailCalls[c].to, summary |-> mailCalls[c].summary]}
    /\ UNCHANGED <<mails, box, boxLock, connOwner, shown, links, missed, mailFaults>>

\* gamesvr dies after the commit, Redis fails, or 100 ms pass.
LoseNotice(c) ==
    /\ \/ mailCalls[c].at = "notify" /\ missed' = missed \cup ({connOwner} \cap Link)
       \/ mailCalls[c].at = "publish" /\ missed' = missed \cup {mailCalls[c].to}
    /\ MailFault
    /\ mailCalls' = [mailCalls EXCEPT ![c] = Ended]
    /\ UNCHANGED <<mails, box, boxLock, connOwner, mailWire, shown, links>>

NewerOrNot(summary, old) == TRUE

NewerThan(summary, old) == summary.version > old.version

\* The connection is pushed a summary unless it has had a newer one.
PushMailboxChanged(n) ==
    /\ n \in mailWire
    /\ mailWire' = mailWire \ {n}
    /\ shown' = IF NewerThan(n.summary, shown[n.to])
                THEN [shown EXCEPT ![n.to] = n.summary]
                ELSE shown
    /\ UNCHANGED <<mails, box, boxLock, mailCalls, connOwner, links, missed, mailFaults>>

\* The subscription was down, or the connection's queue is full.
DropSummary(n) ==
    /\ n \in mailWire
    /\ MailFault
    /\ mailWire' = mailWire \ {n}
    /\ missed' = missed \cup {n.to}
    /\ UNCHANGED <<mails, box, boxLock, mailCalls, connOwner, shown, links>>

\* Upgrade: the client sees the connection open.
OpenLink(l) ==
    /\ links[l] = "new"
    /\ links' = [links EXCEPT ![l] = "open"]
    /\ UNCHANGED <<mails, box, boxLock, mailCalls, connOwner, mailWire, shown, missed, mailFaults>>

\* SET ws:conn, later and once, or never when Redis fails.  A call that has resolved
\* the previous gateway, or none, does not reach this connection.
RegisterLink(l) ==
    /\ links[l] = "open"
    /\ links' = [links EXCEPT ![l] = "registered"]
    /\ connOwner' = l
    /\ missed' = missed \cup {l}
    /\ UNCHANGED <<mails, box, boxLock, mailCalls, mailWire, shown, mailFaults>>

\* The connection closes, or its key runs out.
UnregisterLink(l) ==
    /\ connOwner = l
    /\ connOwner' = NoLink
    /\ UNCHANGED <<mails, box, boxLock, mailCalls, mailWire, shown, links, missed, mailFaults>>

\* GetSummary over HTTP, on opening or after a gap; before the registration it does
\* not close the gap.
GetSummary(l) ==
    /\ links[l] # "new"
    /\ l \in missed
    /\ shown' = [shown EXCEPT ![l] = box]
    /\ missed' = IF connOwner = l THEN missed \ {l} ELSE missed
    /\ UNCHANGED <<mails, box, boxLock, mailCalls, connOwner, mailWire, links, mailFaults>>

-----------------------------------------------------------------------------
MailNext ==
    \/ \E c \in MailCall :
          \/ WriteRow(c) \/ Trigger(c) \/ CommitMail(c) \/ RollBackMail(c)
          \/ Resolve(c) \/ PublishSummary(c) \/ LoseNotice(c)
    \/ \E n \in mailWire : PushMailboxChanged(n) \/ DropSummary(n)
    \/ \E l \in Link : OpenLink(l) \/ RegisterLink(l) \/ UnregisterLink(l) \/ GetSummary(l)

-----------------------------------------------------------------------------
Quiet ==
    /\ mailWire = {}
    /\ \A c \in MailCall : mailCalls[c].at \in {"open", "done"}

\* The count kept by the triggers is the number of unread mails.  A client that has
\* fetched a summary since its connection was registered, and has lost none, shows
\* the mailbox once every summary sent has arrived, in whatever order
\* (mysql_mail_service.go:348, handler.go:140).
BadgeSettles ==
    /\ box.unread = Cardinality(Unread)
    /\ Quiet /\ connOwner # NoLink /\ connOwner \notin missed =>
          shown[connOwner] = box
=============================================================================
