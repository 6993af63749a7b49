------------------------------ MODULE Sessions -------------------------------
(***************************************************************************)
(* The sessions of one user: refresh tokens that are exchanged for new     *)
(* ones, the WebSocket connection a session is allowed, and the hand-over  *)
(* of a session from a gateway that shuts down.                            *)
(*                                                                         *)
(* Each script of refresh_store, session_store and conn_store is one step: *)
(* Redis runs it alone.  Kicks travel by Pub/Sub and arrive late, in any   *)
(* order.  A token is a number; its hash is the token itself.  A session   *)
(* ID whose record is gone stands for one never used.                      *)
(***************************************************************************)
EXTENDS Integers, FiniteSets

CONSTANTS
    Session,      \* sessions of the user
    Legacy,       \* those an older gamesvr created: no session record yet
    Socket,       \* WebSocket connections, each used once
    SessionOf,    \* the session a connection presents
    GatewayOf,    \* the gatesvr instance it reaches
    MaxTokens     \* bound: refresh tokens handed out

ASSUME SessionAssumption ==
    /\ Legacy \subseteq Session
    /\ SessionOf \in [Socket -> Session]
    /\ MaxTokens \in Nat

VARIABLES
    auth,         \* the session record: its current refresh token, or NoRecord
    refresh,      \* refresh tokens that have a key; it names the user only
    tokens,       \* tokens handed out so far
    login,        \* history: the first token of the login each token comes from
    exchanged,    \* history: how often each token was accepted
    loggedOut,    \* history: logins ended by a logout
    owner,        \* per session: the last connection to claim it, and its state
    tickets,      \* resume tickets not yet used
    socket,       \* how far each connection has come
    listening,    \* connections whose kick callback is installed
    registered,   \* the connection in ws:conn, NoSocket when there is none
    kicks,        \* kicks on their way: the instance and the listener spared
    doomed        \* connections replaced by another, or logged out

sessVars == <<auth, refresh, tokens, login, exchanged, loggedOut, owner, tickets,
              socket, listening, registered, kicks, doomed>>
tokenVars == <<auth, refresh, tokens, login, exchanged, loggedOut>>
socketVars == <<owner, tickets, socket, listening, registered, kicks, doomed>>

NoRecord == 0
NoSocket == "no socket"
Spared == Socket \cup {NoSocket}
Token == 1 .. MaxTokens
SocketState == {"new", "checked", "claimed", "upgraded", "told", "open", "closing", "closed"}

SessTypeOK ==
    /\ auth \in [Session -> 0 .. tokens]
    /\ tokens \in 0 .. MaxTokens
    /\ refresh \subseteq 1 .. tokens
    /\ login \in [Token -> 0 .. tokens]
    /\ exchanged \in [Token -> Nat]
    /\ loggedOut \subseteq Token
    /\ \A s \in Session :
          /\ owner[s].by \in Spared
          /\ owner[s].status \in {"ACTIVE", "HANDOFF_PENDING"}
    /\ tickets \subseteq [session : Session, of : Socket]
    /\ socket \in [Socket -> SocketState]
    /\ listening \subseteq Socket
    /\ registered \in Spared
    /\ kicks \subseteq [to : {GatewayOf[c] : c \in Socket}, spare : Spared]
    /\ doomed \subseteq Socket

SessInit ==
    /\ auth = [s \in Session |-> NoRecord]
    /\ refresh = {}
    /\ tokens = 0
    /\ login = [t \in Token |-> 0]
    /\ exchanged = [t \in Token |-> 0]
    /\ loggedOut = {}
    /\ owner = [s \in Session |-> [by |-> NoSocket, status |-> "ACTIVE"]]
    /\ tickets = {}
    /\ socket = [c \in Socket |-> "new"]
    /\ listening = {}
    /\ registered = NoSocket
    /\ kicks = {}
    /\ doomed = {}

-----------------------------------------------------------------------------
(* Refresh tokens.                                                           *)

NewToken == tokens + 1
HandOut == tokens < MaxTokens /\ tokens' = NewToken

\* A login under a new session ID; an older gamesvr writes the refresh key only.
Create(s) ==
    /\ auth[s] = NoRecord
    /\ HandOut
    /\ refresh' = refresh \cup {NewToken}
    /\ auth' = IF s \in Legacy THEN auth ELSE [auth EXCEPT ![s] = NewToken]
    /\ login' = [login EXCEPT ![NewToken] = NewToken]
    /\ UNCHANGED <<exchanged, loggedOut, socketVars>>

Rotates(s, t) == auth[s] = t /\ t \in refresh

\* Without a record the key is believed, whichever session the token was made for.
Migrates(s, t) == auth[s] = NoRecord /\ t \in refresh

\* Mutant: the old key is not deleted.
ExchangeKeepsKey(s, t) ==
    /\ Rotates(s, t) \/ Migrates(s, t)
    /\ HandOut
    /\ refresh' = refresh \cup {NewToken}
    /\ auth' = [auth EXCEPT ![s] = NewToken]
    /\ login' = [login EXCEPT ![NewToken] = login[t]]
    /\ exchanged' = [exchanged EXCEPT ![t] = @ + 1]
    /\ UNCHANGED <<loggedOut, socketVars>>

\* RefreshSession with session s and token t: rotated, or else migrated.
Exchange(s, t) ==
    /\ Rotates(s, t) \/ Migrates(s, t)
    /\ HandOut
    /\ refresh' = (refresh \ {t}) \cup {NewToken}
    /\ auth' = [auth EXCEPT ![s] = NewToken]
    /\ login' = [login EXCEPT ![NewToken] = login[t]]
    /\ exchanged' = [exchanged EXCEPT ![t] = @ + 1]
    /\ UNCHANGED <<loggedOut, socketVars>>

\* Seven days without an exchange: the record and the key run out together,
\* one of them a moment before the other.
RecordExpires(s) ==
    /\ auth[s] # NoRecord
    /\ auth' = [auth EXCEPT ![s] = NoRecord]
    /\ UNCHANGED <<refresh, tokens, login, exchanged, loggedOut, socketVars>>

KeyExpires(t) ==
    /\ t \in refresh
    /\ refresh' = refresh \ {t}
    /\ UNCHANGED <<auth, tokens, login, exchanged, loggedOut, socketVars>>

Kick(c, spare) == [to |-> GatewayOf[c], spare |-> spare]

\* Logout with the current token deletes both keys and kicks whatever connection
\* the user has; the spared listener's name, a session, matches none.
DeleteSession(s) ==
    /\ Rotates(s, auth[s])
    /\ refresh' = refresh \ {auth[s]}
    /\ auth' = [auth EXCEPT ![s] = NoRecord]
    /\ loggedOut' = loggedOut \cup {login[auth[s]]}
    /\ IF registered = NoSocket
       THEN UNCHANGED <<kicks, doomed>>
       ELSE /\ kicks' = kicks \cup {Kick(registered, NoSocket)}
            /\ doomed' = doomed \cup {registered}
    /\ UNCHANGED <<tokens, login, exchanged, owner, tickets, socket, listening, registered>>

-----------------------------------------------------------------------------
(* A connection's life.                                                      *)

Goes(c, at) == socket' = [socket EXCEPT ![c] = at]

IsActive(s) == s \in Legacy \/ auth[s] # NoRecord

\* handleUpgrade looks at the session record, and then no more.
Check(c) ==
    /\ socket[c] = "new"
    /\ IsActive(SessionOf[c])
    /\ Goes(c, "checked")
    /\ UNCHANGED <<tokenVars, owner, tickets, listening, registered, kicks, doomed>>

\* A resume ticket, when presented, is used up; then the session is claimed.
Claim(c) ==
    LET s == SessionOf[c] IN
    /\ socket[c] = "checked"
    /\ \/ tickets' = tickets
       \/ \E k \in tickets : k.session = s /\ tickets' = tickets \ {k}
    /\ owner' = [owner EXCEPT ![s] = [by |-> c, status |-> "ACTIVE"]]
    /\ Goes(c, "claimed")
    /\ UNCHANGED <<tokenVars, listening, registered, kicks, doomed>>

ListenKick(c) ==
    /\ socket[c] = "claimed"
    /\ listening' = listening \cup {c}
    /\ Goes(c, "upgraded")
    /\ UNCHANGED <<tokenVars, owner, tickets, registered, kicks, doomed>>

\* SET ws:conn, and kick the connection that was there.  Failing is only logged; a
\* connection told to close before runs through this, too.
Register(c) ==
    /\ socket[c] \in {"upgraded", "told"}
    /\ \/ UNCHANGED <<registered, kicks, doomed>>
       \/ /\ registered' = c
          /\ IF registered = NoSocket
             THEN UNCHANGED <<kicks, doomed>>
             ELSE /\ kicks' = kicks \cup {Kick(registered, c)}
                  /\ doomed' = doomed \cup {registered}
    /\ Goes(c, IF socket[c] = "told" THEN "closing" ELSE "open")
    /\ UNCHANGED <<tokenVars, owner, tickets, listening>>

\* The instance closes every connection of the user but the spared one.
Kicked(k) == {c \in listening : GatewayOf[c] = k.to /\ c # k.spare}

\* What becomes of a connection that is told to close.
Closing(c) == IF socket[c] = "upgraded" THEN "told"
              ELSE IF socket[c] = "open" THEN "closing" ELSE socket[c]

DeliverKick(k) ==
    /\ k \in kicks
    /\ kicks' = kicks \ {k}
    /\ socket' = [c \in Socket |-> IF c \in Kicked(k) THEN Closing(c) ELSE socket[c]]
    /\ UNCHANGED <<tokenVars, owner, tickets, listening, registered, doomed>>

\* The client goes away, or sixty seconds pass without a frame.
Drop(c) ==
    /\ socket[c] = "open"
    /\ Goes(c, "closing")
    /\ UNCHANGED <<tokenVars, owner, tickets, listening, registered, kicks, doomed>>

\* The deferred clean-up: Unregister only what is one's own, then stop listening.
Unregister(c) ==
    /\ socket[c] = "closing"
    /\ registered' = IF registered = c THEN NoSocket ELSE registered
    /\ listening' = listening \ {c}
    /\ Goes(c, "closed")
    /\ UNCHANGED <<tokenVars, owner, tickets, kicks, doomed>>

Owns(c) == owner[SessionOf[c]].by = c

\* Shutdown: only the owner's epoch may hand the session over; the connection
\* is closed a moment later, registered or not.
BeginHandoff(c) ==
    /\ socket[c] \in {"upgraded", "open"}
    /\ Owns(c)
    /\ owner' = [owner EXCEPT ![SessionOf[c]].status = "HANDOFF_PENDING"]
    /\ tickets' = tickets \cup {[session |-> SessionOf[c], of |-> c]}
    /\ Goes(c, Closing(c))
    /\ UNCHANGED <<tokenVars, listening, registered, kicks, doomed>>

TicketExpires(k) ==
    /\ k \in tickets
    /\ tickets' = tickets \ {k}
    /\ UNCHANGED <<tokenVars, owner, socket, listening, registered, kicks, doomed>>

-----------------------------------------------------------------------------
SessNext ==
    \/ \E s \in Session :
          \/ Create(s)
          \/ \E t \in 1 .. tokens : Exchange(s, t)
          \/ RecordExpires(s)
          \/ DeleteSession(s)
    \/ \E t \in refresh : KeyExpires(t)
    \/ \E c \in Socket :
          \/ Check(c) \/ Claim(c) \/ ListenKick(c) \/ Register(c)
          \/ Drop(c) \/ Unregister(c) \/ BeginHandoff(c)
    \/ \E k \in kicks : DeliverKick(k)
    \/ \E k \in tickets : TicketExpires(k)

\* Goroutines run, and Pub/Sub delivers to instances that stay connected.
SessFairness ==
    /\ \A c \in Socket :
          WF_sessVars(Claim(c) \/ ListenKick(c) \/ Register(c) \/ Unregister(c))
    /\ WF_sessVars(\E k \in kicks : DeliverKick(k))

-----------------------------------------------------------------------------
\* A refresh token is accepted at most once, whatever session IDs it is presented
\* with.  Of a login one token at most is alive, and none after a logout with that
\* token (refresh_store.go:69, :99, :123).
TokensUsedOnce ==
    /\ \A t \in Token : exchanged[t] <= 1 /\ (exchanged[t] = 1 => t \notin refresh)
    /\ \A t, u \in refresh : login[t] = login[u] => t = u
    /\ \A t \in refresh : login[t] \notin loggedOut

\* A connection that was replaced, or whose user logged out while it was the
\* registered one, is closed in the end.
DoomedClose == \A c \in Socket : c \in doomed ~> socket[c] = "closed"
=============================================================================
