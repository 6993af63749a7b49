---------------------------- MODULE GatewayProofs -----------------------------
(***************************************************************************)
(* The safety properties of the gateway, part by part, for every number of *)
(* sessions, sockets, tokens, readers, commits and faults.                 *)
(***************************************************************************)
EXTENDS Gateway, TallyProofs

-----------------------------------------------------------------------------
(* Sessions.                                                                 *)

\* A token that was exchanged has no key any more, and gets none.
Spent ==
    \A t \in Token : exchanged[t] \in 0 .. 1 /\ (exchanged[t] = 1 => t \in 1 .. tokens \ refresh)

\* Of a login one token is alive, and none when it was ended.
OneAlive ==
    /\ \A t, u \in refresh : login[t] = login[u] => t = u
    /\ \A t \in refresh : login[t] \in 1 .. tokens \ loggedOut

Tokens ==
    /\ tokens \in 0 .. MaxTokens
    /\ auth \in [Session -> 0 .. tokens]
    /\ refresh \subseteq 1 .. tokens
    /\ login \in [Token -> 0 .. tokens]
    /\ exchanged \in [Token -> Nat]
    /\ loggedOut \subseteq 1 .. tokens
    /\ Spent
    /\ OneAlive

Sockets ==
    /\ owner \in [Session -> [by : Spared, status : {"ACTIVE", "HANDOFF_PENDING"}]]
    /\ tickets \subseteq [session : Session, of : Socket]
    /\ socket \in [Socket -> SocketState]
    /\ listening \subseteq Socket
    /\ registered \in Spared
    /\ kicks \subseteq [to : {GatewayOf[c] : c \in Socket}, spare : Spared]
    /\ doomed \subseteq Socket

SessInv == Tokens /\ Sockets

\* A token that is handed out for a login of which no other is kept.
LEMMA HandedOut ==
    ASSUME Tokens, HandOut, NEW kept \in SUBSET refresh, NEW l \in 1 .. tokens + 1,
           l \notin loggedOut, \A u \in kept : login[u] # l,
           refresh' = kept \cup {NewToken}, loggedOut' = loggedOut,
           login' = [login EXCEPT ![NewToken] = l],
           NEW s \in Session, auth' = auth \/ auth' = [auth EXCEPT ![s] = NewToken]
    PROVE  /\ tokens' \in 0 .. MaxTokens /\ tokens' = tokens + 1 /\ tokens \in Nat
           /\ auth' \in [Session -> 0 .. tokens']
           /\ refresh' \subseteq 1 .. tokens'
           /\ login' \in [Token -> 0 .. tokens']
           /\ loggedOut' \subseteq 1 .. tokens'
           /\ OneAlive'
  <1>1. /\ tokens \in Nat /\ tokens' = tokens + 1 /\ tokens < MaxTokens /\ MaxTokens \in Nat
        /\ NewToken = tokens + 1 /\ NewToken \in Token
    BY SessionAssumption DEF Tokens, HandOut, NewToken, Token
  <1>2. tokens' \in 0 .. MaxTokens /\ 0 .. tokens \subseteq 0 .. tokens' /\ 1 .. tokens \subseteq 1 .. tokens'
        /\ NewToken \in 1 .. tokens'
    BY <1>1
  <1>3. kept \subseteq 1 .. tokens /\ refresh' \subseteq 1 .. tokens' /\ NewToken \notin 1 .. tokens
        /\ loggedOut' \subseteq 1 .. tokens'
    BY <1>1, <1>2 DEF Tokens
  <1>4. auth' \in [Session -> 0 .. tokens']
    BY <1>1, <1>2 DEF Tokens
  <1>5. login' \in [Token -> 0 .. tokens']
    BY <1>1, <1>2 DEF Tokens
  <1>6. login'[NewToken] = l /\ \A u \in kept : login'[u] = login[u] /\ u # NewToken /\ u \in refresh
    <2>1. \A u \in kept : u \in Token
      BY <1>1, <1>3 DEF Token
    <2> QED BY <1>1, <1>3, <2>1 DEF Tokens
  <1>7. \A u \in kept : login[u] \in 1 .. tokens \ loggedOut
    BY DEF Tokens, OneAlive
  <1>8. OneAlive'
    <2>1. \A t, u \in kept : login[t] = login[u] => t = u
      BY DEF Tokens, OneAlive
    <2>2. \A t, u \in kept \cup {NewToken} : login'[t] = login'[u] => t = u
      BY <1>6, <2>1
    <2>3. \A t \in kept \cup {NewToken} : login'[t] \in 1 .. tokens' \ loggedOut
      BY <1>1, <1>2, <1>6, <1>7
    <2>4. refresh' = kept \cup {NewToken} /\ loggedOut' = loggedOut
      OBVIOUS
    <2> HIDE DEF NewToken
    <2> QED BY <2>2, <2>3, <2>4 DEF OneAlive
  <1> QED BY <1>1, <1>2, <1>3, <1>4, <1>5, <1>8

\* Keys run out and logins end; nothing is handed out.
LEMMA KeysGo ==
    ASSUME Tokens, refresh' \subseteq refresh, UNCHANGED <<tokens, login, exchanged>>,
           auth' \in [Session -> 0 .. tokens], loggedOut' \subseteq 1 .. tokens,
           \A t \in refresh' : login[t] \notin loggedOut'
    PROVE  Tokens'
  <1>1. OneAlive' /\ Spent'
    BY DEF Tokens, OneAlive, Spent
  <1> QED BY <1>1 DEF Tokens

LEMMA CreateStep ==
    ASSUME Tokens, NEW s \in Session, Create(s) PROVE Tokens'
  <1>1. /\ HandOut /\ refresh' = refresh \cup {NewToken}
        /\ login' = [login EXCEPT ![NewToken] = NewToken]
        /\ auth' = auth \/ auth' = [auth EXCEPT ![s] = NewToken]
        /\ exchanged' = exchanged /\ loggedOut' = loggedOut
    BY DEF Create
  <1>2. /\ NewToken \in 1 .. tokens + 1 /\ NewToken \notin loggedOut
        /\ \A u \in refresh : login[u] # NewToken
    BY SessionAssumption DEF Tokens, OneAlive, NewToken
  <1>3. /\ tokens' \in 0 .. MaxTokens /\ tokens' = tokens + 1 /\ tokens \in Nat
        /\ auth' \in [Session -> 0 .. tokens']
        /\ refresh' \subseteq 1 .. tokens'
        /\ login' \in [Token -> 0 .. tokens']
        /\ loggedOut' \subseteq 1 .. tokens'
        /\ OneAlive'
    BY <1>1, <1>2, HandedOut
  <1>4. Spent'
    BY <1>1, <1>3 DEF Tokens, Spent, Token, NewToken
  <1> QED BY <1>1, <1>3, <1>4 DEF Tokens

\* The old key goes as the new one comes, whichever session is named.
LEMMA ExchangeStep ==
    ASSUME Tokens, NEW s \in Session, NEW t \in 1 .. tokens, Exchange(s, t) PROVE Tokens'
  <1> DEFINE kept == refresh \ {t}
  <1>1. /\ HandOut /\ t \in refresh
        /\ refresh' = kept \cup {NewToken}
        /\ login' = [login EXCEPT ![NewToken] = login[t]]
        /\ exchanged' = [exchanged EXCEPT ![t] = @ + 1]
        /\ auth' = [auth EXCEPT ![s] = NewToken] /\ loggedOut' = loggedOut
    BY DEF Exchange, Rotates, Migrates
  <1>2. /\ login[t] \in 1 .. tokens + 1 /\ login[t] \notin loggedOut
        /\ \A u \in kept : login[u] # login[t]
    BY <1>1, SessionAssumption DEF Tokens, OneAlive
  <1>3. t \in Token /\ t \in Nat /\ t # NewToken /\ NewToken = tokens + 1
    BY SessionAssumption DEF Tokens, Token, NewToken
  <1>4. t \notin kept /\ kept \in SUBSET refresh
    OBVIOUS
  <1> HIDE DEF kept
  <1>5. /\ tokens' \in 0 .. MaxTokens /\ tokens' = tokens + 1 /\ tokens \in Nat
        /\ auth' \in [Session -> 0 .. tokens']
        /\ refresh' \subseteq 1 .. tokens'
        /\ login' \in [Token -> 0 .. tokens']
        /\ loggedOut' \subseteq 1 .. tokens'
        /\ OneAlive'
    BY <1>1, <1>2, <1>4, HandedOut
  <1>6. exchanged[t] = 0
    BY <1>1, <1>3 DEF Tokens, Spent
  <1>7. /\ exchanged' \in [Token -> Nat] /\ exchanged'[t] = 1
        /\ \A u \in Token \ {t} : exchanged'[u] = exchanged[u]
    BY <1>1, <1>3, <1>6 DEF Tokens
  <1>8. Spent'
    <2> SUFFICES ASSUME NEW u \in Token
                 PROVE  /\ exchanged'[u] \in 0 .. 1
                        /\ exchanged'[u] = 1 => u \in 1 .. tokens' \ refresh'
      BY DEF Spent, Token
    <2>1. CASE u = t
      BY <1>1, <1>3, <1>4, <1>5, <1>7, <2>1
    <2>2. CASE u # t
      <3>1. /\ exchanged'[u] = exchanged[u] /\ exchanged[u] \in 0 .. 1
            /\ exchanged[u] = 1 => u \in 1 .. tokens \ refresh
        BY <1>7, <2>2 DEF Tokens, Spent
      <3> QED BY <1>1, <1>3, <1>4, <1>5, <3>1
    <2> QED BY <2>1, <2>2
  <1> QED BY <1>5, <1>7, <1>8 DEF Tokens

LEMMA RecordExpiresStep ==
    ASSUME Tokens, NEW s \in Session, RecordExpires(s) PROVE Tokens'
  <1>1. auth' \in [Session -> 0 .. tokens]
    BY SessionAssumption DEF RecordExpires, Tokens, NoRecord
  <1>2. /\ UNCHANGED <<refresh, tokens, login, exchanged, loggedOut>>
        /\ loggedOut \subseteq 1 .. tokens /\ \A t \in refresh : login[t] \notin loggedOut
    BY DEF RecordExpires, Tokens, OneAlive
  <1> QED BY <1>1, <1>2, KeysGo

\* The token that logs out is its login's only one.
LEMMA DeleteSessionStep ==
    ASSUME Tokens, NEW s \in Session, DeleteSession(s) PROVE Tokens'
  <1> DEFINE t == auth[s]
  <1>1. /\ t \in refresh /\ refresh' = refresh \ {t} /\ loggedOut' = loggedOut \cup {login[t]}
        /\ auth' = [auth EXCEPT ![s] = NoRecord]
        /\ UNCHANGED <<tokens, login, exchanged>>
    BY DEF DeleteSession, Rotates
  <1>2. auth' \in [Session -> 0 .. tokens]
    BY <1>1, SessionAssumption DEF Tokens, NoRecord
  <1> HIDE DEF t
  <1>3. /\ loggedOut' \subseteq 1 .. tokens
        /\ \A u \in refresh' : login[u] \notin loggedOut'
    BY <1>1 DEF Tokens, OneAlive
  <1> QED BY <1>1, <1>2, <1>3, KeysGo

LEMMA TokenStep ==
    Tokens /\ [SessNext]_sessVars => Tokens'
  <1> SUFFICES ASSUME Tokens, [SessNext]_sessVars PROVE Tokens'
    OBVIOUS
  <1>0. /\ auth \in [Session -> 0 .. tokens] /\ loggedOut \subseteq 1 .. tokens
        /\ \A t \in refresh : login[t] \notin loggedOut
    BY DEF Tokens, OneAlive
  <1>1. ASSUME UNCHANGED tokenVars PROVE Tokens'
    <2>1. UNCHANGED <<auth, refresh, tokens, login, exchanged, loggedOut>>
      BY <1>1 DEF tokenVars
    <2> QED BY <1>0, <2>1, KeysGo
  <1>2. ASSUME NEW t \in refresh, KeyExpires(t) PROVE Tokens'
    <2>1. refresh' \subseteq refresh /\ UNCHANGED <<auth, tokens, login, exchanged, loggedOut>>
      BY <1>2 DEF KeyExpires
    <2> QED BY <1>0, <2>1, KeysGo
  <1>3. ASSUME NEW c \in Socket,
               \/ Check(c) \/ Claim(c) \/ ListenKick(c) \/ Register(c)
               \/ Drop(c) \/ Unregister(c) \/ BeginHandoff(c)
        PROVE  UNCHANGED tokenVars
    BY <1>3 DEF Check, Claim, ListenKick, Register, Drop, Unregister, BeginHandoff
  <1>4. ASSUME NEW k, DeliverKick(k) \/ TicketExpires(k) PROVE UNCHANGED tokenVars
    BY <1>4 DEF DeliverKick, TicketExpires
  <1>5. UNCHANGED sessVars => UNCHANGED tokenVars
    BY DEF sessVars, tokenVars
  <1> QED BY <1>1, <1>2, <1>3, <1>4, <1>5, CreateStep, ExchangeStep, RecordExpiresStep, DeleteSessionStep
          DEF SessNext

LEMMA SocketStep ==
    Sockets /\ [SessNext]_sessVars => Sockets'
  <1> SUFFICES ASSUME Sockets, [SessNext]_sessVars PROVE Sockets'
    OBVIOUS
  <1> USE SessionAssumption DEF Sockets, Spared, Kick, Goes, SocketState
  <1>1. ASSUME UNCHANGED socketVars PROVE Sockets'
    BY <1>1 DEF socketVars
  <1>2. ASSUME NEW s \in Session, Create(s) \/ RecordExpires(s) \/ \E t \in 1 .. tokens : Exchange(s, t)
        PROVE  UNCHANGED socketVars
    BY <1>2 DEF Create, RecordExpires, Exchange
  <1>3. ASSUME NEW k, KeyExpires(k) PROVE UNCHANGED socketVars
    BY <1>3 DEF KeyExpires
  <1>4. ASSUME NEW s \in Session, DeleteSession(s) PROVE Sockets'
    BY <1>4 DEF DeleteSession
  <1>5. ASSUME NEW c \in Socket, Check(c) PROVE Sockets'
    BY <1>5 DEF Check
  <1>6. ASSUME NEW c \in Socket, Claim(c) PROVE Sockets'
    <2>1. SessionOf[c] \in Session /\ tickets' \subseteq tickets
      BY <1>6 DEF Claim
    <2>2. owner' = [owner EXCEPT ![SessionOf[c]] = [by |-> c, status |-> "ACTIVE"]]
      BY <1>6 DEF Claim
    <2>3. owner' \in [Session -> [by : Spared, status : {"ACTIVE", "HANDOFF_PENDING"}]]
      BY <2>1, <2>2
    <2> QED BY <1>6, <2>1, <2>3 DEF Claim
  <1>7. ASSUME NEW c \in Socket, ListenKick(c) \/ Drop(c) \/ Unregister(c) PROVE Sockets'
    BY <1>7 DEF ListenKick, Drop, Unregister
  <1>8. ASSUME NEW c \in Socket, Register(c) PROVE Sockets'
    BY <1>8 DEF Register
  <1>9. ASSUME NEW c \in Socket, BeginHandoff(c) PROVE Sockets'
    <2>1. /\ owner' = [owner EXCEPT ![SessionOf[c]].status = "HANDOFF_PENDING"]
          /\ tickets' = tickets \cup {[session |-> SessionOf[c], of |-> c]}
          /\ SessionOf[c] \in Session
      BY <1>9 DEF BeginHandoff
    <2>2. owner' \in [Session -> [by : Spared, status : {"ACTIVE", "HANDOFF_PENDING"}]]
      BY <2>1
    <2>3. tickets' \subseteq [session : Session, of : Socket]
      BY <2>1
    <2> QED BY <1>9, <2>2, <2>3 DEF BeginHandoff, Closing
  <1>10. ASSUME NEW k \in kicks, DeliverKick(k) PROVE Sockets'
    <2>1. socket' \in [Socket -> SocketState]
      BY <1>10 DEF DeliverKick, Closing
    <2> QED BY <1>10, <2>1 DEF DeliverKick
  <1>11. ASSUME NEW k \in tickets, TicketExpires(k) PROVE Sockets'
    BY <1>11 DEF TicketExpires
  <1>12. UNCHANGED sessVars => UNCHANGED socketVars
    BY DEF sessVars, socketVars
  <1> QED BY <1>1, <1>2, <1>3, <1>4, <1>5, <1>6, <1>7, <1>8, <1>9, <1>10, <1>11, <1>12 DEF SessNext

LEMMA SessInitInv == SessInit => SessInv
  BY SessionAssumption
  DEF SessInit, SessInv, Tokens, Sockets, OneAlive, Spent, Token, NoRecord, Spared, SocketState

LEMMA SessFrame == [Next]_gatewayVars => [SessNext]_sessVars
  BY DEF Next, gatewayVars, sessVars

\* The invariant of the sessions: a login has one live token at most, an exchanged
\* token and a login that was ended have none.
THEOREM SessionInvariant == Spec => []SessInv
  <1>1. Init => SessInv
    BY SessInitInv DEF Init
  <1>2. SessInv /\ [Next]_gatewayVars => SessInv'
    BY TokenStep, SocketStep, SessFrame DEF SessInv
  <1> QED BY <1>1, <1>2, PTL DEF Spec

\* A refresh token is accepted once, whatever session it is presented with, and a
\* login has one live token at most and none after its logout, however exchanges,
\* logins, logouts, old records and the expiry of either key alternate
\* (refresh_store.go: the rotate, migrate and delete scripts).
THEOREM TokensOnce == Spec => []TokensUsedOnce
  <1>1. SessInv => TokensUsedOnce
    <2> SUFFICES ASSUME SessInv PROVE TokensUsedOnce
      OBVIOUS
    <2>1. \A t \in Token : exchanged[t] <= 1 /\ (exchanged[t] = 1 => t \notin refresh)
      BY DEF SessInv, Tokens, Spent
    <2>2. /\ \A t, u \in refresh : login[t] = login[u] => t = u
          /\ \A t \in refresh : login[t] \notin loggedOut
      BY DEF SessInv, Tokens, OneAlive
    <2> QED BY <2>1, <2>2 DEF TokensUsedOnce
  <1> QED BY <1>1, SessionInvariant, PTL

-----------------------------------------------------------------------------
(* Cached reads.                                                             *)

Reading == [at : {"idle", "generation", "join", "wait", "fill", "done"}, gen : Int,
            cached : Int, value : Int, led : BOOLEAN]
Kept == [value : 0 .. MaxWrites, state : {"fresh", "stale", "corrupt"}, led : BOOLEAN]
Flown == [at : {"called", "read"}, joined : SUBSET Reader, value : Int]

\* The invalidations that have been, are still to come, and one that an unreadable
\* entry will bring.
Unreadable(e) == IF e # Absent /\ e.state = "corrupt" THEN 1 ELSE 0
Generations == generation + Cardinality(uncleared) + Unreadable(entry) <= version + cacheFaults

ReadTyped ==
    /\ version \in 0 .. MaxWrites /\ invalidated \in 0 .. version
    /\ uncleared \subseteq 1 .. version
    /\ entry = Absent \/ entry \in Kept
    /\ generation \in Nat /\ cacheFaults \in 0 .. MaxCacheFaults
    /\ reads \in [Reader -> Reading]
    /\ flight = Grounded \/ flight \in Flown

\* Under generation g, v is no older than the last invalidation.
Current(v, g) == v \in 0 .. version /\ (g = generation => v >= invalidated)

\* What a reader holds who has made the call itself.
Honest(r, q) ==
    /\ q.gen \in NoGen .. generation
    /\ q.at \in {"idle", "generation", "join"} => ~q.led
    /\ q.at = "fill" => q.value \in 0 .. version /\ (q.led => Current(q.value, q.gen))

\* What the call brings.
Brings(f, rs) ==
    f # Grounded =>
        /\ \A r \in f.joined : rs[r].at = "wait"
        /\ f.at = "read" =>
              /\ f.value \in 0 .. version
              /\ \A r \in f.joined : rs[r].led => Current(f.value, rs[r].gen)

ReadInv ==
    /\ ReadTyped
    /\ Generations
    /\ \A r \in Reader : Honest(r, reads[r])
    /\ Brings(flight, reads)
    /\ LedFillsAreCurrent

LEMMA WritesFinite == ReadInv => IsFiniteSet(uncleared) /\ Cardinality(uncleared) \in Nat
  <1> SUFFICES ASSUME ReadInv PROVE IsFiniteSet(uncleared) /\ Cardinality(uncleared) \in Nat
    OBVIOUS
  <1>1. version \in Int /\ uncleared \subseteq 1 .. version
    BY CacheAssumption DEF ReadInv, ReadTyped
  <1>2. IsFiniteSet(1 .. version)
    BY <1>1, FS_Interval
  <1>3. IsFiniteSet(uncleared)
    BY <1>1, <1>2, FS_Subset
  <1> QED BY <1>3, FS_CardinalityType

\* A step of one reader that leaves what is cached and called.
LEMMA ReaderStep ==
    ASSUME ReadInv, NEW r \in Reader, NEW q \in Reading, reads' = [reads EXCEPT ![r] = q],
           UNCHANGED <<version, uncleared, invalidated, generation, entry, flight>>,
           cacheFaults' \in cacheFaults .. MaxCacheFaults,
           reads[r].at # "wait", Honest(r, q)
    PROVE  ReadInv'
  <1>1. ReadTyped' /\ \A z \in Reader : reads'[z] = IF z = r THEN q ELSE reads[z]
    BY CacheAssumption DEF ReadInv, ReadTyped
  <1>2. Generations'
    BY WritesFinite DEF ReadInv, ReadTyped, Generations, Unreadable
  <1>3. ASSUME NEW z \in Reader PROVE Honest(z, reads[z])'
    BY <1>1 DEF ReadInv, Honest, Current
  <1>4. Brings(flight, reads)'
    <2>1. flight # Grounded => r \notin flight.joined /\ flight.joined \subseteq Reader
      BY DEF ReadInv, ReadTyped, Brings, Flown
    <2>2. flight # Grounded => \A z \in flight.joined : reads'[z] = reads[z]
      BY <1>1, <2>1
    <2> QED BY <2>2 DEF ReadInv, Brings, Current
  <1>5. LedFillsAreCurrent'
    BY DEF ReadInv, LedFillsAreCurrent
  <1> QED BY <1>1, <1>2, <1>3, <1>4, <1>5 DEF ReadInv

LEMMA CommitWriteStep == ReadInv /\ CommitWrite => ReadInv'
  <1> SUFFICES ASSUME ReadInv, CommitWrite PROVE ReadInv'
    OBVIOUS
  <1>1. /\ version \in Nat /\ version < MaxWrites /\ version' = version + 1
        /\ uncleared' = uncleared \cup {version + 1} /\ uncleared \subseteq 1 .. version
        /\ UNCHANGED <<entry, generation, invalidated, reads, flight, cacheFaults>>
    BY CacheAssumption DEF ReadInv, ReadTyped, CommitWrite
  <1>2. version + 1 \notin uncleared /\ invalidated \in 0 .. version
    BY <1>1 DEF ReadInv, ReadTyped
  <1>3. Cardinality(uncleared') = Cardinality(uncleared) + 1
    BY <1>1, <1>2, WritesFinite, FS_AddElement
  <1>4. ReadTyped'
    BY <1>1, <1>2, CacheAssumption DEF ReadInv, ReadTyped
  <1>5. Generations'
    BY <1>1, <1>3, WritesFinite DEF ReadInv, ReadTyped, Generations, Unreadable
  <1>6. \A v \in 0 .. version : \A g : Current(v, g) => Current(v, g)'
    BY <1>1 DEF Current
  <1>7. 0 .. version \subseteq 0 .. version'
    BY <1>1
  <1>8. ASSUME NEW r \in Reader PROVE Honest(r, reads[r])'
    BY <1>1, <1>6, <1>7 DEF ReadInv, Honest
  <1>9. Brings(flight, reads)'
    BY <1>1, <1>6, <1>7 DEF ReadInv, Brings
  <1>10. LedFillsAreCurrent'
    BY <1>1 DEF ReadInv, LedFillsAreCurrent
  <1> QED BY <1>4, <1>5, <1>8, <1>9, <1>10 DEF ReadInv

\* After an invalidation nobody's generation holds.
LEMMA InvalidatedStep ==
    ASSUME ReadInv, InvalidateKey, version' = version, flight' = flight,
           \A r \in Reader : Honest(r, reads'[r]), Brings(flight, reads'),
           ReadTyped', Generations'
    PROVE  ReadInv'
  <1>1. generation' = generation + 1 /\ generation \in Nat /\ entry' = Absent
    BY DEF InvalidateKey, ReadInv, ReadTyped
  <1>2. \A v \in 0 .. version, g \in NoGen .. generation : Current(v, g)'
    BY <1>1 DEF Current, NoGen
  <1>3. ASSUME NEW r \in Reader PROVE Honest(r, reads[r])'
    BY <1>1, <1>2 DEF Honest, NoGen
  <1>4. Brings(flight, reads)'
    <2>1. flight # Grounded => flight.joined \subseteq Reader
      BY DEF ReadInv, ReadTyped, Flown
    <2>2. \A r \in Reader : reads'[r].gen \in NoGen .. generation
      BY DEF Honest
    <2> QED BY <1>2, <2>1, <2>2 DEF Brings
  <1>5. LedFillsAreCurrent'
    BY <1>1 DEF LedFillsAreCurrent
  <1> QED BY <1>3, <1>4, <1>5 DEF ReadInv

LEMMA InvalidateStep ==
    ASSUME ReadInv, NEW w \in uncleared, Invalidate(w) PROVE ReadInv'
  <1>1. /\ uncleared' = uncleared \ {w} /\ UNCHANGED <<version, reads, flight>>
        /\ w \in 1 .. version /\ invalidated \in 0 .. version /\ version \in Nat
    BY CacheAssumption DEF Invalidate, ReadInv, ReadTyped
  <1>2. /\ Cardinality(uncleared') = Cardinality(uncleared) - 1
        /\ Cardinality(uncleared) \in Nat /\ Cardinality(uncleared') \in Nat
    BY <1>1, WritesFinite, FS_RemoveElement, FS_CardinalityType
  <1>3. CASE InvalidateKey /\ invalidated' = (IF w > invalidated THEN w ELSE invalidated) /\ UNCHANGED cacheFaults
    <2>1. generation' = generation + 1 /\ entry' = Absent /\ invalidated' \in 0 .. version
      BY <1>1, <1>3 DEF InvalidateKey
    <2>2. ReadTyped'
      BY <1>1, <1>3, <2>1 DEF ReadInv, ReadTyped
    <2>3. Generations'
      BY <1>1, <1>2, <1>3, <2>1 DEF ReadInv, ReadTyped, Generations, Unreadable
    <2>4. (\A r \in Reader : Honest(r, reads'[r])) /\ Brings(flight, reads')
      BY <1>1 DEF ReadInv
    <2> QED BY <1>1, <1>3, <2>2, <2>3, <2>4, InvalidatedStep
  <1>4. CASE CacheFault /\ UNCHANGED <<entry, generation, invalidated>>
    <2>1. cacheFaults' = cacheFaults + 1 /\ cacheFaults' \in 0 .. MaxCacheFaults
      BY <1>4, CacheAssumption DEF CacheFault, ReadInv, ReadTyped
    <2>2. ReadTyped'
      BY <1>1, <1>4, <2>1 DEF ReadInv, ReadTyped
    <2>3. Generations'
      BY <1>1, <1>2, <1>4, <2>1, CacheAssumption DEF ReadInv, ReadTyped, Generations, Unreadable
    <2>4. (\A r \in Reader : Honest(r, reads[r]))'
      BY <1>1, <1>4 DEF ReadInv, Honest, Current
    <2>5. Brings(flight, reads)' /\ LedFillsAreCurrent'
      BY <1>1, <1>4 DEF ReadInv, Brings, Current, LedFillsAreCurrent
    <2> QED BY <2>2, <2>3, <2>4, <2>5 DEF ReadInv
  <1> QED BY <1>3, <1>4 DEF Invalidate

\* The entry grows old or unreadable, and keeps its value.
LEMMA EntryStep ==
    ASSUME ReadInv, entry # Absent, entry' = Absent \/ entry' \in Kept,
           entry' # Absent => entry'.value = entry.value /\ entry'.led = entry.led,
           UNCHANGED <<version, uncleared, generation, invalidated, reads, flight>>,
           cacheFaults' \in 0 .. MaxCacheFaults,
           Unreadable(entry') - Unreadable(entry) <= cacheFaults' - cacheFaults
    PROVE  ReadInv'
  <1>1. ReadTyped'
    BY DEF ReadInv, ReadTyped
  <1>2. /\ Cardinality(uncleared) \in Nat /\ generation \in Int /\ version \in Int
        /\ cacheFaults \in Int /\ cacheFaults' \in Int
        /\ Unreadable(entry) \in Int /\ Unreadable(entry') \in Int
    BY WritesFinite, CacheAssumption DEF ReadInv, ReadTyped, Unreadable
  <1>3. Generations'
    <2>1. generation + Cardinality(uncleared) + Unreadable(entry) <= version + cacheFaults
      BY DEF ReadInv, Generations
    <2>2. generation + Cardinality(uncleared) + Unreadable(entry') <= version + cacheFaults'
      BY <1>2, <2>1
    <2> QED BY <2>2 DEF Generations, Unreadable
  <1>4. (\A r \in Reader : Honest(r, reads[r]))'
    BY DEF ReadInv, Honest, Current
  <1>5. Brings(flight, reads)' /\ LedFillsAreCurrent'
    BY DEF ReadInv, Brings, Current, LedFillsAreCurrent
  <1> QED BY <1>1, <1>3, <1>4, <1>5 DEF ReadInv

LEMMA AgeStep ==
    ASSUME ReadInv, Age \/ Corrupt PROVE ReadInv'
  <1>1. entry \in Kept /\ cacheFaults \in 0 .. MaxCacheFaults /\ MaxCacheFaults \in Nat
    BY CacheAssumption DEF ReadInv, ReadTyped, Age, Corrupt
  <1>2. CASE Age
    <2>1. /\ entry # Absent /\ UNCHANGED <<version, uncleared, generation, invalidated, reads, flight, cacheFaults>>
          /\ entry' = IF entry.state = "fresh" THEN [entry EXCEPT !.state = "stale"] ELSE Absent
      BY <1>2 DEF Age
    <2>2. /\ entry' = Absent \/ entry' \in Kept
          /\ entry' # Absent => entry'.value = entry.value /\ entry'.led = entry.led /\ entry'.state = "stale"
      BY <1>1, <2>1 DEF Kept
    <2>3. Unreadable(entry') = 0 /\ Unreadable(entry) \in {0, 1}
      BY <2>2 DEF Unreadable
    <2>4. Unreadable(entry') - Unreadable(entry) <= cacheFaults' - cacheFaults
      BY <1>1, <2>1, <2>3
    <2> QED BY <1>1, <2>1, <2>2, <2>4, EntryStep
  <1>3. CASE Corrupt
    <2>1. /\ entry # Absent /\ UNCHANGED <<version, uncleared, generation, invalidated, reads, flight>>
          /\ entry' = [entry EXCEPT !.state = "corrupt"] /\ cacheFaults' = cacheFaults + 1
          /\ cacheFaults' \in 0 .. MaxCacheFaults /\ entry.state # "corrupt"
      BY <1>1, <1>3 DEF Corrupt, CacheFault
    <2>2. entry' \in Kept /\ entry'.value = entry.value /\ entry'.led = entry.led
      BY <1>1, <2>1 DEF Kept
    <2>3. Unreadable(entry') \in {0, 1} /\ Unreadable(entry) = 0
      BY <2>1 DEF Unreadable
    <2>4. Unreadable(entry') - Unreadable(entry) <= cacheFaults' - cacheFaults
      BY <1>1, <2>1, <2>3
    <2> QED BY <2>1, <2>2, <2>4, EntryStep
  <1> QED BY <1>2, <1>3

LEMMA LoadStep ==
    ASSUME ReadInv, NEW r \in Reader, Load(r) PROVE ReadInv'
  <1>1. /\ reads[r] \in Reading /\ reads[r].at = "idle" /\ Honest(r, reads[r]) /\ ~reads[r].led
        /\ cacheFaults \in 0 .. MaxCacheFaults /\ MaxCacheFaults \in Nat
        /\ entry = Absent \/ entry \in Kept
        /\ UNCHANGED <<version, uncleared, invalidated, flight>>
    BY CacheAssumption DEF ReadInv, ReadTyped, Load, Here, Honest
  <1>2. ASSUME UNCHANGED <<entry, generation>>, cacheFaults' \in cacheFaults .. MaxCacheFaults,
               NEW a \in {"done", "generation", "join"}, NEW c \in Int, NEW v \in Int,
               reads' = [reads EXCEPT ![r] = [reads[r] EXCEPT !.at = a, !.cached = c, !.value = v]]
        PROVE  ReadInv'
    <2> DEFINE q == [reads[r] EXCEPT !.at = a, !.cached = c, !.value = v]
    <2>1. q \in Reading /\ q.at = a /\ q.gen = reads[r].gen /\ q.led = reads[r].led
      BY <1>1 DEF Reading
    <2>2. reads' = [reads EXCEPT ![r] = q]
      BY <1>2
    <2> HIDE DEF q
    <2>3. Honest(r, q)
      BY <1>1, <2>1 DEF Honest
    <2> QED BY <1>1, <1>2, <2>1, <2>2, <2>3, ReaderStep
  <1>3. cacheFaults \in cacheFaults .. MaxCacheFaults
    BY <1>1
  <1>4. CASE /\ entry # Absent /\ entry.state = "fresh"
             /\ reads' = [reads EXCEPT ![r].at = "done", ![r].value = entry.value]
             /\ UNCHANGED <<entry, generation, cacheFaults>>
    <2>1. entry.value \in Int /\ reads[r].cached \in Int
      BY <1>1, <1>4 DEF Kept, Reading
    <2>2. reads' = [reads EXCEPT ![r] = [reads[r] EXCEPT !.at = "done", !.cached = reads[r].cached, !.value = entry.value]]
      BY <1>1, <1>4 DEF ReadInv, ReadTyped, Reading
    <2> QED BY <1>2, <1>3, <1>4, <2>1, <2>2
  <1>5. CASE /\ entry # Absent /\ entry.state = "stale"
             /\ reads' = [reads EXCEPT ![r].at = "generation", ![r].cached = entry.value]
             /\ UNCHANGED <<entry, generation, cacheFaults>>
    <2>1. entry.value \in Int /\ reads[r].value \in Int
      BY <1>1, <1>5 DEF Kept, Reading
    <2>2. reads' = [reads EXCEPT ![r] = [reads[r] EXCEPT !.at = "generation", !.cached = entry.value, !.value = reads[r].value]]
      BY <1>1, <1>5 DEF ReadInv, ReadTyped, Reading
    <2> QED BY <1>2, <1>3, <1>5, <2>1, <2>2
  <1>6. CASE \E a \in {"generation", "join"} :
                 /\ At(r, a) /\ UNCHANGED <<entry, generation>>
                 /\ cacheFaults' \in cacheFaults .. MaxCacheFaults
    <2>1. PICK a \in {"generation", "join"} : At(r, a)
      BY <1>6
    <2>2. reads[r].value \in Int /\ reads[r].cached \in Int
      BY <1>1 DEF Reading
    <2>3. reads' = [reads EXCEPT ![r] = [reads[r] EXCEPT !.at = a, !.cached = reads[r].cached, !.value = reads[r].value]]
      BY <1>1, <2>1 DEF At, ReadInv, ReadTyped, Reading
    <2> QED BY <1>2, <1>6, <2>2, <2>3
  <1>7. CASE /\ entry # Absent /\ entry.state = "corrupt"
             /\ InvalidateKey /\ At(r, "join") /\ UNCHANGED cacheFaults
    <2> DEFINE q == [reads[r] EXCEPT !.at = "join"]
    <2>1. /\ q \in Reading /\ q.at = "join" /\ q.gen = reads[r].gen /\ q.led = reads[r].led
          /\ reads' = [reads EXCEPT ![r] = q]
      BY <1>1, <1>7 DEF Reading, At
    <2> HIDE DEF q
    <2>2. /\ reads' \in [Reader -> Reading]
          /\ \A z \in Reader : reads'[z] = IF z = r THEN q ELSE reads[z]
      BY <2>1 DEF ReadInv, ReadTyped
    <2>3. Honest(r, q)
      BY <1>1, <2>1 DEF Honest
    <2>4. (\A z \in Reader : Honest(z, reads'[z])) /\ Brings(flight, reads')
      <3>1. flight # Grounded => r \notin flight.joined /\ flight.joined \subseteq Reader
        BY <1>1 DEF ReadInv, ReadTyped, Brings, Flown
      <3>2. flight # Grounded => \A z \in flight.joined : reads'[z] = reads[z]
        BY <2>2, <3>1
      <3>3. Brings(flight, reads')
        BY <3>2 DEF ReadInv, Brings
      <3> QED BY <2>2, <2>3, <3>3 DEF ReadInv
    <2>5. generation' = generation + 1 /\ entry' = Absent /\ Unreadable(entry) = 1 /\ Unreadable(entry') = 0
      BY <1>7 DEF InvalidateKey, Unreadable
    <2>6. ReadTyped'
      BY <1>1, <1>7, <2>2, <2>5 DEF ReadInv, ReadTyped
    <2>7. generation \in Int /\ version \in Int /\ Cardinality(uncleared) \in Int /\ cacheFaults \in Int
      BY WritesFinite, CacheAssumption DEF ReadInv, ReadTyped
    <2>8. generation + Cardinality(uncleared) + Unreadable(entry) <= version + cacheFaults
      BY DEF ReadInv, Generations
    <2>9. generation' + Cardinality(uncleared) + Unreadable(entry') <= version + cacheFaults
      BY <2>5, <2>7, <2>8
    <2>10. Generations'
      BY <1>1, <1>7, <2>9 DEF Generations, Unreadable
    <2> QED BY <1>1, <1>7, <2>4, <2>6, <2>10, InvalidatedStep
  <1>8. CacheFault => cacheFaults' \in cacheFaults .. MaxCacheFaults
    BY <1>1 DEF CacheFault
  <1> QED BY <1>3, <1>4, <1>5, <1>6, <1>7, <1>8 DEF Load

LEMMA LoadGenerationStep ==
    ASSUME ReadInv, NEW r \in Reader, LoadGeneration(r) PROVE ReadInv'
  <1>1. /\ reads[r] \in Reading /\ reads[r].at = "generation" /\ Honest(r, reads[r]) /\ ~reads[r].led
        /\ cacheFaults \in 0 .. MaxCacheFaults /\ MaxCacheFaults \in Nat /\ generation \in Nat
        /\ UNCHANGED <<version, uncleared, entry, generation, invalidated, flight>>
    BY CacheAssumption DEF ReadInv, ReadTyped, LoadGeneration, Here, Honest
  <1>2. ASSUME cacheFaults' \in cacheFaults .. MaxCacheFaults,
               NEW g \in NoGen .. generation, NEW c \in Int,
               reads' = [reads EXCEPT ![r] = [reads[r] EXCEPT !.at = "join", !.gen = g, !.cached = c]]
        PROVE  ReadInv'
    <2> DEFINE q == [reads[r] EXCEPT !.at = "join", !.gen = g, !.cached = c]
    <2>1. q \in Reading /\ q.at = "join" /\ q.gen = g /\ q.led = reads[r].led
      <3>1. g \in Int
        BY <1>1 DEF NoGen
      <3> QED BY <1>1, <3>1 DEF Reading
    <2>2. reads' = [reads EXCEPT ![r] = q]
      BY <1>2
    <2> HIDE DEF q
    <2>3. Honest(r, q)
      BY <1>1, <2>1 DEF Honest
    <2> QED BY <1>1, <1>2, <2>1, <2>2, <2>3, ReaderStep
  <1>3. CASE /\ reads' = [reads EXCEPT ![r].at = "join", ![r].gen = generation] /\ UNCHANGED cacheFaults
    <2>1. /\ reads[r].cached \in Int /\ generation \in NoGen .. generation
          /\ cacheFaults' \in cacheFaults .. MaxCacheFaults
      BY <1>1, <1>3 DEF Reading, NoGen
    <2>2. reads' = [reads EXCEPT ![r] = [reads[r] EXCEPT !.at = "join", !.gen = generation, !.cached = reads[r].cached]]
      BY <1>1, <1>3 DEF ReadInv, ReadTyped, Reading
    <2> QED BY <1>2, <2>1, <2>2
  <1>4. CASE CacheFault /\ reads' = [reads EXCEPT ![r].at = "join", ![r].cached = -1]
    <2>1. /\ reads[r].gen \in NoGen .. generation /\ -1 \in Int
          /\ cacheFaults' \in cacheFaults .. MaxCacheFaults
      BY <1>1, <1>4 DEF Honest, CacheFault
    <2>2. reads' = [reads EXCEPT ![r] = [reads[r] EXCEPT !.at = "join", !.gen = reads[r].gen, !.cached = -1]]
      BY <1>1, <1>4 DEF ReadInv, ReadTyped, Reading
    <2> QED BY <1>2, <2>1, <2>2
  <1> QED BY <1>3, <1>4 DEF LoadGeneration

\* Steps of the shared call leave the entry and the generations.
LEMMA FlightStep ==
    ASSUME ReadInv, UNCHANGED <<version, uncleared, entry, generation, invalidated>>,
           cacheFaults' \in cacheFaults .. MaxCacheFaults,
           reads' \in [Reader -> Reading], flight' = Grounded \/ flight' \in Flown,
           \A r \in Reader : Honest(r, reads'[r]), Brings(flight', reads')
    PROVE  ReadInv'
  <1>1. ReadTyped'
    BY CacheAssumption DEF ReadInv, ReadTyped
  <1>2. Generations'
    BY WritesFinite, CacheAssumption DEF ReadInv, ReadTyped, Generations, Unreadable
  <1>3. (\A r \in Reader : Honest(r, reads[r]))'
    BY DEF Honest, Current
  <1>4. Brings(flight, reads)' /\ LedFillsAreCurrent'
    BY DEF ReadInv, Brings, Current, LedFillsAreCurrent
  <1> QED BY <1>1, <1>2, <1>3, <1>4 DEF ReadInv

LEMMA JoinStep ==
    ASSUME ReadInv, NEW r \in Reader, Join(r) PROVE ReadInv'
  <1> DEFINE q == [reads[r] EXCEPT !.at = "wait", !.led = (flight = Grounded)]
  <1>1. /\ reads \in [Reader -> Reading] /\ reads[r] \in Reading /\ reads[r].at = "join"
        /\ \A z \in Reader : Honest(z, reads[z])
        /\ flight = Grounded \/ flight \in Flown
        /\ UNCHANGED <<version, uncleared, entry, generation, invalidated>>
        /\ cacheFaults' \in cacheFaults .. MaxCacheFaults
    BY CacheAssumption DEF ReadInv, ReadTyped, Join, Here
  <1>2. q \in Reading /\ q.at = "wait" /\ q.gen = reads[r].gen /\ q.led = (flight = Grounded)
    BY <1>1 DEF Reading
  <1>3. reads' = [reads EXCEPT ![r] = q]
    BY <1>1 DEF Join, Reading
  <1> HIDE DEF q
  <1>4. /\ reads' \in [Reader -> Reading]
        /\ \A z \in Reader : reads'[z] = IF z = r THEN q ELSE reads[z]
    BY <1>1, <1>2, <1>3
  <1>5. \A z \in Reader : Honest(z, reads'[z])
    BY <1>1, <1>2, <1>4 DEF Honest
  <1>6. CASE flight = Grounded
    <2>1. flight' = [at |-> "called", joined |-> {r}, value |-> -1]
      BY <1>6 DEF Join
    <2>2. flight' \in Flown /\ Brings(flight', reads')
      BY <1>2, <1>4, <2>1 DEF Flown, Brings
    <2> QED BY <1>1, <1>4, <1>5, <2>2, FlightStep
  <1>7. CASE flight # Grounded
    <2>1. flight' = [flight EXCEPT !.joined = @ \cup {r}]
      BY <1>7 DEF Join
    <2>2. /\ flight' \in Flown /\ flight'.at = flight.at /\ flight'.value = flight.value
          /\ flight'.joined = flight.joined \cup {r} /\ flight.joined \subseteq Reader
      BY <1>1, <1>7, <2>1 DEF Flown
    <2>3. ~q.led
      BY <1>2, <1>7
    <2>4. Brings(flight', reads')
      BY <1>2, <1>4, <1>7, <2>2, <2>3 DEF ReadInv, Brings
    <2> QED BY <1>1, <1>4, <1>5, <2>2, <2>4, FlightStep
  <1> QED BY <1>6, <1>7

\* What gamesvr reads after a reader has taken its generation is current under it.
LEMMA ReadRowStep == ReadInv /\ ReadRow => ReadInv'
  <1> SUFFICES ASSUME ReadInv, ReadRow PROVE ReadInv'
    OBVIOUS
  <1>1. /\ flight.at = "called" /\ flight' = [flight EXCEPT !.at = "read", !.value = version]
        /\ UNCHANGED <<version, uncleared, entry, generation, invalidated, reads, cacheFaults>>
    BY DEF ReadRow
  <1>2. flight # Grounded
    <2>1. Grounded.at = "no call"
      BY DEF Grounded
    <2> QED BY <1>1, <2>1
  <1>3. /\ flight \in Flown /\ version \in Int /\ version \in Nat /\ invalidated \in 0 .. version
        /\ cacheFaults' \in cacheFaults .. MaxCacheFaults /\ reads' \in [Reader -> Reading]
    BY <1>1, <1>2, CacheAssumption DEF ReadInv, ReadTyped
  <1>4. /\ flight' \in Flown /\ flight'.at = "read" /\ flight'.value = version
        /\ flight'.joined = flight.joined
    BY <1>1, <1>3 DEF Flown
  <1>5. \A g : Current(version, g)
    BY <1>3 DEF Current
  <1>6. Brings(flight', reads')
    BY <1>1, <1>2, <1>3, <1>4, <1>5 DEF ReadInv, Brings
  <1>7. \A r \in Reader : Honest(r, reads'[r])
    BY <1>1 DEF ReadInv
  <1> QED BY <1>1, <1>3, <1>4, <1>6, <1>7, FlightStep

\* Whoever joined has waited, and gets what the call brought.
LEMMA AnswerStep == ReadInv /\ (Answer \/ AnswerError) => ReadInv'
  <1> SUFFICES ASSUME ReadInv, Answer \/ AnswerError PROVE ReadInv'
    OBVIOUS
  <1>1. /\ flight.at # "no call" /\ flight' = Grounded
        /\ UNCHANGED <<version, uncleared, entry, generation, invalidated>>
        /\ cacheFaults' \in cacheFaults .. MaxCacheFaults
    <2>1. cacheFaults \in 0 .. MaxCacheFaults /\ MaxCacheFaults \in Nat
      BY CacheAssumption DEF ReadInv, ReadTyped
    <2>2. CacheFault \/ cacheFaults' = cacheFaults
      BY DEF Answer, AnswerError
    <2>3. cacheFaults' \in cacheFaults .. MaxCacheFaults
      BY <2>1, <2>2 DEF CacheFault
    <2> QED BY <2>3 DEF Answer, AnswerError
  <1>2. /\ flight # Grounded /\ flight \in Flown /\ reads \in [Reader -> Reading]
        /\ \A r \in Reader : Honest(r, reads[r])
    <2>1. Grounded.at = "no call"
      BY DEF Grounded
    <2> QED BY <1>1, <2>1 DEF ReadInv, ReadTyped
  <1>3. Brings(flight', reads')
    BY <1>1 DEF Brings
  <1>4. CASE Answer
    <2>1. /\ flight.at = "read"
          /\ reads' = [r \in Reader |-> IF r \in flight.joined
                          THEN [reads[r] EXCEPT !.at = "fill", !.value = flight.value] ELSE reads[r]]
      BY <1>4 DEF Answer
    <2>2. flight.value \in Int /\ flight.value \in 0 .. version
      BY <1>2, <2>1 DEF ReadInv, Brings, Flown
    <2>3. ASSUME NEW r \in Reader PROVE reads'[r] \in Reading /\ Honest(r, reads'[r])
      <3> DEFINE q == [reads[r] EXCEPT !.at = "fill", !.value = flight.value]
      <3>1. reads[r] \in Reading /\ Honest(r, reads[r])
        BY <1>2
      <3>2. CASE r \in flight.joined
        <4>1. reads'[r] = q
          BY <2>1, <3>2
        <4>2. /\ q \in Reading /\ q.at = "fill" /\ q.value = flight.value
              /\ q.gen = reads[r].gen /\ q.led = reads[r].led
          BY <2>2, <3>1 DEF Reading
        <4> HIDE DEF q
        <4>3. q.led => Current(q.value, q.gen)
          BY <1>2, <2>1, <3>2, <4>2 DEF ReadInv, Brings
        <4>4. Honest(r, q)
          BY <2>2, <3>1, <4>2, <4>3 DEF Honest
        <4> QED BY <4>1, <4>2, <4>4
      <3>3. CASE r \notin flight.joined
        BY <2>1, <3>1, <3>3
      <3> QED BY <3>2, <3>3
    <2>4. reads' \in [Reader -> Reading]
      BY <2>1, <2>3
    <2> QED BY <1>1, <1>3, <2>3, <2>4, FlightStep
  <1>5. CASE AnswerError
    <2>1. PICK stale \in BOOLEAN :
             reads' = [r \in Reader |-> IF r \in flight.joined
                THEN [reads[r] EXCEPT !.at = "done", !.value = IF stale THEN reads[r].cached ELSE -1]
                ELSE reads[r]]
      BY <1>5 DEF AnswerError
    <2>2. ASSUME NEW r \in Reader PROVE reads'[r] \in Reading /\ Honest(r, reads'[r])
      <3> DEFINE v == IF stale THEN reads[r].cached ELSE -1
                 q == [reads[r] EXCEPT !.at = "done", !.value = v]
      <3>1. reads[r] \in Reading /\ Honest(r, reads[r])
        BY <1>2
      <3>2. CASE r \in flight.joined
        <4>1. reads'[r] = q
          BY <2>1, <3>2
        <4>2. v \in Int
          BY <3>1 DEF Reading
        <4> HIDE DEF v
        <4>3. q \in Reading /\ q.at = "done" /\ q.gen = reads[r].gen
          BY <3>1, <4>2 DEF Reading
        <4> HIDE DEF q
        <4>4. Honest(r, q)
          BY <3>1, <4>3 DEF Honest
        <4> QED BY <4>1, <4>3, <4>4
      <3>3. CASE r \notin flight.joined
        BY <2>1, <3>1, <3>3
      <3> QED BY <3>2, <3>3
    <2>3. reads' \in [Reader -> Reading]
      BY <2>1, <2>2
    <2> QED BY <1>1, <1>3, <2>2, <2>3, FlightStep
  <1> QED BY <1>4, <1>5

\* What is stored under the present generation is current.
LEMMA FillStep ==
    ASSUME ReadInv, NEW r \in Reader, Fill(r) PROVE ReadInv'
  <1> DEFINE q == [reads[r] EXCEPT !.at = "done"]
  <1>1. /\ reads \in [Reader -> Reading] /\ reads[r] \in Reading /\ reads[r].at = "fill"
        /\ Honest(r, reads[r])
        /\ flight = Grounded \/ flight \in Flown
        /\ version \in 0 .. MaxWrites /\ MaxWrites \in Nat
        /\ cacheFaults \in 0 .. MaxCacheFaults /\ MaxCacheFaults \in Nat
        /\ UNCHANGED <<version, uncleared, generation, invalidated, flight>>
        /\ reads' = [reads EXCEPT ![r].at = "done"]
    BY CacheAssumption DEF ReadInv, ReadTyped, Fill, Here, At
  <1>2. /\ q \in Reading /\ q.at = "done" /\ q.gen = reads[r].gen
        /\ reads' = [reads EXCEPT ![r] = q]
    BY <1>1 DEF Reading
  <1> HIDE DEF q
  <1>3. Honest(r, q)
    BY <1>1, <1>2 DEF Honest
  <1>4. CASE UNCHANGED entry /\ cacheFaults' \in cacheFaults .. MaxCacheFaults
    BY <1>1, <1>2, <1>3, <1>4, ReaderStep
  <1>5. CASE /\ reads[r].gen = generation /\ UNCHANGED cacheFaults
             /\ entry' = [value |-> reads[r].value, state |-> "fresh", led |-> reads[r].led]
    <2>1. /\ reads[r].value \in 0 .. version /\ reads[r].led \in BOOLEAN
          /\ reads[r].led => reads[r].value >= invalidated
      BY <1>1, <1>5 DEF Honest, Current, Reading
    <2>2. /\ entry' \in Kept /\ entry'.value = reads[r].value /\ entry'.led = reads[r].led
          /\ entry'.state = "fresh"
      BY <1>1, <1>5, <2>1 DEF Kept
    <2>3. /\ reads' \in [Reader -> Reading]
          /\ \A z \in Reader : reads'[z] = IF z = r THEN q ELSE reads[z]
      BY <1>1, <1>2
    <2>4. ReadTyped'
      BY <1>1, <1>5, <2>2, <2>3 DEF ReadInv, ReadTyped
    <2>5. Generations'
      <3>1. /\ generation \in Int /\ version \in Int /\ Cardinality(uncleared) \in Int
            /\ cacheFaults \in Int /\ Unreadable(entry') = 0 /\ Unreadable(entry) \in {0, 1}
        BY <1>1, <2>2, WritesFinite DEF ReadInv, ReadTyped, Unreadable
      <3>2. generation + Cardinality(uncleared) + Unreadable(entry) <= version + cacheFaults
        BY DEF ReadInv, Generations
      <3>3. generation + Cardinality(uncleared) + Unreadable(entry') <= version + cacheFaults
        BY <3>1, <3>2
      <3> QED BY <1>1, <1>5, <3>3 DEF Generations, Unreadable
    <2>6. ASSUME NEW z \in Reader PROVE Honest(z, reads[z])'
      <3>1. Honest(z, reads'[z])
        BY <1>3, <2>3 DEF ReadInv
      <3> QED BY <1>1, <3>1 DEF Honest, Current
    <2>7. Brings(flight, reads)'
      <3>1. flight # Grounded => r \notin flight.joined /\ flight.joined \subseteq Reader
        BY <1>1 DEF ReadInv, Brings, Flown
      <3>2. flight # Grounded => \A z \in flight.joined : reads'[z] = reads[z]
        BY <2>3, <3>1
      <3> QED BY <1>1, <3>2 DEF ReadInv, Brings, Current
    <2>8. LedFillsAreCurrent'
      BY <1>1, <2>1, <2>2 DEF LedFillsAreCurrent
    <2> QED BY <2>4, <2>5, <2>6, <2>7, <2>8 DEF ReadInv
  <1>6. cacheFaults \in cacheFaults .. MaxCacheFaults
    BY <1>1
  <1>7. CacheFault => cacheFaults' \in cacheFaults .. MaxCacheFaults
    BY <1>1 DEF CacheFault
  <1> QED BY <1>4, <1>5, <1>6, <1>7 DEF Fill, GenerationHolds

LEMMA ReadInitInv == ReadInit => ReadInv
  <1> SUFFICES ASSUME ReadInit PROVE ReadInv
    OBVIOUS
  <1>1. ReadTyped /\ entry = Absent /\ flight = Grounded
    BY CacheAssumption DEF ReadInit, ReadTyped, Reading, NoGen
  <1>2. Generations
    <2>1. Cardinality(uncleared) = 0
      BY FS_EmptySet DEF ReadInit
    <2> QED BY <1>1, <2>1 DEF ReadInit, Generations, Unreadable
  <1>3. \A r \in Reader : Honest(r, reads[r])
    BY DEF ReadInit, Honest, NoGen
  <1> QED BY <1>1, <1>2, <1>3 DEF ReadInv, Brings, LedFillsAreCurrent

LEMMA ReadNextInv == ReadInv /\ [ReadNext]_cacheVars => ReadInv'
  <1> SUFFICES ASSUME ReadInv, [ReadNext]_cacheVars PROVE ReadInv'
    OBVIOUS
  <1>1. ASSUME UNCHANGED cacheVars PROVE ReadInv'
    BY <1>1 DEF cacheVars, ReadInv, ReadTyped, Generations, Unreadable, Honest, Current,
                Brings, LedFillsAreCurrent
  <1> QED BY <1>1, CommitWriteStep, InvalidateStep, AgeStep, LoadStep, LoadGenerationStep,
             JoinStep, ReadRowStep, AnswerStep, FillStep DEF ReadNext

LEMMA ReadFrame == [Next]_gatewayVars => [ReadNext]_cacheVars
  BY DEF Next, gatewayVars, cacheVars

\* The invariant of the cached reads: the generation has room for the invalidations
\* to come, no reader's generation is ahead of it, and what the reader that made the
\* call holds is current under its generation.
THEOREM ReadInvariant == Spec => []ReadInv
  <1>1. Init => ReadInv
    BY ReadInitInv DEF Init
  <1>2. ReadInv /\ [Next]_gatewayVars => ReadInv'
    BY ReadNextInv, ReadFrame
  <1> QED BY <1>1, <1>2, PTL DEF Spec

\* What a reader that made the call itself has stored is never older than an
\* invalidation that succeeded (read_cache.go:37), whatever Redis errors, unreadable
\* entries and readers that share the call come in between.
THEOREM LedFillsHold == Spec => []LedFillsAreCurrent
  <1>1. ReadInv => LedFillsAreCurrent
    BY DEF ReadInv
  <1> QED BY <1>1, ReadInvariant, PTL

-----------------------------------------------------------------------------
(* Viewers.                                                                  *)

Hook == {"sub", "unsub"} \X Farm
Owes(s, h) == \E k \in DOMAIN s : s[k] = h
OnceEach(s) == \A j, k \in DOMAIN s : s[j] = s[k] => j = k

\* Connections that still owe the subscriber a reference to f, or its end.
Entering(f) == {c \in Conn : Owes(hooks[c], <<"sub", f>>)}
Leaving(f) == {c \in Conn : Owes(hooks[c], <<"unsub", f>>)}
Watched(f) == IF Viewers(f) = {} THEN 0 ELSE 1

HubTyped ==
    /\ watching \in [Conn -> Farm \cup {NoFarm}]
    /\ hooks \in [Conn -> Seq(Hook)]
    /\ refs \in [Farm -> Nat]
    /\ channels \subseteq Farm

\* What a connection owes, it owes once; it waits on the farm it has entered, and
\* only one connection is the first on a farm.
Hooked ==
    /\ \A c \in Conn : OnceEach(hooks[c])
    /\ \A f \in Farm : \A c \in Entering(f) : watching[c] = f
    /\ \A f \in Farm : \A c, d \in Entering(f) : c = d

\* The references and what is owed add up to the farms that are watched.
AddsUp(f) == refs[f] + Cardinality(Entering(f)) = Cardinality(Leaving(f)) + Watched(f)

\* Whatever is counted is listened to.
Heard == connected => \A f \in Farm : refs[f] > 0 => f \in channels

HubInv == HubTyped /\ Hooked /\ (\A f \in Farm : AddsUp(f)) /\ Heard

LEMMA OwesTwo ==
    ASSUME NEW s \in Seq(Hook), NEW t \in Seq(Hook)
    PROVE  \A h : Owes(s \o t, h) <=> Owes(s, h) \/ Owes(t, h)
  <1>1. /\ Len(s) \in Nat /\ Len(t) \in Nat /\ Len(s \o t) = Len(s) + Len(t)
        /\ DOMAIN s = 1 .. Len(s) /\ DOMAIN t = 1 .. Len(t)
        /\ DOMAIN (s \o t) = 1 .. Len(s) + Len(t)
        /\ \A k \in 1 .. Len(s) : (s \o t)[k] = s[k]
        /\ \A k \in 1 .. Len(t) : (s \o t)[Len(s) + k] = t[k]
    OBVIOUS
  <1>2. ASSUME NEW h, Owes(s, h) PROVE Owes(s \o t, h)
    BY <1>1, <1>2 DEF Owes
  <1>3. ASSUME NEW h, Owes(t, h) PROVE Owes(s \o t, h)
    <2>1. PICK k \in 1 .. Len(t) : t[k] = h
      BY <1>1, <1>3 DEF Owes
    <2>2. Len(s) + k \in 1 .. Len(s) + Len(t) /\ (s \o t)[Len(s) + k] = h
      BY <1>1, <2>1
    <2> QED BY <1>1, <2>2 DEF Owes
  <1>4. ASSUME NEW h, Owes(s \o t, h) PROVE Owes(s, h) \/ Owes(t, h)
    <2>1. PICK k \in 1 .. Len(s) + Len(t) : (s \o t)[k] = h
      BY <1>1, <1>4 DEF Owes
    <2>2. CASE k <= Len(s)
      BY <1>1, <2>1, <2>2 DEF Owes
    <2>3. CASE k > Len(s)
      <3>1. k - Len(s) \in 1 .. Len(t) /\ k = Len(s) + (k - Len(s))
        BY <1>1, <2>1, <2>3
      <3>2. t[k - Len(s)] = h
        BY <1>1, <2>1, <3>1
      <3> QED BY <1>1, <3>1, <3>2 DEF Owes
    <2> QED BY <1>1, <2>1, <2>2, <2>3
  <1> QED BY <1>2, <1>3, <1>4

LEMMA OwesRest ==
    ASSUME NEW s \in Seq(Hook), s # <<>>, OnceEach(s)
    PROVE  /\ Tail(s) \in Seq(Hook) /\ OnceEach(Tail(s)) /\ Owes(s, Head(s)) /\ Head(s) \in Hook
           /\ \A h : Owes(Tail(s), h) <=> Owes(s, h) /\ h # Head(s)
  <1>1. /\ Len(s) \in Nat /\ Len(s) >= 1 /\ DOMAIN s = 1 .. Len(s) /\ Head(s) = s[1]
        /\ Tail(s) \in Seq(Hook) /\ Len(Tail(s)) = Len(s) - 1 /\ DOMAIN Tail(s) = 1 .. Len(s) - 1
        /\ \A k \in 1 .. Len(s) - 1 : Tail(s)[k] = s[k + 1]
        /\ s[1] \in Hook
    OBVIOUS
  <1>2. OnceEach(Tail(s))
    <2> SUFFICES ASSUME NEW j \in 1 .. Len(s) - 1, NEW k \in 1 .. Len(s) - 1,
                        Tail(s)[j] = Tail(s)[k]
                 PROVE  j = k
      BY <1>1 DEF OnceEach
    <2>1. j + 1 \in DOMAIN s /\ k + 1 \in DOMAIN s /\ s[j + 1] = s[k + 1]
      BY <1>1
    <2>2. j + 1 = k + 1
      BY <2>1 DEF OnceEach
    <2> QED BY <2>2
  <1>3. Owes(s, Head(s))
    BY <1>1 DEF Owes
  <1>4. ASSUME NEW h, Owes(Tail(s), h) PROVE Owes(s, h) /\ h # Head(s)
    <2>1. PICK k \in 1 .. Len(s) - 1 : Tail(s)[k] = h
      BY <1>1, <1>4 DEF Owes
    <2>2. k + 1 \in DOMAIN s /\ 1 \in DOMAIN s /\ s[k + 1] = h /\ k + 1 # 1
      BY <1>1, <2>1
    <2> QED BY <1>1, <2>2 DEF Owes, OnceEach
  <1>5. ASSUME NEW h, Owes(s, h), h # Head(s) PROVE Owes(Tail(s), h)
    <2>1. PICK k \in 1 .. Len(s) : s[k] = h
      BY <1>1, <1>5 DEF Owes
    <2>2. k # 1
      BY <1>1, <1>5, <2>1
    <2>3. k - 1 \in 1 .. Len(s) - 1 /\ k = (k - 1) + 1
      BY <1>1, <2>1, <2>2
    <2>4. Tail(s)[k - 1] = h
      BY <1>1, <2>1, <2>3
    <2> QED BY <1>1, <2>3, <2>4 DEF Owes
  <1> QED BY <1>1, <1>2, <1>3, <1>4, <1>5

LEMMA OwersFinite ==
    ASSUME NEW f \in Farm
    PROVE  /\ IsFiniteSet(Entering(f)) /\ Cardinality(Entering(f)) \in Nat
           /\ IsFiniteSet(Leaving(f)) /\ Cardinality(Leaving(f)) \in Nat
  <1>1. Entering(f) \subseteq Conn /\ Leaving(f) \subseteq Conn
    BY DEF Entering, Leaving
  <1> HIDE DEF Entering, Leaving
  <1> QED BY <1>1, HubAssumption, FS_Subset, FS_CardinalityType

\* Nothing that is counted changes.
LEMMA HubStill ==
    ASSUME HubInv, UNCHANGED <<watching, hooks, refs>>, channels' \subseteq Farm, Heard'
    PROVE  HubInv'
  BY DEF HubInv, HubTyped, Hooked, AddsUp, Entering, Leaving, Watched, Viewers

\* A connection without debts changes its farm, and owes what that takes.
LEMMA HubMove ==
    ASSUME HubInv, NEW c \in Conn, hooks[c] = <<>>, NEW to \in Farm \cup {NoFarm},
           to # watching[c] \/ to = NoFarm,
           NEW s \in Seq(Hook), OnceEach(s),
           \A f \in Farm : Owes(s, <<"unsub", f>>) <=> f = watching[c] /\ Viewers(f) = {c},
           \A f \in Farm : Owes(s, <<"sub", f>>) <=> f = to /\ Viewers(f) = {},
           watching' = [watching EXCEPT ![c] = to], hooks' = [hooks EXCEPT ![c] = s],
           UNCHANGED <<refs, channels, connected>>
    PROVE  HubInv'
  <1>1. /\ watching \in [Conn -> Farm \cup {NoFarm}] /\ hooks \in [Conn -> Seq(Hook)]
        /\ refs \in [Farm -> Nat] /\ NoFarm \notin Farm
    BY HubAssumption DEF HubInv, HubTyped
  <1>2. /\ \A d \in Conn : watching'[d] = IF d = c THEN to ELSE watching[d]
        /\ \A d \in Conn : hooks'[d] = IF d = c THEN s ELSE hooks[d]
    BY <1>1
  <1>3. \A h : ~Owes(hooks[c], h)
    BY DEF Owes
  <1>4. HubTyped'
    BY <1>1 DEF HubInv, HubTyped
  <1>5. ASSUME NEW f \in Farm
        PROVE  /\ Entering(f)' = IF f = to /\ Viewers(f) = {} THEN Entering(f) \cup {c} ELSE Entering(f)
               /\ Leaving(f)' = IF f = watching[c] /\ Viewers(f) = {c} THEN Leaving(f) \cup {c} ELSE Leaving(f)
               /\ c \notin Entering(f) /\ c \notin Leaving(f)
               /\ Viewers(f)' = IF f = to THEN Viewers(f) \cup {c} ELSE Viewers(f) \ {c}
    <2>1. Viewers(f)' = IF f = to THEN Viewers(f) \cup {c} ELSE Viewers(f) \ {c}
      BY <1>2 DEF Viewers
    <2>2. c \notin Entering(f) /\ c \notin Leaving(f)
      BY <1>3 DEF Entering, Leaving
    <2>3. Entering(f)' = IF f = to /\ Viewers(f) = {} THEN Entering(f) \cup {c} ELSE Entering(f)
      BY <1>2, <1>3 DEF Entering
    <2>4. Leaving(f)' = IF f = watching[c] /\ Viewers(f) = {c} THEN Leaving(f) \cup {c} ELSE Leaving(f)
      BY <1>2, <1>3 DEF Leaving
    <2> QED BY <2>1, <2>2, <2>3, <2>4
  <1>6. Hooked'
    <2>1. \A d \in Conn : OnceEach(hooks'[d])
      BY <1>2 DEF HubInv, Hooked
    <2>2. ASSUME NEW f \in Farm, NEW d \in Entering(f)' PROVE watching'[d] = f
      BY <1>2, <1>5, <2>2 DEF HubInv, Hooked, Entering
    <2>3. ASSUME NEW f \in Farm, NEW d \in Entering(f)', NEW e \in Entering(f)' PROVE d = e
      <3>1. CASE f = to /\ Viewers(f) = {}
        <4>1. Entering(f) = {}
          BY <3>1 DEF HubInv, Hooked, Entering, Viewers
        <4> QED BY <1>5, <2>3, <3>1, <4>1
      <3>2. CASE ~(f = to /\ Viewers(f) = {})
        BY <1>5, <2>3, <3>2 DEF HubInv, Hooked
      <3> QED BY <3>1, <3>2
    <2> QED BY <2>1, <2>2, <2>3 DEF Hooked
  <1>7. ASSUME NEW f \in Farm PROVE AddsUp(f)'
    <2>1. /\ refs'[f] = refs[f] /\ refs[f] \in Nat
          /\ refs[f] + Cardinality(Entering(f)) = Cardinality(Leaving(f)) + Watched(f)
          /\ IsFiniteSet(Entering(f)) /\ Cardinality(Entering(f)) \in Nat
          /\ IsFiniteSet(Leaving(f)) /\ Cardinality(Leaving(f)) \in Nat
      BY <1>1, OwersFinite DEF HubInv, AddsUp
    <2>2. c \in Viewers(f) <=> f = watching[c]
      BY DEF Viewers
    <2>3. CASE f = to /\ Viewers(f) = {}
      <3>1. f # watching[c]
        BY <2>2, <2>3
      <3>2. Watched(f) = 0 /\ Watched(f)' = 1 /\ Leaving(f)' = Leaving(f)
        BY <1>5, <2>3, <3>1 DEF Watched
      <3>3. Entering(f)' = Entering(f) \cup {c} /\ c \notin Entering(f)
        BY <1>5, <2>3
      <3>4. Cardinality(Entering(f)') = Cardinality(Entering(f)) + 1
        BY <2>1, <3>3, FS_AddElement
      <3>5. refs'[f] + Cardinality(Entering(f)') = Cardinality(Leaving(f)') + Watched(f)'
        BY <2>1, <3>2, <3>4
      <3> QED BY <3>5 DEF AddsUp
    <2>4. CASE f = watching[c] /\ Viewers(f) = {c}
      <3>1. f # to
        BY <1>1, <2>4
      <3>2. Watched(f) = 1 /\ Watched(f)' = 0 /\ Entering(f)' = Entering(f)
        BY <1>5, <2>4, <3>1 DEF Watched
      <3>3. Leaving(f)' = Leaving(f) \cup {c} /\ c \notin Leaving(f)
        BY <1>5, <2>4
      <3>4. Cardinality(Leaving(f)') = Cardinality(Leaving(f)) + 1
        BY <2>1, <3>3, FS_AddElement
      <3>5. refs'[f] + Cardinality(Entering(f)') = Cardinality(Leaving(f)') + Watched(f)'
        BY <2>1, <3>2, <3>4
      <3> QED BY <3>5 DEF AddsUp
    <2>5. CASE ~(f = to /\ Viewers(f) = {}) /\ ~(f = watching[c] /\ Viewers(f) = {c})
      <3>1. Entering(f)' = Entering(f) /\ Leaving(f)' = Leaving(f)
        BY <1>5, <2>5
      <3>2. Viewers(f) = {} <=> Viewers(f)' = {}
        BY <1>5, <2>2, <2>5
      <3>3. Watched(f)' = Watched(f)
        BY <3>2 DEF Watched
      <3>4. refs'[f] + Cardinality(Entering(f)') = Cardinality(Leaving(f)') + Watched(f)'
        BY <2>1, <3>1, <3>3
      <3> QED BY <3>4 DEF AddsUp
    <2> QED BY <2>3, <2>4, <2>5
  <1>8. Heard'
    BY DEF HubInv, Heard
  <1> QED BY <1>4, <1>6, <1>7, <1>8 DEF HubInv

\* What Subscribe and Unsubscribe make a connection owe.
LEMMA LeftOwes ==
    ASSUME HubInv, NEW c \in Conn
    PROVE  /\ Left(c) \in Seq(Hook) /\ OnceEach(Left(c))
           /\ \A f \in Farm : Owes(Left(c), <<"unsub", f>>) <=> f = watching[c] /\ Viewers(f) = {c}
           /\ \A f \in Farm : ~Owes(Left(c), <<"sub", f>>)
  <1>1. watching[c] \in Farm \cup {NoFarm} /\ NoFarm \notin Farm
    BY HubAssumption DEF HubInv, HubTyped
  <1>2. CASE watching[c] # NoFarm /\ Viewers(watching[c]) = {c}
    <2>1. Left(c) = <<<<"unsub", watching[c]>>>> /\ watching[c] \in Farm
      BY <1>1, <1>2 DEF Left
    <2>2. Left(c) \in Seq(Hook) /\ OnceEach(Left(c))
      BY <2>1 DEF Hook, OnceEach
    <2>3. \A h : Owes(Left(c), h) <=> h = <<"unsub", watching[c]>>
      BY <2>1 DEF Owes
    <2> QED BY <1>2, <2>1, <2>2, <2>3
  <1>3. CASE ~(watching[c] # NoFarm /\ Viewers(watching[c]) = {c})
    <2>1. Left(c) = <<>>
      BY <1>3 DEF Left
    <2>2. \A h : ~Owes(Left(c), h)
      BY <2>1 DEF Owes
    <2> QED BY <1>1, <1>3, <2>1, <2>2 DEF OnceEach
  <1> QED BY <1>2, <1>3

LEMMA EnteredOwes ==
    ASSUME NEW to \in Farm
    PROVE  /\ Entered(to) \in Seq(Hook) /\ OnceEach(Entered(to)) /\ Len(Entered(to)) <= 1
           /\ \A f \in Farm : Owes(Entered(to), <<"sub", f>>) <=> f = to /\ Viewers(f) = {}
           /\ \A f \in Farm : ~Owes(Entered(to), <<"unsub", f>>)
  <1>1. CASE Viewers(to) = {}
    <2>1. Entered(to) = <<<<"sub", to>>>>
      BY <1>1 DEF Entered
    <2>2. Entered(to) \in Seq(Hook) /\ OnceEach(Entered(to)) /\ Len(Entered(to)) <= 1
      BY <2>1 DEF Hook, OnceEach
    <2>3. \A h : Owes(Entered(to), h) <=> h = <<"sub", to>>
      BY <2>1 DEF Owes
    <2> QED BY <1>1, <2>1, <2>2, <2>3
  <1>2. CASE Viewers(to) # {}
    <2>1. Entered(to) = <<>>
      BY <1>2 DEF Entered
    <2>2. \A h : ~Owes(Entered(to), h)
      BY <2>1 DEF Owes
    <2> QED BY <1>2, <2>1, <2>2 DEF OnceEach
  <1> QED BY <1>1, <1>2

LEMMA OnceEachTwo ==
    ASSUME NEW s \in Seq(Hook), NEW t \in Seq(Hook), OnceEach(s), OnceEach(t),
           \A h : ~(Owes(s, h) /\ Owes(t, h))
    PROVE  OnceEach(s \o t)
  <1>1. /\ Len(s) \in Nat /\ Len(t) \in Nat /\ DOMAIN s = 1 .. Len(s) /\ DOMAIN t = 1 .. Len(t)
        /\ DOMAIN (s \o t) = 1 .. Len(s) + Len(t)
        /\ \A k \in 1 .. Len(s) : (s \o t)[k] = s[k]
        /\ \A k \in 1 .. Len(t) : (s \o t)[Len(s) + k] = t[k]
    OBVIOUS
  <1>2. ASSUME NEW k \in DOMAIN (s \o t)
        PROVE  \/ k \in DOMAIN s /\ (s \o t)[k] = s[k]
               \/ k - Len(s) \in DOMAIN t /\ (s \o t)[k] = t[k - Len(s)]
    <2>1. k \in 1 .. Len(s) + Len(t)
      BY <1>1
    <2>2. CASE k <= Len(s)
      BY <1>1, <2>1, <2>2
    <2>3. CASE k > Len(s)
      <3>1. k - Len(s) \in 1 .. Len(t) /\ k = Len(s) + (k - Len(s))
        BY <1>1, <2>1, <2>3
      <3> QED BY <1>1, <3>1
    <2> QED BY <1>1, <2>1, <2>2, <2>3
  <1>3. ASSUME NEW j \in DOMAIN (s \o t), NEW k \in DOMAIN (s \o t), (s \o t)[j] = (s \o t)[k]
        PROVE  j = k
    <2>1. j \in Int /\ k \in Int /\ Len(s) \in Int
      BY <1>1
    <2>2. CASE j \in DOMAIN s /\ (s \o t)[j] = s[j] /\ k \in DOMAIN s /\ (s \o t)[k] = s[k]
      BY <1>3, <2>2 DEF OnceEach
    <2>3. CASE /\ j - Len(s) \in DOMAIN t /\ (s \o t)[j] = t[j - Len(s)]
               /\ k - Len(s) \in DOMAIN t /\ (s \o t)[k] = t[k - Len(s)]
      <3>1. j - Len(s) = k - Len(s)
        BY <1>3, <2>3 DEF OnceEach
      <3> QED BY <2>1, <3>1
    <2>4. CASE \/ /\ j \in DOMAIN s /\ (s \o t)[j] = s[j]
                  /\ k - Len(s) \in DOMAIN t /\ (s \o t)[k] = t[k - Len(s)]
               \/ /\ k \in DOMAIN s /\ (s \o t)[k] = s[k]
                  /\ j - Len(s) \in DOMAIN t /\ (s \o t)[j] = t[j - Len(s)]
      BY <1>3, <2>4 DEF Owes
    <2> QED BY <1>2, <2>2, <2>3, <2>4
  <1> QED BY <1>3 DEF OnceEach

\* The first on a farm does not leave it before its call to the subscriber.
LEMMA SubscribeStep ==
    ASSUME HubInv, NEW c \in Conn, NEW f \in Farm, NEW v, Subscribe(c, f, v), UNCHANGED subVars
    PROVE  HubInv'
  <1>1. hooks[c] = <<>> /\ UNCHANGED <<refs, channels, connected>>
    BY DEF Subscribe, Idle, subVars
  <1>2. CASE UNCHANGED <<watching, hooks>>
    BY <1>1, <1>2, HubStill DEF HubInv, HubTyped, Heard
  <1>3. CASE /\ watching[c] # f /\ watching' = [watching EXCEPT ![c] = f]
             /\ hooks' = [hooks EXCEPT ![c] = Left(c) \o Entered(f)]
    <2> DEFINE s == Left(c)
               t == Entered(f)
    <2>1. /\ s \in Seq(Hook) /\ OnceEach(s)
          /\ \A g \in Farm : Owes(s, <<"unsub", g>>) <=> g = watching[c] /\ Viewers(g) = {c}
          /\ \A g \in Farm : ~Owes(s, <<"sub", g>>)
      BY LeftOwes
    <2>2. /\ t \in Seq(Hook) /\ OnceEach(t)
          /\ \A g \in Farm : Owes(t, <<"sub", g>>) <=> g = f /\ Viewers(g) = {}
          /\ \A g \in Farm : ~Owes(t, <<"unsub", g>>)
      BY EnteredOwes
    <2>3. hooks' = [hooks EXCEPT ![c] = s \o t]
      BY <1>3
    <2> HIDE DEF s, t
    <2>4. \A h : Owes(s \o t, h) <=> Owes(s, h) \/ Owes(t, h)
      BY <2>1, <2>2, OwesTwo
    <2>5. ASSUME NEW h PROVE ~(Owes(s, h) /\ Owes(t, h))
      <3>1. Owes(s, h) => h \in Hook
        BY <2>1 DEF Owes
      <3>2. ASSUME h \in Hook PROVE \E g \in Farm : h = <<"sub", g>> \/ h = <<"unsub", g>>
        BY <3>2 DEF Hook
      <3> QED BY <2>1, <2>2, <3>1, <3>2
    <2>6. s \o t \in Seq(Hook) /\ OnceEach(s \o t)
      BY <2>1, <2>2, <2>5, OnceEachTwo
    <2>7. \A g \in Farm : Owes(s \o t, <<"unsub", g>>) <=> g = watching[c] /\ Viewers(g) = {c}
      BY <2>1, <2>2, <2>4
    <2>8. \A g \in Farm : Owes(s \o t, <<"sub", g>>) <=> g = f /\ Viewers(g) = {}
      BY <2>1, <2>2, <2>4
    <2> DEFINE u == s \o t
    <2>9. /\ u \in Seq(Hook) /\ OnceEach(u) /\ hooks' = [hooks EXCEPT ![c] = u]
          /\ \A g \in Farm : Owes(u, <<"unsub", g>>) <=> g = watching[c] /\ Viewers(g) = {c}
          /\ \A g \in Farm : Owes(u, <<"sub", g>>) <=> g = f /\ Viewers(g) = {}
      BY <2>3, <2>6, <2>7, <2>8
    <2> HIDE DEF u
    <2> QED BY <1>1, <1>3, <2>9, HubMove
  <1> QED BY <1>2, <1>3 DEF Subscribe

LEMMA UnsubscribeStep ==
    ASSUME HubInv, NEW c \in Conn, Unsubscribe(c), UNCHANGED subVars
    PROVE  HubInv'
  <1>1. /\ hooks[c] = <<>> /\ UNCHANGED <<refs, channels, connected>>
        /\ watching' = [watching EXCEPT ![c] = NoFarm] /\ hooks' = [hooks EXCEPT ![c] = Left(c)]
    BY DEF Unsubscribe, Idle, subVars
  <1>2. NoFarm \notin Farm
    BY HubAssumption
  <1>3. /\ Left(c) \in Seq(Hook) /\ OnceEach(Left(c))
        /\ \A f \in Farm : Owes(Left(c), <<"unsub", f>>) <=> f = watching[c] /\ Viewers(f) = {c}
        /\ \A f \in Farm : Owes(Left(c), <<"sub", f>>) <=> f = NoFarm /\ Viewers(f) = {}
    BY <1>2, LeftOwes
  <1> DEFINE s == Left(c)
  <1>4. /\ s \in Seq(Hook) /\ OnceEach(s) /\ hooks' = [hooks EXCEPT ![c] = s]
        /\ \A f \in Farm : Owes(s, <<"unsub", f>>) <=> f = watching[c] /\ Viewers(f) = {c}
        /\ \A f \in Farm : Owes(s, <<"sub", f>>) <=> f = NoFarm /\ Viewers(f) = {}
        /\ NoFarm \in Farm \cup {NoFarm}
    BY <1>1, <1>3
  <1> HIDE DEF s
  <1> QED BY <1>1, <1>4, HubMove

\* An owed call reaches the subscriber.
LEMMA RunHookStep ==
    ASSUME HubInv, NEW c \in Conn, RunHook(c)
    PROVE  HubInv'
  <1> DEFINE s == hooks[c]
  <1>1. /\ hooks \in [Conn -> Seq(Hook)] /\ s \in Seq(Hook) /\ s # <<>> /\ OnceEach(s)
        /\ refs \in [Farm -> Nat] /\ channels \subseteq Farm
        /\ UNCHANGED <<watching, connected>>
        /\ hooks' = [hooks EXCEPT ![c] = Tail(s)]
    BY DEF HubInv, HubTyped, Hooked, RunHook, Idle
  <1>2. /\ Tail(s) \in Seq(Hook) /\ OnceEach(Tail(s)) /\ Owes(s, Head(s)) /\ Head(s) \in Hook
        /\ \A h : Owes(Tail(s), h) <=> Owes(s, h) /\ h # Head(s)
    BY <1>1, OwesRest
  <1>3. PICK f \in Farm : /\ Head(s) = <<"sub", f>> \/ Head(s) = <<"unsub", f>>
                         /\ \/ Head(s)[1] = "sub" /\ AddRef(f)
                            \/ Head(s)[1] = "unsub" /\ DropRef(f)
    BY <1>2 DEF Hook, RunHook
  <1>4. \A d \in Conn : hooks'[d] = IF d = c THEN Tail(s) ELSE hooks[d]
    BY <1>1
  <1>5. \A d \in Conn : \A h : Owes(hooks'[d], h) <=> Owes(hooks[d], h) /\ ~(d = c /\ h = Head(s))
    BY <1>2, <1>4
  <1>6. /\ \A d \in Conn : OnceEach(hooks'[d])
        /\ hooks' \in [Conn -> Seq(Hook)]
    BY <1>1, <1>2, <1>4 DEF HubInv, Hooked
  <1> HIDE DEF s
  <1>7. ASSUME NEW g \in Farm
        PROVE  /\ Entering(g)' = IF Head(s) = <<"sub", g>> THEN Entering(g) \ {c} ELSE Entering(g)
               /\ Leaving(g)' = IF Head(s) = <<"unsub", g>> THEN Leaving(g) \ {c} ELSE Leaving(g)
               /\ Head(s) = <<"sub", g>> => c \in Entering(g)
               /\ Head(s) = <<"unsub", g>> => c \in Leaving(g)
               /\ Watched(g)' = Watched(g)
    <2>1. Entering(g)' = IF Head(s) = <<"sub", g>> THEN Entering(g) \ {c} ELSE Entering(g)
      BY <1>5 DEF Entering
    <2>2. Leaving(g)' = IF Head(s) = <<"unsub", g>> THEN Leaving(g) \ {c} ELSE Leaving(g)
      BY <1>5 DEF Leaving
    <2>3. Owes(hooks[c], Head(s))
      BY <1>2 DEF s
    <2>4. (Head(s) = <<"sub", g>> => c \in Entering(g)) /\ (Head(s) = <<"unsub", g>> => c \in Leaving(g))
      BY <2>3 DEF Entering, Leaving
    <2>5. Watched(g)' = Watched(g)
      BY <1>1 DEF Watched, Viewers
    <2> QED BY <2>1, <2>2, <2>4, <2>5
  <1>8. Hooked'
    <2>1. \A g \in Farm : Entering(g)' \subseteq Entering(g)
      BY <1>7
    <2>2. \A g \in Farm : \A d \in Entering(g)' : watching'[d] = g
      BY <1>1, <2>1 DEF HubInv, Hooked
    <2>3. \A g \in Farm : \A d, e \in Entering(g)' : d = e
      BY <2>1 DEF HubInv, Hooked
    <2> QED BY <1>6, <2>2, <2>3 DEF Hooked
  <1>9. ASSUME NEW g \in Farm
        PROVE  /\ refs[g] + Cardinality(Entering(g)) = Cardinality(Leaving(g)) + Watched(g)
               /\ refs[g] \in Nat /\ Watched(g) \in {0, 1}
               /\ IsFiniteSet(Entering(g)) /\ Cardinality(Entering(g)) \in Nat
               /\ IsFiniteSet(Leaving(g)) /\ Cardinality(Leaving(g)) \in Nat
    BY <1>1, OwersFinite DEF HubInv, AddsUp, Watched
  <1>10. CASE Head(s) = <<"sub", f>>
    <2>1. /\ refs' = [refs EXCEPT ![f] = @ + 1]
          /\ channels' = IF refs[f] = 0 /\ connected THEN channels \cup {f} ELSE channels
      <3>1. Head(s)[1] = "sub"
        BY <1>10
      <3> QED BY <1>3, <3>1 DEF AddRef
    <2>2. /\ refs' \in [Farm -> Nat] /\ channels' \subseteq Farm
          /\ \A g \in Farm : refs'[g] = IF g = f THEN refs[g] + 1 ELSE refs[g]
      BY <1>1, <1>3, <2>1
    <2>3. ASSUME NEW g \in Farm PROVE AddsUp(g)'
      <3>1. CASE g = f
        <4>1. Head(s) = <<"sub", g>> /\ Head(s) # <<"unsub", g>>
          BY <1>10, <3>1
        <4>2. Entering(g)' = Entering(g) \ {c} /\ c \in Entering(g) /\ Leaving(g)' = Leaving(g)
          BY <1>7, <4>1
        <4>3. Cardinality(Entering(g)') = Cardinality(Entering(g)) - 1
          BY <1>9, <4>2, FS_RemoveElement
        <4>4. refs'[g] + Cardinality(Entering(g)') = Cardinality(Leaving(g)') + Watched(g)'
          BY <1>7, <1>9, <2>2, <3>1, <4>2, <4>3
        <4> QED BY <4>4 DEF AddsUp
      <3>2. CASE g # f
        <4>1. Head(s) # <<"sub", g>> /\ Head(s) # <<"unsub", g>>
          BY <1>10, <3>2
        <4>2. refs'[g] + Cardinality(Entering(g)') = Cardinality(Leaving(g)') + Watched(g)'
          BY <1>7, <1>9, <2>2, <3>2, <4>1
        <4> QED BY <4>2 DEF AddsUp
      <3> QED BY <3>1, <3>2
    <2>4. Heard'
      BY <1>1, <1>3, <1>9, <2>1, <2>2 DEF HubInv, Heard
    <2>5. HubTyped'
      BY <1>1, <1>6, <2>2 DEF HubInv, HubTyped
    <2> QED BY <1>8, <2>3, <2>4, <2>5 DEF HubInv
  <1>11. CASE Head(s) = <<"unsub", f>>
    <2>1. /\ refs' = [refs EXCEPT ![f] = IF @ > 1 THEN @ - 1 ELSE 0]
          /\ channels' = channels
      <3>1. Head(s)[1] = "unsub"
        BY <1>11
      <3> QED BY <1>3, <3>1 DEF DropRef
    <2>2. Cardinality(Entering(f)) <= Watched(f)
      <3>1. CASE Entering(f) = {}
        BY <1>3, <1>9, <3>1, FS_EmptySet
      <3>2. CASE Entering(f) # {}
        <4>1. PICK d \in Entering(f) : TRUE
          BY <3>2
        <4>2. Entering(f) = {d} /\ d \in Viewers(f)
          BY <1>3, <4>1 DEF HubInv, Hooked, Viewers, Entering
        <4> QED BY <4>2, FS_Singleton DEF Watched
      <3> QED BY <3>1, <3>2
    <2>3. Leaving(f)' = Leaving(f) \ {c} /\ c \in Leaving(f) /\ Entering(f)' = Entering(f)
      <3>1. Head(s) # <<"sub", f>>
        BY <1>11
      <3> QED BY <1>3, <1>7, <1>11, <3>1
    <2>4. Cardinality(Leaving(f)') = Cardinality(Leaving(f)) - 1 /\ Cardinality(Leaving(f)') \in Nat
      <3> DEFINE L == Leaving(f)
      <3>1. IsFiniteSet(L) /\ c \in L /\ Leaving(f)' = L \ {c}
        BY <1>3, <1>9, <2>3
      <3> HIDE DEF L
      <3>2. IsFiniteSet(L \ {c}) /\ Cardinality(L \ {c}) = Cardinality(L) - 1
        BY <3>1, FS_RemoveElement
      <3>3. Cardinality(L \ {c}) \in Nat
        BY <3>2, FS_CardinalityType
      <3> QED BY <3>1, <3>2, <3>3 DEF L
    <2>5. refs[f] >= 1
      BY <1>3, <1>9, <2>2, <2>4
    <2>6. /\ refs' \in [Farm -> Nat]
          /\ \A g \in Farm : refs'[g] = IF g = f THEN refs[g] - 1 ELSE refs[g]
      BY <1>1, <1>3, <2>1, <2>5
    <2>7. ASSUME NEW g \in Farm PROVE AddsUp(g)'
      <3>1. CASE g = f
        <4>1. refs'[g] = refs[g] - 1 /\ Cardinality(Entering(g)') = Cardinality(Entering(g))
          BY <2>3, <2>6, <3>1
        <4>2. /\ Cardinality(Leaving(g)') = Cardinality(Leaving(g)) - 1 /\ Watched(g)' = Watched(g)
              /\ refs[g] + Cardinality(Entering(g)) = Cardinality(Leaving(g)) + Watched(g)
              /\ refs[g] \in Int /\ Watched(g) \in Int /\ Cardinality(Entering(g)) \in Int
              /\ Cardinality(Leaving(g)) \in Int
          BY <1>7, <1>9, <2>4, <3>1
        <4>3. refs'[g] + Cardinality(Entering(g)') = Cardinality(Leaving(g)') + Watched(g)'
          BY <4>1, <4>2
        <4> QED BY <4>3 DEF AddsUp
      <3>2. CASE g # f
        <4>1. Head(s) # <<"sub", g>> /\ Head(s) # <<"unsub", g>>
          BY <1>11, <3>2
        <4>2. refs'[g] + Cardinality(Entering(g)') = Cardinality(Leaving(g)') + Watched(g)'
          BY <1>7, <1>9, <2>6, <3>2, <4>1
        <4> QED BY <4>2 DEF AddsUp
      <3> QED BY <3>1, <3>2
    <2>8. Heard'
      BY <1>1, <1>9, <2>1, <2>6 DEF HubInv, Heard
    <2>9. HubTyped'
      BY <1>1, <1>6, <2>1, <2>6 DEF HubInv, HubTyped
    <2> QED BY <1>8, <2>7, <2>8, <2>9 DEF HubInv
  <1> QED BY <1>3, <1>10, <1>11

\* The subscriber lets go only of farms that nothing counts, and a new connection
\* starts from what is counted.
LEMMA SubscriberStep ==
    ASSUME HubInv, (\E f \in Farm : TimerFires(f) \/ DelayedUnsubscribe(f)) \/ ConnectionLost \/ Open
    PROVE  HubInv'
  <1>1. channels \subseteq Farm /\ \A f \in Farm : refs[f] \in Nat
    BY DEF HubInv, HubTyped
  <1>2. ASSUME NEW f \in Farm, TimerFires(f) PROVE HubInv'
    BY <1>1, <1>2, HubStill DEF TimerFires, hubVars, HubInv, Heard
  <1>3. ASSUME NEW f \in Farm, DelayedUnsubscribe(f) PROVE HubInv'
    <2>1. /\ UNCHANGED <<watching, hooks, refs, connected>>
          /\ channels' = IF refs[f] = 0 /\ connected THEN channels \ {f} ELSE channels
      BY <1>3 DEF DelayedUnsubscribe, hubVars
    <2>2. Heard'
      BY <2>1 DEF HubInv, Heard
    <2> QED BY <1>1, <2>1, <2>2, HubStill
  <1>4. CASE ConnectionLost
    BY <1>1, <1>4, HubStill DEF ConnectionLost, hubVars, Heard
  <1>5. CASE Open
    BY <1>1, <1>5, HubStill DEF Open, hubVars, Heard
  <1> QED BY <1>2, <1>3, <1>4, <1>5

LEMMA HubUntouched ==
    ASSUME HubInv, UNCHANGED <<watching, hooks, refs, channels, connected>> PROVE HubInv'
  BY HubStill DEF HubInv, HubTyped, Heard

LEMMA HubNextInv == HubInv /\ [ViewerNext]_viewVars => HubInv'
  <1> SUFFICES ASSUME HubInv, [ViewerNext]_viewVars PROVE HubInv'
    OBVIOUS
  <1>1. ASSUME NEW c \in Conn, Connect(c) PROVE HubInv'
    <2>1. UserOf[c] \in Farm
      BY HubAssumption
    <2> QED BY <1>1, <2>1, SubscribeStep DEF Connect
  <1>2. ASSUME NEW c \in Conn, NEW f \in Farm, NEW v, SubscribeFarm(c, f, v) PROVE HubInv'
    BY <1>2, SubscribeStep DEF SubscribeFarm
  <1>3. ASSUME NEW c \in Conn, Disconnect(c) PROVE HubInv'
    BY <1>3, UnsubscribeStep DEF Disconnect
  <1>4. ASSUME NEW c \in Conn, (\E f \in Farm : Submit(c, f)) \/ LookAt(c) \/ Deliver(c) PROVE HubInv'
    BY <1>4, HubUntouched DEF Submit, LookAt, Deliver, hubVars, subVars
  <1>5. ASSUME (\E p \in unsent : Publish(p)) \/ Receive PROVE HubInv'
    BY <1>5, HubUntouched DEF Publish, Receive, hubVars, subVars
  <1>6. CASE UNCHANGED viewVars
    BY <1>6, HubUntouched DEF viewVars, hubVars, subVars
  <1> QED BY <1>1, <1>2, <1>3, <1>4, <1>5, <1>6, RunHookStep, SubscriberStep DEF ViewerNext

LEMMA HubInitInv == ViewerInit => HubInv
  <1> SUFFICES ASSUME ViewerInit PROVE HubInv
    OBVIOUS
  <1>1. HubTyped /\ \A c \in Conn : watching[c] = NoFarm /\ hooks[c] = <<>>
    BY DEF ViewerInit, HubTyped
  <1>2. ASSUME NEW f \in Farm PROVE Entering(f) = {} /\ Leaving(f) = {} /\ Viewers(f) = {}
    BY <1>1, HubAssumption DEF Entering, Leaving, Owes, Viewers
  <1>3. Hooked
    BY <1>1, <1>2 DEF Hooked, OnceEach
  <1>4. ASSUME NEW f \in Farm PROVE AddsUp(f)
    <2>1. refs[f] = 0 /\ Watched(f) = 0
      BY <1>2 DEF ViewerInit, Watched
    <2> QED BY <1>2, <2>1, FS_EmptySet DEF AddsUp
  <1>5. Heard
    BY DEF ViewerInit, Heard
  <1> QED BY <1>1, <1>3, <1>4, <1>5 DEF HubInv

LEMMA HubFrame == [Next]_gatewayVars => [ViewerNext]_viewVars
  BY DEF Next, gatewayVars, viewVars, hubVars, subVars, patchVars

\* The invariant of the hub and the subscriber: references and owed calls add up to
\* the watched farms, in whatever order the goroutines make their calls.
THEOREM HubInvariant == Spec => []HubInv
  <1>1. Init => HubInv
    BY HubInitInv DEF Init
  <1>2. HubInv /\ [Next]_gatewayVars => HubInv'
    BY HubNextInv, HubFrame
  <1> QED BY <1>1, <1>2, PTL DEF Spec

\* Once no goroutine owes the subscriber a call, it counts the watched farms and
\* listens to each of them (hub.go, bus.go: Subscribe, Unsubscribe, delayed
\* unsubscription), for any number of connections and farms.
THEOREM WatchedFarmsHeard == Spec => []WatchedIsHeard
  <1>1. HubInv => WatchedIsHeard
    <2> SUFFICES ASSUME HubInv, \A c \in Conn : Idle(c), NEW f \in Farm
                 PROVE  /\ refs[f] = Watched(f)
                        /\ connected /\ Viewers(f) # {} => f \in channels
      BY DEF WatchedIsHeard, Watched
    <2>1. Entering(f) = {} /\ Leaving(f) = {}
      BY DEF Entering, Leaving, Idle, Owes
    <2>2. refs[f] + Cardinality(Entering(f)) = Cardinality(Leaving(f)) + Watched(f)
      BY DEF HubInv, AddsUp
    <2>3. refs[f] \in Nat /\ Watched(f) \in {0, 1}
      BY DEF HubInv, HubTyped, Watched
    <2>4. refs[f] = Watched(f)
      BY <2>1, <2>2, <2>3, FS_EmptySet
    <2>5. connected /\ Viewers(f) # {} => f \in channels
      BY <2>4 DEF HubInv, Heard, Watched
    <2> QED BY <2>4, <2>5
  <1> QED BY <1>1, HubInvariant, PTL

-----------------------------------------------------------------------------
(* The badge.                                                                *)

Shown == [unread : Nat, version : Nat]
Call == [at : {"open", "notify", "publish", "done"}, wrote : SUBSET Mail,
         summary : Shown, to : Link \cup {NoLink}]

MailTyped ==
    /\ mails \in [Mail -> {"none", "UNREAD", "READ"}]
    /\ box \in Shown
    /\ mailCalls \in [MailCall -> Call]
    /\ \A c \in MailCall : mailCalls[c].at = "publish" => mailCalls[c].to \in Link
    /\ connOwner \in Link \cup {NoLink}
    /\ mailWire \subseteq [to : Link, summary : Shown]
    /\ shown \in [Link -> Shown]
    /\ missed \subseteq Link

\* A row belongs to one open call, and is as that call found it.
RowsHeld ==
    /\ \A c \in MailCall : mailCalls[c].at = "open" =>
          /\ Kind(c) = "send" => mails[MailOf(c)] = "none" /\ mailCalls[c].wrote \subseteq {MailOf(c)}
          /\ Kind(c) # "send" => mailCalls[c].wrote \subseteq Unread
    /\ \A c, d \in MailCall :
          mailCalls[c].at = "open" /\ mailCalls[d].at = "open" /\ c # d =>
             mailCalls[c].wrote \cap mailCalls[d].wrote = {}

BadgeCounts == box.unread = Cardinality(Unread)

\* No summary is newer than the mailbox, and the newest is the mailbox's.
NotNewer(s) == s.version <= box.version /\ (s.version = box.version => s = box)

SummariesOld ==
    /\ \A c \in MailCall : mailCalls[c].at \in {"notify", "publish"} => NotNewer(mailCalls[c].summary)
    /\ \A n \in mailWire : NotNewer(n.summary)
    /\ \A l \in Link : NotNewer(shown[l])

\* The mailbox's summary is on its way to the user's connection l.
Coming(l) ==
    \/ \E c \in MailCall : mailCalls[c].at = "notify" /\ mailCalls[c].summary = box
    \/ \E c \in MailCall : mailCalls[c].at = "publish" /\ mailCalls[c].to = l /\ mailCalls[c].summary = box
    \/ [to |-> l, summary |-> box] \in mailWire

WillShow == connOwner \in Link \ missed => shown[connOwner] = box \/ Coming(connOwner)

MailInv == MailTyped /\ RowsHeld /\ BadgeCounts /\ SummariesOld /\ WillShow

LEMMA UnreadFinite ==
    IsFiniteSet(Unread) /\ Cardinality(Unread) \in Nat /\ Unread \subseteq Mail
  <1>1. Unread \subseteq Mail
    BY DEF Unread
  <1>2. IsFiniteSet(Unread)
    BY <1>1, MailAssumption, FS_Subset
  <1> QED BY <1>1, <1>2, FS_CardinalityType

\* Calls and notices move, mails and mailbox stay.
LEMMA MailboxStill ==
    ASSUME MailInv, UNCHANGED <<mails, box>>, MailTyped',
           \A c \in MailCall : mailCalls'[c].at = "open" =>
               mailCalls[c].at = "open" /\ mailCalls'[c].wrote = mailCalls[c].wrote
    PROVE  RowsHeld' /\ BadgeCounts'
  <1>1. Unread' = Unread
    BY DEF Unread
  <1> QED BY <1>1 DEF MailInv, RowsHeld, BadgeCounts

LEMMA WriteRowStep ==
    ASSUME MailInv, NEW c \in MailCall, WriteRow(c) PROVE MailInv'
  <1>1. PICK m \in ToWrite(c) :
           ~Locked(m) /\ mailCalls' = [mailCalls EXCEPT ![c].wrote = @ \cup {m}]
    BY DEF WriteRow
  <1>2. /\ mailCalls[c].at = "open" /\ mailCalls \in [MailCall -> Call] /\ MailOf(c) \in Mail
        /\ UNCHANGED <<mails, box, boxLock, connOwner, mailWire, shown, missed>>
    BY MailAssumption DEF WriteRow, MailInv, MailTyped
  <1>3. /\ m \in Mail
        /\ Kind(c) = "send" => m = MailOf(c)
        /\ Kind(c) # "send" => m \in Unread
    <2>1. Inserting \subseteq {n \in Mail : Locked(n)} /\ Unread \subseteq Mail
      BY DEF Inserting, Unread
    <2> HIDE DEF Locked, Unread
    <2> QED BY <1>1, <1>2, <2>1 DEF ToWrite
  <1> DEFINE w == mailCalls[c].wrote \cup {m}
             q == [mailCalls[c] EXCEPT !.wrote = w]
  <1>4. /\ q \in Call /\ q.at = "open" /\ q.wrote = w /\ q.summary = mailCalls[c].summary
        /\ q.to = mailCalls[c].to /\ mailCalls' = [mailCalls EXCEPT ![c] = q]
    BY <1>1, <1>2, <1>3 DEF Call
  <1> HIDE DEF q
  <1>5. \A d \in MailCall : mailCalls'[d] = IF d = c THEN q ELSE mailCalls[d]
    BY <1>2, <1>4
  <1>6. MailTyped'
    BY <1>2, <1>4, <1>5 DEF MailInv, MailTyped
  <1>7. Unread' = Unread
    BY <1>2 DEF Unread
  <1>8. RowsHeld'
    <2>1. \A d \in MailCall : mailCalls[d].at = "open" => m \notin mailCalls[d].wrote
      BY <1>1 DEF Locked
    <2>2. ASSUME NEW d \in MailCall, mailCalls'[d].at = "open"
          PROVE  /\ Kind(d) = "send" => mails'[MailOf(d)] = "none" /\ mailCalls'[d].wrote \subseteq {MailOf(d)}
                 /\ Kind(d) # "send" => mailCalls'[d].wrote \subseteq Unread'
      BY <1>2, <1>3, <1>4, <1>5, <1>7, <2>2 DEF MailInv, RowsHeld
    <2>3. ASSUME NEW d \in MailCall, NEW e \in MailCall,
                 mailCalls'[d].at = "open", mailCalls'[e].at = "open", d # e
          PROVE  mailCalls'[d].wrote \cap mailCalls'[e].wrote = {}
      <3>1. mailCalls[d].at = "open" /\ mailCalls[e].at = "open"
        BY <1>2, <1>5, <2>3
      <3>2. mailCalls[d].wrote \cap mailCalls[e].wrote = {}
        BY <2>3, <3>1 DEF MailInv, RowsHeld
      <3> QED BY <1>4, <1>5, <2>1, <2>3, <3>1, <3>2
    <2> QED BY <2>2, <2>3 DEF RowsHeld
  <1>9. BadgeCounts' /\ SummariesOld' /\ WillShow'
    BY <1>2, <1>4, <1>5, <1>7 DEF MailInv, BadgeCounts, SummariesOld, NotNewer, WillShow, Coming
  <1> QED BY <1>6, <1>8, <1>9 DEF MailInv

LEMMA NoFewerThanNone == ASSUME NEW a \in Nat PROVE Max({a, 0}) = a
  <1>1. \A x \in {a, 0} : (\A y \in {a, 0} : x >= y) => x = a
    OBVIOUS
  <1>2. a \in {a, 0} /\ \A y \in {a, 0} : a >= y
    OBVIOUS
  <1>3. PICK x \in {a, 0} : x = Max({a, 0}) /\ \A y \in {a, 0} : x >= y
    BY <1>2 DEF Max
  <1> QED BY <1>1, <1>3

\* The trigger keeps the count, for as many rows as the call has changed.
LEMMA CommitMailStep ==
    ASSUME MailInv, NEW c \in MailCall, CommitMail(c) PROVE MailInv'
  <1> DEFINE rows == mailCalls[c].wrote
             n == Cardinality(rows)
  <1>1. /\ mailCalls[c].at = "open" /\ mailCalls \in [MailCall -> Call] /\ MailOf(c) \in Mail
        /\ mails \in [Mail -> {"none", "UNREAD", "READ"}] /\ box \in Shown
        /\ mails' = [m \in Mail |-> IF m \notin rows THEN mails[m]
                                    ELSE IF Kind(c) = "send" THEN "UNREAD" ELSE "READ"]
        /\ box' = Counted(c, n)
        /\ mailCalls' = [mailCalls EXCEPT ![c] =
              IF rows = {} THEN Ended ELSE [Ended EXCEPT !.at = "notify", !.summary = box']]
        /\ UNCHANGED <<connOwner, mailWire, shown, missed>>
    BY MailAssumption DEF CommitMail, MailInv, MailTyped
  <1>2. /\ rows \subseteq Mail
        /\ Kind(c) = "send" => rows \subseteq {MailOf(c)} /\ mails[MailOf(c)] = "none"
        /\ Kind(c) # "send" => rows \subseteq Unread
        /\ \A d \in MailCall \ {c} : mailCalls[d].at = "open" => rows \cap mailCalls[d].wrote = {}
    BY <1>1 DEF MailInv, RowsHeld, Call
  <1>3. IsFiniteSet(rows) /\ n \in Nat /\ (n = 0 <=> rows = {})
    BY <1>2, MailAssumption, FS_Subset, FS_CardinalityType, FS_EmptySet
  <1>4. \A m \in Mail : mails'[m] = IF m \notin rows THEN mails[m]
                                    ELSE IF Kind(c) = "send" THEN "UNREAD" ELSE "READ"
    BY <1>1
  <1>5. Unread' = IF Kind(c) = "send" THEN Unread \cup rows ELSE Unread \ rows
    BY <1>2, <1>4 DEF Unread
  <1>6. mails' \in [Mail -> {"none", "UNREAD", "READ"}]
    BY <1>1
  <1> HIDE DEF rows
  <1>7. box' = [unread |-> Cardinality(Unread'), version |-> box.version + n]
    <2>1. /\ IsFiniteSet(Unread) /\ Cardinality(Unread) \in Nat /\ box.unread = Cardinality(Unread)
          /\ box.version \in Nat
      BY <1>1, UnreadFinite DEF MailInv, BadgeCounts, Shown
    <2>2. CASE Kind(c) = "send"
      <3>1. Unread \cap rows = {}
        BY <1>2, <2>2 DEF Unread
      <3>2. Cardinality(Unread \cup rows) = Cardinality(Unread) + n
        <4>1. Cardinality(Unread \cup rows) = Cardinality(Unread) + n - Cardinality(Unread \cap rows)
          BY <1>3, <2>1, FS_Union
        <4>2. Cardinality(Unread \cap rows) = 0
          BY <3>1, FS_EmptySet
        <4>3. n \in Int /\ Cardinality(Unread) \in Int
          BY <1>3, <2>1
        <4> QED BY <4>1, <4>2, <4>3
      <3> QED BY <1>1, <1>5, <2>1, <2>2, <3>2 DEF Counted
    <2>3. CASE Kind(c) # "send"
      <3>1. Cardinality(Unread \ rows) = Cardinality(Unread) - n /\ Cardinality(Unread \ rows) \in Nat
        <4>1. Cardinality(Unread \ rows) = Cardinality(Unread) - Cardinality(Unread \cap rows)
          BY <2>1, FS_Difference
        <4>2. Unread \cap rows = rows
          BY <1>2, <2>3
        <4>3. IsFiniteSet(Unread \ rows)
          BY <2>1, FS_Difference
        <4> QED BY <4>1, <4>2, <4>3, FS_CardinalityType
      <3>2. box.unread - n \in Nat /\ box.unread - n = Cardinality(Unread')
        BY <1>5, <2>1, <2>3, <3>1
      <3>3. Max({box.unread - n, 0}) = box.unread - n
        BY <3>2, NoFewerThanNone
      <3> QED BY <1>1, <2>3, <3>2, <3>3 DEF Counted
    <2> QED BY <2>2, <2>3
  <1>8. box' \in Shown /\ box'.version = box.version + n /\ BadgeCounts'
    <2>1. (Cardinality(Unread) \in Nat)'
      <3>1. Unread' \subseteq Mail
        BY DEF Unread
      <3>2. IsFiniteSet(Unread')
        BY <3>1, MailAssumption, FS_Subset
      <3> QED BY <3>2, FS_CardinalityType
    <2>2. box.version + n \in Nat
      BY <1>1, <1>3 DEF Shown
    <2> QED BY <1>7, <2>1, <2>2 DEF Shown, BadgeCounts
  <1>9. /\ \A d \in MailCall \ {c} : mailCalls'[d] = mailCalls[d]
        /\ mailCalls' \in [MailCall -> Call]
        /\ rows = {} => mailCalls'[c].at = "done"
        /\ rows # {} => mailCalls'[c].at = "notify" /\ mailCalls'[c].summary = box'
    <2> DEFINE q == IF rows = {} THEN Ended ELSE [Ended EXCEPT !.at = "notify", !.summary = box']
    <2>1. /\ q \in Call /\ (rows = {} => q.at = "done")
          /\ rows # {} => q.at = "notify" /\ q.summary = box'
      BY <1>8 DEF Call, Ended, NoSummary, Shown
    <2>2. mailCalls' = [mailCalls EXCEPT ![c] = q]
      BY <1>1
    <2> HIDE DEF q
    <2> QED BY <1>1, <2>1, <2>2
  <1>10. MailTyped'
    BY <1>1, <1>6, <1>8, <1>9 DEF MailInv, MailTyped
  <1>11. RowsHeld'
    <2>1. ASSUME NEW d \in MailCall, mailCalls'[d].at = "open"
          PROVE  /\ Kind(d) = "send" => mails'[MailOf(d)] = "none" /\ mailCalls'[d].wrote \subseteq {MailOf(d)}
                 /\ Kind(d) # "send" => mailCalls'[d].wrote \subseteq Unread'
      <3>1. d # c /\ mailCalls'[d] = mailCalls[d] /\ mailCalls[d].at = "open" /\ MailOf(d) \in Mail
        BY <1>9, <2>1, MailAssumption
      <3>2. CASE Kind(d) = "send"
        <4>1. mails[MailOf(d)] = "none" /\ mailCalls[d].wrote \subseteq {MailOf(d)}
          BY <3>1, <3>2 DEF MailInv, RowsHeld
        <4>2. MailOf(d) \notin rows
          <5>1. Kind(c) = "send" => MailOf(c) # MailOf(d)
            BY <3>1, <3>2, MailAssumption
          <5> QED BY <1>2, <4>1, <5>1 DEF Unread
        <4> QED BY <1>4, <3>1, <3>2, <4>1, <4>2 DEF rows
      <3>3. CASE Kind(d) # "send"
        <4>1. mailCalls[d].wrote \subseteq Unread /\ rows \cap mailCalls[d].wrote = {}
          BY <1>2, <3>1, <3>3 DEF MailInv, RowsHeld
        <4> QED BY <1>5, <3>1, <3>3, <4>1
      <3> QED BY <3>2, <3>3
    <2>2. \A d, e \in MailCall :
             mailCalls'[d].at = "open" /\ mailCalls'[e].at = "open" /\ d # e =>
                mailCalls'[d].wrote \cap mailCalls'[e].wrote = {}
      BY <1>9 DEF MailInv, RowsHeld
    <2> QED BY <2>1, <2>2 DEF RowsHeld
  <1>12. CASE rows = {}
    <2>1. box' = box
      <3>1. n = 0 /\ Unread' = Unread /\ box.version \in Nat /\ box.unread = Cardinality(Unread)
        BY <1>1, <1>3, <1>5, <1>12 DEF MailInv, BadgeCounts, Shown
      <3>2. box = [unread |-> box.unread, version |-> box.version]
        BY <1>1 DEF Shown
      <3> QED BY <1>7, <3>1, <3>2
    <2>2. SummariesOld' /\ WillShow'
      BY <1>1, <1>9, <1>12, <2>1 DEF MailInv, SummariesOld, NotNewer, WillShow, Coming
    <2> QED BY <1>8, <1>10, <1>11, <2>2 DEF MailInv
  <1>13. CASE rows # {}
    <2>1. \A x \in Shown : NotNewer(x) => x.version <= box'.version /\ x.version # box'.version
      <3>1. n \in Nat /\ n # 0 /\ box.version \in Nat /\ box'.version = box.version + n
        BY <1>1, <1>3, <1>8, <1>13 DEF Shown
      <3> QED BY <3>1 DEF NotNewer, Shown
    <2>2. SummariesOld'
      <3>1. ASSUME NEW d \in MailCall, mailCalls'[d].at \in {"notify", "publish"}
            PROVE  /\ mailCalls'[d].summary.version <= box'.version
                   /\ mailCalls'[d].summary.version = box'.version => mailCalls'[d].summary = box'
        <4>1. CASE d = c
          BY <1>8, <1>9, <1>13, <4>1 DEF Shown
        <4>2. CASE d # c
          BY <1>1, <1>9, <2>1, <3>1, <4>2 DEF MailInv, SummariesOld, Call
        <4> QED BY <4>1, <4>2
      <3>2. \A k \in mailWire : k.summary.version <= box'.version /\ k.summary.version # box'.version
        BY <2>1 DEF MailInv, MailTyped, SummariesOld
      <3>3. \A l \in Link : shown[l].version <= box'.version /\ shown[l].version # box'.version
        BY <2>1 DEF MailInv, MailTyped, SummariesOld
      <3> QED BY <1>1, <3>1, <3>2, <3>3 DEF SummariesOld, NotNewer
    <2>3. WillShow'
      BY <1>9, <1>13 DEF WillShow, Coming
    <2> QED BY <1>8, <1>10, <1>11, <2>2, <2>3 DEF MailInv
  <1> QED BY <1>12, <1>13

\* A call that has committed moves on, and its summary with it.
LEMMA NoticeStep ==
    ASSUME MailInv, NEW c \in MailCall, NEW q \in Call,
           q.at # "open", q.at = "publish" => q.to \in Link,
           q.at \in {"notify", "publish"} => mailCalls[c].at \in {"notify", "publish"} /\ q.summary = mailCalls[c].summary,
           mailCalls' = [mailCalls EXCEPT ![c] = q],
           UNCHANGED <<mails, box, connOwner, shown>>,
           missed \subseteq missed', missed' \subseteq Link,
           mailWire \subseteq mailWire',
           \A n \in mailWire' \ mailWire : n \in [to : Link, summary : Shown] /\ NotNewer(n.summary),
           WillShow'
    PROVE  MailInv'
  <1>1. /\ mailCalls \in [MailCall -> Call]
        /\ \A d \in MailCall : mailCalls'[d] = IF d = c THEN q ELSE mailCalls[d]
    BY DEF MailInv, MailTyped
  <1>2. MailTyped'
    BY <1>1 DEF MailInv, MailTyped
  <1>3. RowsHeld' /\ BadgeCounts'
    BY <1>1, <1>2, MailboxStill
  <1>4. SummariesOld'
    BY <1>1 DEF MailInv, SummariesOld, NotNewer
  <1> QED BY <1>2, <1>3, <1>4 DEF MailInv

LEMMA CallEndsTyped == Ended \in Call /\ Ended.at = "done"
  BY DEF Ended, Call, Shown, NoSummary

LEMMA RollBackMailStep ==
    ASSUME MailInv, NEW c \in MailCall, RollBackMail(c) PROVE MailInv'
  <1>1. /\ mailCalls[c].at = "open" /\ mailCalls' = [mailCalls EXCEPT ![c] = Ended]
        /\ UNCHANGED <<mails, box, connOwner, mailWire, shown, missed>>
        /\ mailCalls \in [MailCall -> Call] /\ missed \subseteq Link
    BY DEF RollBackMail, MailInv, MailTyped
  <1>2. \A d \in MailCall \ {c} : mailCalls'[d] = mailCalls[d]
    BY <1>1
  <1>3. WillShow'
    BY <1>1, <1>2 DEF MailInv, WillShow, Coming
  <1> QED BY <1>1, <1>3, CallEndsTyped, NoticeStep

\* The notice finds the gateway the user is on then.
LEMMA ResolveStep ==
    ASSUME MailInv, NEW c \in MailCall, Resolve(c) PROVE MailInv'
  <1>1. /\ mailCalls[c].at = "notify"
        /\ mailCalls' = [mailCalls EXCEPT ![c] =
              IF connOwner = NoLink THEN Ended ELSE [@ EXCEPT !.at = "publish", !.to = connOwner]]
        /\ UNCHANGED <<mails, box, connOwner, mailWire, shown, missed>>
        /\ mailCalls \in [MailCall -> Call] /\ connOwner \in Link \cup {NoLink} /\ missed \subseteq Link
        /\ NoLink \notin Link
    BY MailAssumption DEF Resolve, MailInv, MailTyped
  <1>2. CASE connOwner = NoLink
    <2>1. mailCalls' = [mailCalls EXCEPT ![c] = Ended]
      BY <1>1, <1>2
    <2>2. WillShow'
      BY <1>1, <1>2 DEF WillShow
    <2> QED BY <1>1, <2>1, <2>2, CallEndsTyped, NoticeStep
  <1>3. CASE connOwner # NoLink
    <2> DEFINE q == [mailCalls[c] EXCEPT !.at = "publish", !.to = connOwner]
    <2>1. /\ q \in Call /\ q.at = "publish" /\ q.to = connOwner /\ q.summary = mailCalls[c].summary
          /\ mailCalls' = [mailCalls EXCEPT ![c] = q]
      BY <1>1, <1>3 DEF Call
    <2> HIDE DEF q
    <2>2. \A d \in MailCall : mailCalls'[d] = IF d = c THEN q ELSE mailCalls[d]
      BY <1>1, <2>1
    <2>3. WillShow'
      BY <1>1, <2>1, <2>2 DEF MailInv, WillShow, Coming
    <2> QED BY <1>1, <1>3, <2>1, <2>3, NoticeStep
  <1> QED BY <1>2, <1>3

LEMMA PublishSummaryStep ==
    ASSUME MailInv, NEW c \in MailCall, PublishSummary(c) PROVE MailInv'
  <1> DEFINE n == [to |-> mailCalls[c].to, summary |-> mailCalls[c].summary]
  <1>1. /\ mailCalls[c].at = "publish" /\ mailCalls' = [mailCalls EXCEPT ![c] = Ended]
        /\ mailWire' = mailWire \cup {n}
        /\ UNCHANGED <<mails, box, connOwner, shown, missed>>
        /\ mailCalls \in [MailCall -> Call] /\ missed \subseteq Link
    BY DEF PublishSummary, MailInv, MailTyped
  <1>2. n \in [to : Link, summary : Shown] /\ NotNewer(n.summary)
    BY <1>1 DEF MailInv, MailTyped, SummariesOld, Call
  <1>3. \A d \in MailCall \ {c} : mailCalls'[d] = mailCalls[d]
    BY <1>1
  <1>4. WillShow'
    BY <1>1, <1>3 DEF MailInv, WillShow, Coming
  <1> HIDE DEF n
  <1> QED BY <1>1, <1>2, <1>4, CallEndsTyped, NoticeStep

\* A notice that is lost leaves the connection with a gap.
LEMMA LoseNoticeStep ==
    ASSUME MailInv, NEW c \in MailCall, LoseNotice(c) PROVE MailInv'
  <1>1. /\ \/ mailCalls[c].at = "notify" /\ missed' = missed \cup ({connOwner} \cap Link)
           \/ mailCalls[c].at = "publish" /\ missed' = missed \cup {mailCalls[c].to}
        /\ mailCalls' = [mailCalls EXCEPT ![c] = Ended]
        /\ UNCHANGED <<mails, box, connOwner, mailWire, shown>>
        /\ mailCalls \in [MailCall -> Call] /\ missed \subseteq Link
    BY DEF LoseNotice, MailInv, MailTyped
  <1>2. missed \subseteq missed' /\ missed' \subseteq Link
    BY <1>1 DEF MailInv, MailTyped
  <1>3. \A d \in MailCall \ {c} : mailCalls'[d] = mailCalls[d]
    BY <1>1
  <1>4. WillShow'
    BY <1>1, <1>2, <1>3 DEF MailInv, WillShow, Coming
  <1> QED BY <1>1, <1>2, <1>4, CallEndsTyped, NoticeStep

\* A summary arrives or is dropped, a connection opens or fetches the summary.
LEMMA BadgeStep ==
    ASSUME MailInv, UNCHANGED <<mails, box, mailCalls>>,
           mailWire' \subseteq mailWire, missed' \subseteq Link,
           connOwner' \in Link \cup {NoLink}, shown' \in [Link -> Shown],
           \A l \in Link : NotNewer(shown'[l]), WillShow'
    PROVE  MailInv'
  <1>1. MailTyped'
    BY DEF MailInv, MailTyped
  <1>2. RowsHeld' /\ BadgeCounts'
    BY <1>1, MailboxStill DEF MailInv
  <1>3. SummariesOld'
    BY DEF MailInv, SummariesOld, NotNewer
  <1> QED BY <1>1, <1>2, <1>3 DEF MailInv

\* Summaries that come out of order do not hide a newer one.
LEMMA PushMailboxChangedStep ==
    ASSUME MailInv, NEW n \in mailWire, PushMailboxChanged(n) PROVE MailInv'
  <1>1. /\ mailWire' = mailWire \ {n}
        /\ shown' = IF n.summary.version > shown[n.to].version
                    THEN [shown EXCEPT ![n.to] = n.summary] ELSE shown
        /\ UNCHANGED <<mails, box, mailCalls, connOwner, missed>>
        /\ shown \in [Link -> Shown] /\ n \in [to : Link, summary : Shown]
        /\ n.to \in Link /\ n.summary \in Shown /\ box \in Shown
        /\ connOwner \in Link \cup {NoLink} /\ missed \subseteq Link
    BY DEF PushMailboxChanged, NewerThan, MailInv, MailTyped
  <1>2. NotNewer(n.summary) /\ \A l \in Link : NotNewer(shown[l])
    BY DEF MailInv, SummariesOld
  <1>3. shown' \in [Link -> Shown] /\ \A l \in Link : NotNewer(shown'[l])
    BY <1>1, <1>2
  <1>4. ASSUME NEW l \in Link, shown[l] = box PROVE shown'[l] = box
    BY <1>1, <1>2, <1>4 DEF NotNewer, Shown
  <1>5. ASSUME NEW l \in Link, n = [to |-> l, summary |-> box] PROVE shown'[l] = box
    <2>1. n.to = l /\ n.summary = box
      BY <1>5
    <2>2. CASE box.version > shown[l].version
      BY <1>1, <2>1, <2>2
    <2>3. CASE ~(box.version > shown[l].version)
      <3>1. shown[l].version = box.version
        BY <1>1, <1>2, <1>5, <2>3 DEF NotNewer, Shown
      <3> QED BY <1>1, <1>2, <1>5, <2>1, <2>3, <3>1 DEF NotNewer
    <2> QED BY <2>2, <2>3
  <1>6. ASSUME NEW l \in Link PROVE Coming(l) => shown'[l] = box \/ Coming(l)'
    BY <1>1, <1>5 DEF Coming
  <1>7. WillShow'
    BY <1>1, <1>4, <1>6 DEF MailInv, WillShow
  <1> QED BY <1>1, <1>3, <1>7, BadgeStep

LEMMA DropSummaryStep ==
    ASSUME MailInv, NEW n \in mailWire, DropSummary(n) PROVE MailInv'
  <1>1. /\ mailWire' = mailWire \ {n} /\ missed' = missed \cup {n.to}
        /\ UNCHANGED <<mails, box, mailCalls, connOwner, shown>>
        /\ n \in [to : Link, summary : Shown] /\ shown \in [Link -> Shown]
        /\ connOwner \in Link \cup {NoLink} /\ missed' \subseteq Link
    BY DEF DropSummary, MailInv, MailTyped
  <1>2. WillShow'
    BY <1>1 DEF MailInv, WillShow, Coming
  <1> QED BY <1>1, <1>2, BadgeStep DEF MailInv, SummariesOld

LEMMA LinkStep ==
    ASSUME MailInv, NEW l \in Link,
           OpenLink(l) \/ RegisterLink(l) \/ UnregisterLink(l) \/ GetSummary(l)
    PROVE  MailInv'
  <1>1. /\ UNCHANGED <<mails, box, mailCalls, mailWire>>
        /\ shown \in [Link -> Shown] /\ box \in Shown /\ missed \subseteq Link
        /\ \A k \in Link : NotNewer(shown[k])
    BY DEF OpenLink, RegisterLink, UnregisterLink, GetSummary, MailInv, MailTyped, SummariesOld
  <1>2. CASE OpenLink(l)
    <2>1. UNCHANGED <<connOwner, shown, missed>>
      BY <1>2 DEF OpenLink
    <2>2. WillShow'
      BY <1>1, <2>1 DEF MailInv, WillShow, Coming
    <2> QED BY <1>1, <2>1, <2>2, BadgeStep DEF MailInv, MailTyped
  <1>3. CASE RegisterLink(l) \/ UnregisterLink(l)
    <2>1. /\ \/ connOwner' = l /\ missed' = missed \cup {l}
             \/ connOwner' = NoLink /\ missed' = missed
          /\ shown' = shown
      BY <1>3 DEF RegisterLink, UnregisterLink
    <2>2. WillShow'
      BY <2>1, MailAssumption DEF WillShow
    <2> QED BY <1>1, <2>1, <2>2, BadgeStep
  <1>4. CASE GetSummary(l)
    <2>1. /\ connOwner' = connOwner /\ shown' = [shown EXCEPT ![l] = box]
          /\ missed' = IF connOwner = l THEN missed \ {l} ELSE missed
      BY <1>4 DEF GetSummary
    <2>2. shown' \in [Link -> Shown] /\ \A k \in Link : NotNewer(shown'[k])
      <3>1. NotNewer(box)
        BY <1>1 DEF NotNewer, Shown
      <3> QED BY <1>1, <2>1, <3>1
    <2>3. WillShow'
      <3>1. CASE connOwner = l
        BY <1>1, <2>1, <3>1 DEF WillShow
      <3>2. CASE connOwner # l
        BY <1>1, <2>1, <3>2 DEF MailInv, WillShow, Coming
      <3> QED BY <3>1, <3>2
    <2> QED BY <1>1, <2>1, <2>2, <2>3, BadgeStep DEF MailInv, MailTyped
  <1> QED BY <1>2, <1>3, <1>4

LEMMA MailInitInv == MailInit => MailInv
  <1> SUFFICES ASSUME MailInit PROVE MailInv
    OBVIOUS
  <1>1. Unread = Delivered /\ IsFiniteSet(Delivered) /\ Cardinality(Delivered) \in Nat
    BY MailAssumption, FS_Subset, FS_CardinalityType DEF MailInit, Unread
  <1>2. MailTyped /\ \A c \in MailCall : mailCalls[c].at = "open" /\ mailCalls[c].wrote = {}
    BY <1>1 DEF MailInit, MailTyped, Call, Ended, Shown, NoSummary
  <1>3. RowsHeld
    BY <1>2, MailAssumption DEF MailInit, RowsHeld
  <1>4. BadgeCounts
    BY <1>1 DEF MailInit, BadgeCounts
  <1>5. SummariesOld
    BY <1>1, <1>2 DEF MailInit, SummariesOld, NotNewer, NoSummary
  <1>6. WillShow
    BY MailAssumption DEF MailInit, WillShow
  <1> QED BY <1>2, <1>3, <1>4, <1>5, <1>6 DEF MailInv

LEMMA MailNextInv == MailInv /\ [MailNext]_mailVars => MailInv'
  <1> SUFFICES ASSUME MailInv, [MailNext]_mailVars PROVE MailInv'
    OBVIOUS
  <1>1. ASSUME NEW c \in MailCall, Trigger(c) PROVE MailInv'
    <2>1. UNCHANGED <<mails, box, mailCalls, connOwner, mailWire, shown, missed>>
      BY <1>1 DEF Trigger
    <2> QED BY <2>1 DEF MailInv, MailTyped, RowsHeld, Unread, BadgeCounts, SummariesOld, NotNewer, WillShow, Coming
  <1>2. CASE UNCHANGED mailVars
    <2>1. UNCHANGED <<mails, box, mailCalls, connOwner, mailWire, shown, missed>>
      BY <1>2 DEF mailVars
    <2> QED BY <2>1 DEF MailInv, MailTyped, RowsHeld, Unread, BadgeCounts, SummariesOld, NotNewer, WillShow, Coming
  <1> QED BY <1>1, <1>2, WriteRowStep, CommitMailStep, RollBackMailStep, ResolveStep, PublishSummaryStep,
             LoseNoticeStep, PushMailboxChangedStep, DropSummaryStep, LinkStep DEF MailNext

LEMMA MailFrame == [Next]_gatewayVars => [MailNext]_mailVars
  BY DEF Next, gatewayVars, mailVars

\* The invariant of the badge: rows belong to one call, no summary is newer than the
\* mailbox, and the newest one is shown, on its way, or known to be missed.
THEOREM MailInvariant == Spec => []MailInv
  <1>1. Init => MailInv
    BY MailInitInv DEF Init
  <1>2. MailInv /\ [Next]_gatewayVars => MailInv'
    BY MailNextInv, MailFrame
  <1> QED BY <1>1, <1>2, PTL DEF Spec

\* The count the triggers keep is the number of unread mails, and a client without a
\* gap shows it once every summary has come (mysql_mail_service.go, handler.go:
\* PushMailboxChanged), for any number of calls, connections and lost messages.
THEOREM BadgeIsRight == Spec => []BadgeSettles
  <1>1. MailInv => BadgeSettles
    <2> SUFFICES ASSUME MailInv PROVE BadgeSettles
      OBVIOUS
    <2>1. box.unread = Cardinality(Unread)
      BY DEF MailInv, BadgeCounts
    <2>2. ASSUME Quiet, connOwner # NoLink, connOwner \notin missed PROVE shown[connOwner] = box
      <3>1. connOwner \in Link \ missed
        BY <2>2 DEF MailInv, MailTyped
      <3>2. ~Coming(connOwner)
        BY <2>2 DEF Quiet, Coming
      <3> QED BY <3>1, <3>2 DEF MailInv, WillShow
    <2> QED BY <2>1, <2>2 DEF BadgeSettles
  <1> QED BY <1>1, MailInvariant, PTL

-----------------------------------------------------------------------------
(* Admission control.                                                        *)

\* The tokens that a span of time brings.
Worth(x) == x * Rate

LEMMA WorthAdds ==
    /\ \A a \in Int : Worth(a) \in Int
    /\ \A a, b \in Int : Worth(a + b) = Worth(a) + Worth(b)
    /\ \A a, b \in Int : Worth(a - b) = Worth(a) - Worth(b)
    /\ \A a, b \in Int : a <= b => Worth(a) <= Worth(b)
  <1>1. Rate \in Nat
    BY AdmissionAssumption
  <1>2. \A a \in Int : Worth(a) \in Int
    BY <1>1 DEF Worth
  <1>3. ASSUME NEW a \in Int, NEW b \in Int
        PROVE  Worth(a + b) = Worth(a) + Worth(b) /\ Worth(a - b) = Worth(a) - Worth(b)
    BY <1>1 DEF Worth
  <1>4. ASSUME NEW a \in Int, NEW b \in Int, a <= b PROVE Worth(a) <= Worth(b)
    <2>1. b - a \in Nat
      BY <1>4
    <2>2. Worth(b - a) >= 0
      <3>1. \A m, n \in Nat : m * n >= 0
        OBVIOUS
      <3> QED BY <1>1, <2>1, <3>1 DEF Worth
    <2>3. Worth(b - a) = Worth(b) - Worth(a)
      BY <1>3
    <2>4. Worth(a) \in Int /\ Worth(b) \in Int
      BY <1>2
    <2> QED BY <2>2, <2>3, <2>4
  <1> QED BY <1>2, <1>3, <1>4

LEMMA IdleRefills == Worth(IdleTTL) - 2 * Worth(MaxDelay) >= Burst
  <1>1. IdleTTL \in Nat /\ MaxDelay \in Nat /\ Rate \in Nat /\ (IdleTTL - 2 * MaxDelay) * Rate >= Burst
    BY AdmissionAssumption
  <1>2. (IdleTTL - 2 * MaxDelay) * Rate = IdleTTL * Rate - 2 * (MaxDelay * Rate)
    BY <1>1
  <1> QED BY <1>1, <1>2 DEF Worth

\* Requests let through that read the clock between s and u.
LetThrough(s, u) == {r \in Admitted : asked[r].time \in s .. u}
Count(s, u) == Cardinality(LetThrough(s, u))

AdmTyped ==
    /\ now \in Nat
    /\ asked \in [Request -> [at : {"new", "held", "asks", "allowed", "limited", "refused"}, time : Int]]
    /\ \A r \in Request : asked[r].time \in 0 .. now
    /\ quota \in [left : Int, updated : Int]
    /\ quota # NoBucket => quota.updated \in 0 .. now
    /\ slots \subseteq Request

\* A call that has read the clock is not held up for longer than MaxDelay.
Prompt == \A r \in Request : asked[r].at = "asks" => asked[r].time >= now - MaxDelay

\* Calls that come late take the bucket back in time, but never far.
DebtBounded ==
    quota # NoBucket =>
        /\ quota.left + Worth(MaxDelay) >= 0
        /\ quota.left + Worth(now) >= Worth(quota.updated)

\* What a span has let through and what the bucket holds, refilled to one time, do
\* not exceed Burst; when the bucket is forgotten it would have been full.
SpanPaid(s, u) ==
    Count(s, u) # 0 =>
        /\ quota # NoBucket => Count(s, u) + quota.left + Worth(s) <= Burst + Worth(quota.updated)
        /\ quota = NoBucket => Count(s, u) + Worth(s) + Worth(MaxDelay) <= Worth(now)
        /\ Count(s, u) + Worth(s) <= Burst + Worth(u)

AdmInv ==
    /\ AdmTyped
    /\ Prompt
    /\ DebtBounded
    /\ \A s, u \in Nat : SpanPaid(s, u)
    /\ Cardinality(slots) <= MaxInflight

LEMMA CountFinite ==
    ASSUME NEW s, NEW u
    PROVE  IsFiniteSet(LetThrough(s, u)) /\ Count(s, u) \in Nat
  <1>1. LetThrough(s, u) \subseteq Request
    BY DEF LetThrough, Admitted
  <1>2. IsFiniteSet(LetThrough(s, u))
    BY <1>1, AdmissionAssumption, FS_Subset
  <1> QED BY <1>2, FS_CardinalityType DEF Count

\* Requests that come and go leave the spans.
LEMMA SpansStay ==
    ASSUME AdmInv, AdmTyped', Prompt', UNCHANGED <<now, quota>>,
           Admitted' = Admitted, \A r \in Admitted : asked'[r].time = asked[r].time,
           Cardinality(slots') <= MaxInflight
    PROVE  AdmInv'
  <1>1. DebtBounded'
    BY DEF AdmInv, DebtBounded, Worth
  <1>2. ASSUME NEW s \in Nat, NEW u \in Nat PROVE SpanPaid(s, u)'
    <2>1. LetThrough(s, u)' = LetThrough(s, u)
      BY DEF LetThrough
    <2>2. SpanPaid(s, u)
      BY DEF AdmInv
    <2> QED BY <2>1, <2>2 DEF SpanPaid, Count, Worth
  <1> QED BY <1>1, <1>2 DEF AdmInv

LEMMA PassStep == AdmInv /\ Pass => AdmInv'
  <1> SUFFICES ASSUME AdmInv, Pass PROVE AdmInv'
    OBVIOUS
  <1>1. /\ now \in Nat /\ now' = now + 1 /\ UNCHANGED <<asked, quota, slots>>
        /\ \A r \in Request : asked[r].at = "asks" => now - asked[r].time < MaxDelay
        /\ \A r \in Request : asked[r].time \in 0 .. now
        /\ MaxDelay \in Nat
    BY AdmissionAssumption DEF Pass, AdmInv, AdmTyped
  <1>2. AdmTyped' /\ Prompt'
    BY <1>1 DEF AdmInv, AdmTyped, Prompt
  <1>3. /\ Worth(now) \in Int /\ Worth(now') \in Int /\ Worth(now) <= Worth(now')
        /\ Worth(MaxDelay) \in Int /\ Worth(quota.updated) \in Int /\ quota.left \in Int
    <2>1. now \in Int /\ now' \in Int /\ now <= now' /\ quota.updated \in Int /\ quota.left \in Int
      BY <1>1 DEF AdmInv, AdmTyped
    <2>2. \A a \in Int : Worth(a) \in Int
      BY WorthAdds
    <2>3. Worth(now) <= Worth(now')
      BY <2>1, WorthAdds
    <2> QED BY <1>1, <2>1, <2>2, <2>3
  <1>4. DebtBounded'
    <2> SUFFICES ASSUME quota # NoBucket
                 PROVE  /\ quota.left + Worth(MaxDelay) >= 0
                        /\ quota.left + Worth(now') >= Worth(quota.updated)
      BY <1>1 DEF DebtBounded, Worth
    <2>1. /\ quota.left + Worth(MaxDelay) >= 0
          /\ quota.left + Worth(now) >= Worth(quota.updated)
      BY DEF AdmInv, DebtBounded
    <2> HIDE DEF Worth
    <2> QED BY <1>3, <2>1
  <1>5. ASSUME NEW s \in Nat, NEW u \in Nat PROVE SpanPaid(s, u)'
    <2>1. Count(s, u)' = Count(s, u) /\ Count(s, u) \in Nat
      BY <1>1, CountFinite DEF Count, LetThrough, Admitted
    <2>2. SpanPaid(s, u)
      BY DEF AdmInv
    <2>3. Worth(s) \in Int /\ Worth(u) \in Int
      BY WorthAdds
    <2>4. quota = NoBucket /\ Count(s, u) # 0 => Count(s, u) + Worth(s) + Worth(MaxDelay) <= Worth(now')
      <3>1. quota = NoBucket /\ Count(s, u) # 0 => Count(s, u) + Worth(s) + Worth(MaxDelay) <= Worth(now)
        BY <2>2 DEF SpanPaid
      <3> HIDE DEF Worth, Count
      <3> QED BY <1>3, <2>1, <2>3, <3>1
    <2>5. /\ quota' = quota
          /\ Worth(quota'.updated) = Worth(quota.updated)
      BY <1>1
    <2> QED BY <2>1, <2>2, <2>4, <2>5 DEF SpanPaid, Worth
  <1> QED BY <1>1, <1>2, <1>4, <1>5 DEF AdmInv

\* A bucket that is forgotten has had the time to fill.
LEMMA CleanupStep == AdmInv /\ Cleanup => AdmInv'
  <1> SUFFICES ASSUME AdmInv, Cleanup PROVE AdmInv'
    OBVIOUS
  <1>1. /\ quota # NoBucket /\ quota.updated < now - IdleTTL /\ quota' = NoBucket
        /\ UNCHANGED <<now, asked, slots>>
        /\ now \in Nat /\ quota.updated \in Int /\ quota.left \in Int
    BY DEF Cleanup, AdmInv, AdmTyped
  <1>2. AdmTyped' /\ Prompt' /\ DebtBounded'
    BY <1>1 DEF AdmInv, AdmTyped, Prompt, DebtBounded, NoBucket
  <1>3. /\ Worth(now) \in Int /\ Worth(quota.updated) \in Int /\ Worth(MaxDelay) \in Int
        /\ Worth(IdleTTL) \in Int /\ Burst \in Int
        /\ Worth(IdleTTL) - 2 * Worth(MaxDelay) >= Burst
        /\ Worth(quota.updated) + Worth(IdleTTL) <= Worth(now)
    <2>1. MaxDelay \in Int /\ IdleTTL \in Int /\ Burst \in Int /\ now \in Int
      BY <1>1, AdmissionAssumption
    <2>2. quota.updated + IdleTTL <= now /\ quota.updated + IdleTTL \in Int
      BY <1>1, <2>1
    <2>3. Worth(quota.updated + IdleTTL) <= Worth(now)
      BY <2>1, <2>2, WorthAdds
    <2>4. Worth(quota.updated + IdleTTL) = Worth(quota.updated) + Worth(IdleTTL)
      BY <1>1, <2>1, WorthAdds
    <2>5. \A a \in Int : Worth(a) \in Int
      BY WorthAdds
    <2> QED BY <1>1, <2>1, <2>3, <2>4, <2>5, IdleRefills
  <1>4. ASSUME NEW s \in Nat, NEW u \in Nat PROVE SpanPaid(s, u)'
    <2>1. Count(s, u)' = Count(s, u) /\ Count(s, u) \in Nat
      BY <1>1, CountFinite DEF Count, LetThrough, Admitted
    <2>2. /\ quota.left + Worth(MaxDelay) >= 0
          /\ Count(s, u) # 0 => Count(s, u) + quota.left + Worth(s) <= Burst + Worth(quota.updated)
          /\ Count(s, u) # 0 => Count(s, u) + Worth(s) <= Burst + Worth(u)
      BY <1>1 DEF AdmInv, DebtBounded, SpanPaid
    <2>3. Worth(s) \in Int
      BY WorthAdds
    <2>4. Count(s, u) # 0 => Count(s, u) + Worth(s) + Worth(MaxDelay) <= Worth(now)
      BY <1>1, <1>3, <2>1, <2>2, <2>3
    <2> QED BY <1>1, <2>1, <2>2, <2>4 DEF SpanPaid, Worth
  <1> QED BY <1>1, <1>2, <1>4 DEF AdmInv

LEMMA Lesser == ASSUME NEW a \in Int, NEW b \in Int PROVE Min({a, b}) = IF a <= b THEN a ELSE b
  <1> DEFINE m == IF a <= b THEN a ELSE b
  <1>1. m \in {a, b} /\ \A y \in {a, b} : m <= y
    OBVIOUS
  <1>2. \A x \in {a, b} : (\A y \in {a, b} : x <= y) => x = m
    OBVIOUS
  <1> HIDE DEF m
  <1>3. PICK x \in {a, b} : x = Min({a, b}) /\ \A y \in {a, b} : x <= y
    BY <1>1 DEF Min
  <1>4. Min({a, b}) = m
    BY <1>2, <1>3
  <1> QED BY <1>4 DEF m

\* What a bucket holds at time t, in terms of what it held.
LEMMA RefilledIs ==
    ASSUME AdmInv, NEW t \in 0 .. now, t >= now - MaxDelay
    PROVE  /\ Refilled(t) \in Int /\ Refilled(t) <= Burst
           /\ quota = NoBucket => Refilled(t) = Burst
           /\ quota # NoBucket => \/ Refilled(t) = Burst
                                  \/ Refilled(t) + Worth(quota.updated) = quota.left + Worth(t)
           /\ quota # NoBucket => Refilled(t) + Worth(quota.updated) <= quota.left + Worth(t)
           /\ Refilled(t) + Worth(now) >= Worth(t)
           /\ Refilled(t) + Worth(MaxDelay) >= 0
  <1>1. /\ now \in Nat /\ quota.left \in Int /\ quota.updated \in Int /\ t \in Int
        /\ Burst \in Nat /\ MaxDelay \in Nat
    BY AdmissionAssumption DEF AdmInv, AdmTyped
  <1>2. /\ Worth(t) \in Int /\ Worth(now) \in Int /\ Worth(quota.updated) \in Int
        /\ Worth(MaxDelay) \in Int /\ Worth(t) <= Worth(now)
        /\ Worth(now) <= Worth(t) + Worth(MaxDelay)
        /\ Worth(t - quota.updated) = Worth(t) - Worth(quota.updated)
    <2>1. \A a \in Int : Worth(a) \in Int
      BY WorthAdds
    <2>2. t <= now /\ now <= t + MaxDelay /\ t + MaxDelay \in Int /\ now \in Int /\ MaxDelay \in Int
      BY <1>1
    <2>3. Worth(t) <= Worth(now)
      BY <1>1, <2>2, WorthAdds
    <2>4. Worth(now) <= Worth(t + MaxDelay)
      BY <2>2, WorthAdds
    <2>5. Worth(t + MaxDelay) = Worth(t) + Worth(MaxDelay)
      BY <1>1, <2>2, WorthAdds
    <2>6. Worth(t - quota.updated) = Worth(t) - Worth(quota.updated)
      BY <1>1, WorthAdds
    <2> QED BY <1>1, <2>1, <2>2, <2>3, <2>4, <2>5, <2>6
  <1>3. CASE quota = NoBucket
    <2>1. Refilled(t) = Burst
      BY <1>3 DEF Refilled
    <2> QED BY <1>1, <1>2, <1>3, <2>1
  <1>4. CASE quota # NoBucket
    <2> DEFINE x == quota.left + Worth(t - quota.updated)
    <2>1. Refilled(t) = Min({Burst, x}) /\ x \in Int /\ x = quota.left + Worth(t) - Worth(quota.updated)
      BY <1>1, <1>2, <1>4 DEF Refilled, Worth
    <2>2. /\ quota.left + Worth(MaxDelay) >= 0
          /\ quota.left + Worth(now) >= Worth(quota.updated)
      BY <1>4 DEF AdmInv, DebtBounded
    <2> HIDE DEF x
    <2>3. Refilled(t) = IF Burst <= x THEN Burst ELSE x
      BY <1>1, <2>1, Lesser
    <2>4. x + Worth(now) >= Worth(t)
      BY <1>1, <1>2, <2>1, <2>2
    <2> QED BY <1>1, <1>2, <1>4, <2>1, <2>3, <2>4
  <1> QED BY <1>3, <1>4

\* A request that takes a token pays for itself in every span.
LEMMA AllowStep ==
    ASSUME AdmInv, NEW r \in Request, Allow(r) PROVE AdmInv'
  <1> DEFINE t == asked[r].time
             left == Refilled(t)
             holds == IF left < 1 THEN left ELSE left - 1
             at == IF left < 1 THEN "limited" ELSE "allowed"
  <1>1. /\ asked[r].at = "asks" /\ t \in 0 .. now /\ t >= now - MaxDelay
        /\ quota' = [left |-> holds, updated |-> t]
        /\ asked' = [asked EXCEPT ![r].at = at]
        /\ UNCHANGED <<now, slots>>
        /\ now \in Nat /\ t \in Nat /\ Burst \in Nat /\ Burst >= 1 /\ MaxDelay \in Nat
        /\ quota.left \in Int /\ quota.updated \in Int
    BY AdmissionAssumption DEF Allow, AdmInv, AdmTyped, Prompt
  <1>2. /\ left \in Int /\ left <= Burst
        /\ quota = NoBucket => left = Burst
        /\ quota # NoBucket => left + Worth(quota.updated) <= quota.left + Worth(t)
        /\ left + Worth(now) >= Worth(t)
        /\ left + Worth(MaxDelay) >= 0
    BY <1>1, RefilledIs
  <1>3. \A q \in Request : /\ asked'[q].time = asked[q].time
                           /\ asked'[q].at = IF q = r THEN at ELSE asked[q].at
    BY <1>1 DEF AdmInv, AdmTyped
  <1> HIDE DEF left, t
  <1>4. holds \in Int /\ quota' \in [left : Int, updated : Int] /\ quota'.left = holds /\ quota'.updated = t
    BY <1>1, <1>2
  <1>5. quota' # NoBucket
    <2>1. NoBucket.updated = -1
      BY DEF NoBucket
    <2> QED BY <1>1, <1>4, <2>1
  <1>6. AdmTyped'
    <2>1. asked' \in [Request -> [at : {"new", "held", "asks", "allowed", "limited", "refused"}, time : Int]]
      BY <1>1 DEF AdmInv, AdmTyped
    <2> QED BY <1>1, <1>3, <1>4, <2>1 DEF AdmInv, AdmTyped
  <1>7. Prompt'
    BY <1>1, <1>3 DEF AdmInv, Prompt
  <1>8. /\ Worth(now) \in Int /\ Worth(t) \in Int /\ Worth(quota.updated) \in Int /\ Worth(MaxDelay) \in Int
        /\ Worth(t) <= Worth(now) /\ Worth(now) <= Worth(t) + Worth(MaxDelay) /\ Worth(MaxDelay) >= 0
    <2>1. \A a \in Int : Worth(a) \in Int
      BY WorthAdds
    <2>2. /\ t <= now /\ now <= t + MaxDelay /\ t + MaxDelay \in Int /\ now \in Int /\ MaxDelay \in Int
          /\ t \in Int /\ t <= t + MaxDelay
      BY <1>1
    <2>3. Worth(t) <= Worth(now) /\ Worth(now) <= Worth(t + MaxDelay) /\ Worth(t) <= Worth(t + MaxDelay)
      BY <2>2, WorthAdds
    <2>4. Worth(t + MaxDelay) = Worth(t) + Worth(MaxDelay)
      BY <2>2, WorthAdds
    <2>5. Worth(now) \in Int /\ Worth(t) \in Int /\ Worth(quota.updated) \in Int /\ Worth(MaxDelay) \in Int
      BY <1>1, <2>1, <2>2
    <2> QED BY <2>3, <2>4, <2>5
  <1>9. DebtBounded'
    <2>1. holds + Worth(MaxDelay) >= 0 /\ holds + Worth(now) >= Worth(t)
      BY <1>2, <1>8
    <2> QED BY <1>1, <1>4, <2>1 DEF DebtBounded, Worth
  <1>10. ASSUME NEW s \in Nat, NEW u \in Nat PROVE SpanPaid(s, u)'
    <2>1. Count(s, u) \in Nat /\ IsFiniteSet(LetThrough(s, u)) /\ Worth(s) \in Int /\ Worth(u) \in Int
      <3>1. Count(s, u) \in Nat /\ IsFiniteSet(LetThrough(s, u))
        BY CountFinite
      <3>2. Worth(s) \in Int /\ Worth(u) \in Int
        BY WorthAdds
      <3> QED BY <3>1, <3>2
    <2>2. /\ Count(s, u) # 0 /\ quota # NoBucket =>
                Count(s, u) + quota.left + Worth(s) <= Burst + Worth(quota.updated)
          /\ Count(s, u) # 0 /\ quota = NoBucket => Count(s, u) + Worth(s) + Worth(MaxDelay) <= Worth(now)
          /\ Count(s, u) # 0 => Count(s, u) + Worth(s) <= Burst + Worth(u)
      BY DEF AdmInv, SpanPaid
    <2>3. Count(s, u) # 0 => Count(s, u) + left + Worth(s) <= Burst + Worth(t)
      BY <1>1, <1>2, <1>8, <2>1, <2>2
    <2>4. r \notin LetThrough(s, u)
      BY <1>1 DEF LetThrough, Admitted
    <2>5. CASE left >= 1 /\ t \in s .. u
      <3>1. LetThrough(s, u)' = LetThrough(s, u) \cup {r}
        BY <1>1, <1>2, <1>3, <2>5 DEF LetThrough, Admitted, t
      <3>2. Count(s, u)' = Count(s, u) + 1
        BY <2>1, <2>4, <3>1, FS_AddElement DEF Count
      <3>3. Worth(s) <= Worth(t) /\ Worth(t) <= Worth(u)
        <4>1. s <= t /\ t <= u /\ s \in Int /\ u \in Int /\ t \in Int
          BY <1>1, <2>5
        <4> QED BY <4>1, WorthAdds
      <3>4. /\ Count(s, u) + 1 + holds + Worth(s) <= Burst + Worth(t)
            /\ Count(s, u) + 1 + Worth(s) <= Burst + Worth(u)
        <4>1. holds = left - 1 /\ holds \in Nat
          BY <1>2, <2>5
        <4> HIDE DEF holds
        <4> QED BY <1>1, <1>2, <1>8, <2>1, <2>3, <3>3, <4>1
      <3> QED BY <1>4, <1>5, <3>2, <3>4 DEF SpanPaid, Worth
    <2>6. CASE ~(left >= 1 /\ t \in s .. u)
      <3>1. LetThrough(s, u)' = LetThrough(s, u)
        BY <1>1, <1>2, <1>3, <2>6 DEF LetThrough, Admitted, t
      <3>2. Count(s, u)' = Count(s, u)
        BY <3>1 DEF Count
      <3>3. Count(s, u) # 0 => Count(s, u) + holds + Worth(s) <= Burst + Worth(t)
        <4>1. holds <= left
          BY <1>2
        <4> HIDE DEF holds
        <4> QED BY <1>1, <1>2, <1>4, <1>8, <2>1, <2>3, <4>1
      <3> QED BY <1>4, <1>5, <2>2, <3>2, <3>3 DEF SpanPaid, Worth
    <2> QED BY <1>1, <1>2, <2>5, <2>6
  <1>11. Cardinality(slots') <= MaxInflight
    BY <1>1 DEF AdmInv
  <1> QED BY <1>6, <1>7, <1>9, <1>10, <1>11 DEF AdmInv

LEMMA AdmNextInv == AdmInv /\ [AdmNext]_admVars => AdmInv'
  <1> SUFFICES ASSUME AdmInv, [AdmNext]_admVars PROVE AdmInv'
    OBVIOUS
  <1> USE DEF AdmTyped, Prompt
  <1>1. AdmTyped /\ Prompt /\ Cardinality(slots) <= MaxInflight /\ IsFiniteSet(slots)
        /\ MaxDelay \in Nat /\ MaxInflight \in Nat
    BY AdmissionAssumption, FS_Subset DEF AdmInv
  <1>2. ASSUME NEW r \in Request, ReadClock(r) PROVE AdmInv'
    <2>1. /\ asked[r].at \in {"new", "held"} /\ asked' = [asked EXCEPT ![r] = [at |-> "asks", time |-> now]]
          /\ UNCHANGED <<now, quota, slots>>
      BY <1>2 DEF ReadClock
    <2>2. AdmTyped' /\ Prompt'
      BY <1>1, <2>1
    <2>3. Admitted' = Admitted /\ \A q \in Admitted : asked'[q].time = asked[q].time
      BY <1>1, <2>1 DEF Admitted
    <2> QED BY <1>1, <2>1, <2>2, <2>3, SpansStay
  <1>3. ASSUME NEW r \in Request, Acquire(r) PROVE AdmInv'
    <2>1. /\ asked[r].at = "new" /\ asked' = [asked EXCEPT ![r].at = "held"]
          /\ Cardinality(slots) < MaxInflight /\ slots' = slots \cup {r}
          /\ UNCHANGED <<now, quota>>
      BY <1>3 DEF Acquire
    <2>2. AdmTyped' /\ Prompt'
      BY <1>1, <2>1
    <2>3. Admitted' = Admitted /\ \A q \in Admitted : asked'[q].time = asked[q].time
      BY <1>1, <2>1 DEF Admitted
    <2>4. Cardinality(slots') <= MaxInflight
      <3>1. Cardinality(slots) \in Nat
        BY <1>1, FS_CardinalityType
      <3>2. Cardinality(slots \cup {r}) = IF r \in slots THEN Cardinality(slots) ELSE Cardinality(slots) + 1
        BY <1>1, FS_AddElement
      <3> QED BY <1>1, <2>1, <3>1, <3>2
    <2> QED BY <2>1, <2>2, <2>3, <2>4, SpansStay
  <1>4. ASSUME NEW r \in Request, Refuse(r) PROVE AdmInv'
    <2>1. /\ asked[r].at = "new" /\ asked' = [asked EXCEPT ![r].at = "refused"]
          /\ UNCHANGED <<now, quota, slots>>
      BY <1>4 DEF Refuse
    <2>2. AdmTyped' /\ Prompt'
      BY <1>1, <2>1
    <2>3. Admitted' = Admitted /\ \A q \in Admitted : asked'[q].time = asked[q].time
      BY <1>1, <2>1 DEF Admitted
    <2> QED BY <1>1, <2>1, <2>2, <2>3, SpansStay
  <1>5. ASSUME NEW r \in Request, Release(r) PROVE AdmInv'
    <2>1. r \in slots /\ slots' = slots \ {r} /\ UNCHANGED <<now, asked, quota>>
      BY <1>5 DEF Release
    <2>2. AdmTyped' /\ Prompt' /\ Admitted' = Admitted
      BY <1>1, <2>1 DEF Admitted
    <2>3. Cardinality(slots') <= MaxInflight
      <3>1. Cardinality(slots \ {r}) = Cardinality(slots) - 1 /\ Cardinality(slots) \in Nat
        BY <1>1, <2>1, FS_RemoveElement, FS_CardinalityType
      <3> QED BY <1>1, <2>1, <3>1
    <2> QED BY <2>1, <2>2, <2>3, SpansStay
  <1>6. CASE UNCHANGED admVars
    <2>1. UNCHANGED <<now, asked, quota, slots>>
      BY <1>6 DEF admVars
    <2>2. AdmTyped' /\ Prompt' /\ Admitted' = Admitted
      BY <1>1, <2>1 DEF Admitted
    <2> QED BY <1>1, <2>1, <2>2, SpansStay
  <1> QED BY <1>2, <1>3, <1>4, <1>5, <1>6, PassStep, CleanupStep, AllowStep DEF AdmNext

LEMMA AdmInitInv == AdmInit => AdmInv
  <1> SUFFICES ASSUME AdmInit PROVE AdmInv
    OBVIOUS
  <1>1. AdmTyped /\ Prompt /\ DebtBounded
    BY AdmissionAssumption DEF AdmInit, AdmTyped, Prompt, DebtBounded, NoBucket
  <1>2. ASSUME NEW s \in Nat, NEW u \in Nat PROVE SpanPaid(s, u)
    <2>1. LetThrough(s, u) = {}
      BY DEF AdmInit, LetThrough, Admitted
    <2>2. Count(s, u) = 0
      BY <2>1, FS_EmptySet DEF Count
    <2> QED BY <2>2 DEF SpanPaid
  <1>3. Cardinality(slots) <= MaxInflight
    <2>1. Cardinality(slots) = 0 /\ MaxInflight \in Nat
      BY FS_EmptySet, AdmissionAssumption DEF AdmInit
    <2> QED BY <2>1
  <1> QED BY <1>1, <1>2, <1>3 DEF AdmInv

LEMMA AdmFrame == [Next]_gatewayVars => [AdmNext]_admVars
  BY DEF Next, gatewayVars, admVars

\* The invariant of admission control: what every span of time has let through, and
\* what the bucket still holds, is paid for.
THEOREM AdmissionInvariant == Spec => []AdmInv
  <1>1. Init => AdmInv
    BY AdmInitInv DEF Init
  <1>2. AdmInv /\ [Next]_gatewayVars => AdmInv'
    BY AdmNextInv, AdmFrame
  <1> QED BY <1>1, <1>2, PTL DEF Spec

LEMMA SpansAreBounded == AdmInv => AdmissionBounded
  <1> SUFFICES ASSUME AdmInv PROVE AdmissionBounded
    OBVIOUS
  <1>1. ASSUME NEW s \in 0 .. now, NEW u \in s .. now
        PROVE  Cardinality({r \in Admitted : asked[r].time \in s .. u}) <= Burst + Rate * (u - s)
    <2>1. s \in Int /\ u \in Int /\ s \in Nat /\ u \in Nat /\ s <= u /\ Burst \in Nat /\ Rate \in Nat
      BY AdmissionAssumption DEF AdmInv, AdmTyped
    <2>2. SpanPaid(s, u) /\ Count(s, u) \in Nat
      BY <2>1, CountFinite DEF AdmInv
    <2>3. /\ Worth(s) \in Int /\ Worth(u) \in Int /\ Worth(s) <= Worth(u)
          /\ Worth(u - s) = Worth(u) - Worth(s)
      BY <2>1, WorthAdds
    <2>4. Count(s, u) # 0 => Count(s, u) + Worth(s) <= Burst + Worth(u)
      BY <2>2 DEF SpanPaid
    <2>5. Count(s, u) <= Burst + Worth(u - s)
      BY <2>1, <2>2, <2>3, <2>4
    <2>6. Worth(u - s) = Rate * (u - s)
      BY <2>1 DEF Worth
    <2> QED BY <2>5, <2>6 DEF Count, LetThrough
  <1>2. Cardinality(slots) <= MaxInflight
    BY DEF AdmInv
  <1> QED BY <1>1, <1>2 DEF AdmissionBounded

-----------------------------------------------------------------------------
(* The economy coalescer.                                                    *)

KeysOf(calls) == {Key(q) : q \in calls}
AskedOf(calls) == [k \in KeysOf(calls) |-> Quantity(k)]

Purchase == [waiters : SUBSET Buy, keys : SUBSET KeysOf(Buy), total : 0 .. MaxQuantity,
             timer : {"set", "stopped", "fired"}, once : {"open", "entered", "done"},
             flush : {"no", "starts", "sends", "over"}]

\* A bucket counts each of its keys once, and its flush starts with its once.
Sums(b) ==
    /\ b \in Purchase
    /\ b.keys = KeysOf(b.waiters)
    /\ IsFiniteSet(Buys!Units(AskedOf(b.waiters)))
    /\ b.total = Buys!AskedFor(b.waiters)
    /\ b.flush = "no" <=> b.once = "open"

\* A call joins no bucket that its flush has taken out of the map.
Grows ==
    /\ bucket \in Seq(Purchase)
    /\ \A b \in 1 .. Len(bucket) : Sums(bucket[b])
    /\ current \in 0 .. Len(bucket)
    /\ current # 0 => bucket[current].flush \in {"no", "starts"}

\* A command stands for a bucket that is over.
Stands ==
    /\ sent \in Seq([of : Nat, quantity : Int])
    /\ \A i \in 1 .. Len(sent) :
          /\ sent[i].of \in 1 .. Len(bucket)
          /\ bucket[sent[i].of].flush = "over"
          /\ sent[i].quantity = bucket[sent[i].of].total
    /\ \A i, j \in 1 .. Len(sent) : sent[i].of = sent[j].of => i = j

CoalInv == Grows /\ Stands

\* The instance counts as everyone counts.
LEMMA SameCount == \A S : Buys!Cardinality(S) = Cardinality(S)
  BY Zenon DEF Buys!Cardinality, Cardinality

LEMMA AskedIsCounted ==
    ASSUME NEW calls
    PROVE  Buys!AskedFor(calls) = Cardinality(Buys!Units(AskedOf(calls)))
  <1>1. Buys!AskedFor(calls) = Buys!Cardinality(Buys!Units(AskedOf(calls)))
    BY Zenon DEF Buys!AskedFor, Buys!Tally, AskedOf, KeysOf
  <1> QED BY <1>1, SameCount

\* A call whose key is there already asks for nothing more, any other for its quantity.
LEMMA AsksMore ==
    ASSUME NEW calls \in SUBSET Buy, NEW q \in Buy, IsFiniteSet(Buys!Units(AskedOf(calls)))
    PROVE  /\ KeysOf(calls \cup {q}) = KeysOf(calls) \cup {Key(q)}
           /\ IsFiniteSet(Buys!Units(AskedOf(calls \cup {q})))
           /\ Buys!AskedFor(calls) \in Nat
           /\ Buys!AskedFor(calls \cup {q})
              = Buys!AskedFor(calls) + (IF Key(q) \in KeysOf(calls) THEN 0 ELSE Quantity(Key(q)))
  <1> DEFINE k == Key(q)
             old == Buys!Units(AskedOf(calls))
             one == {k} \X (1 .. Quantity(k))
             new == Buys!Units(AskedOf(calls \cup {q}))
  <1>1. KeysOf(calls \cup {q}) = KeysOf(calls) \cup {k}
    BY DEF KeysOf
  <1>2. Quantity(k) \in 1 .. MaxQuantity /\ MaxQuantity \in Nat
    BY BuyAssumption
  <1>3. /\ Buys!AskedFor(calls) = Cardinality(old)
        /\ Buys!AskedFor(calls \cup {q}) = Cardinality(new)
    BY AskedIsCounted
  <1>4. Cardinality(old) \in Nat
    BY FS_CardinalityType
  <1>5. CASE k \in KeysOf(calls)
    <2>1. AskedOf(calls \cup {q}) = AskedOf(calls)
      BY <1>1, <1>5 DEF AskedOf
    <2> QED BY <1>1, <1>3, <1>4, <1>5, <2>1
  <1>6. CASE k \notin KeysOf(calls)
    <2>1. old = UNION {{x} \X (1 .. Quantity(x)) : x \in KeysOf(calls)}
      BY DEF Buys!Units, AskedOf
    <2>2. new = UNION {{x} \X (1 .. Quantity(x)) : x \in KeysOf(calls) \cup {k}}
      BY <1>1 DEF Buys!Units, AskedOf
    <2>3. new = old \cup one /\ old \cap one = {}
      BY <1>6, <2>1, <2>2
    <2>4. IsFiniteSet(one) /\ Cardinality(one) = Quantity(k)
      <3> DEFINE n == Quantity(k)
      <3>1. n \in Int /\ n > 0
        BY <1>2
      <3> HIDE DEF n
      <3>2. /\ IsFiniteSet({k} \X (1 .. n))
            /\ Cardinality({k} \X (1 .. n)) = IF n > 0 THEN n ELSE 0
        BY <3>1, UnitsOfOne
      <3> QED BY <3>1, <3>2 DEF n
    <2> HIDE DEF old, one, new
    <2>5. /\ IsFiniteSet(old \cup one)
          /\ Cardinality(old \cup one) = Cardinality(old) + Cardinality(one) - Cardinality(old \cap one)
      BY <2>4, FS_Union DEF old
    <2>6. Cardinality(old \cap one) = 0
      BY <2>3, FS_EmptySet
    <2>7. IsFiniteSet(new) /\ Cardinality(new) = Cardinality(old) + Quantity(k)
      BY <1>2, <1>4, <2>3, <2>4, <2>5, <2>6
    <2> QED BY <1>1, <1>3, <1>4, <1>6, <2>7 DEF new
  <1> QED BY <1>5, <1>6

LEMMA AsksNothing ==
    IsFiniteSet(Buys!Units(AskedOf({}))) /\ Buys!AskedFor({}) = 0 /\ KeysOf({}) = {}
  <1>1. KeysOf({}) = {}
    BY DEF KeysOf
  <1>2. Buys!Units(AskedOf({})) = {}
    BY <1>1 DEF Buys!Units, AskedOf
  <1> QED BY <1>1, <1>2, AskedIsCounted, FS_EmptySet

LEMMA NewBucketSums == Sums(Buys!NewBucket) /\ Buys!NewBucket.flush = "no"
  <1>1. MaxQuantity \in Nat
    BY BuyAssumption
  <1>2. Buys!NewBucket \in Purchase
    BY <1>1 DEF Buys!NewBucket, Purchase
  <1>3. /\ Buys!NewBucket.waiters = {} /\ Buys!NewBucket.keys = {} /\ Buys!NewBucket.total = 0
        /\ Buys!NewBucket.flush = "no" /\ Buys!NewBucket.once = "open"
    BY DEF Buys!NewBucket
  <1> QED BY <1>2, <1>3, AsksNothing DEF Sums

\* A call that fits joins a bucket that still adds up.
LEMMA JoinedSums ==
    ASSUME NEW b, Sums(b), NEW q \in Buy,
           Key(q) \in b.keys \/ b.total + Quantity(Key(q)) <= MaxQuantity
    PROVE  Sums(Buys!Joined(b, q)) /\ Buys!Joined(b, q).flush = b.flush
  <1> DEFINE j == Buys!Joined(b, q)
  <1>1. /\ b \in Purchase /\ b.waiters \in SUBSET Buy /\ b.keys \in SUBSET KeysOf(Buy)
        /\ b.total \in 0 .. MaxQuantity
    BY DEF Sums, Purchase
  <1>2. Quantity(Key(q)) \in 1 .. MaxQuantity /\ MaxQuantity \in Nat
    BY BuyAssumption
  <1>3. /\ j.waiters = b.waiters \cup {q} /\ j.keys = b.keys \cup {Key(q)}
        /\ j.total = IF Key(q) \in b.keys THEN b.total ELSE b.total + Quantity(Key(q))
        /\ j.flush = b.flush /\ j.once = b.once
    BY <1>1 DEF Buys!Joined, Purchase
  <1>4. j.total \in 0 .. MaxQuantity
    BY <1>1, <1>2, <1>3
  <1>5. Key(q) \in KeysOf(Buy)
    BY DEF KeysOf
  <1>6. j \in Purchase
    <2>1. j = [b EXCEPT !.waiters = b.waiters \cup {q}, !.keys = b.keys \cup {Key(q)},
                        !.total = j.total]
      BY <1>1 DEF Buys!Joined, Purchase
    <2>2. b.waiters \cup {q} \in SUBSET Buy /\ b.keys \cup {Key(q)} \in SUBSET KeysOf(Buy)
      BY <1>1, <1>5
    <2> HIDE DEF j
    <2> QED BY <1>1, <1>4, <2>1, <2>2 DEF Purchase
  <1>7. /\ IsFiniteSet(Buys!Units(AskedOf(b.waiters))) /\ b.keys = KeysOf(b.waiters)
        /\ b.total = Buys!AskedFor(b.waiters)
    BY DEF Sums
  <1>8. /\ KeysOf(b.waiters \cup {q}) = b.keys \cup {Key(q)}
        /\ IsFiniteSet(Buys!Units(AskedOf(b.waiters \cup {q})))
        /\ Buys!AskedFor(b.waiters) \in Nat
        /\ Buys!AskedFor(b.waiters \cup {q})
           = Buys!AskedFor(b.waiters) + (IF Key(q) \in b.keys THEN 0 ELSE Quantity(Key(q)))
    BY <1>1, <1>7, AsksMore
  <1>9. j.total = Buys!AskedFor(j.waiters)
    BY <1>2, <1>3, <1>7, <1>8
  <1>10. b.flush = "no" <=> b.once = "open"
    BY DEF Sums
  <1> HIDE DEF j
  <1>11. Sums(j)
    BY <1>3, <1>6, <1>7, <1>8, <1>9, <1>10 DEF Sums
  <1> QED BY <1>3, <1>11 DEF j

\* Bucket b becomes v; every command that is out stands where it stood.
LEMMA BucketBecomes ==
    ASSUME CoalInv, NEW b \in 1 .. Len(bucket), NEW v, Sums(v),
           bucket' = [bucket EXCEPT ![b] = v], UNCHANGED sent,
           current' \in 0 .. Len(bucket),
           current' # 0 => bucket'[current'].flush \in {"no", "starts"},
           bucket[b].flush = "over" => v = bucket[b]
    PROVE  CoalInv'
  <1>1. bucket \in Seq(Purchase) /\ v \in Purchase
    BY DEF CoalInv, Grows, Sums
  <1>2. /\ bucket' \in Seq(Purchase) /\ Len(bucket') = Len(bucket)
        /\ bucket'[b] = v
        /\ \A c \in 1 .. Len(bucket) : c # b => bucket'[c] = bucket[c]
    BY <1>1
  <1>3. \A c \in 1 .. Len(bucket) : bucket[c].flush = "over" => bucket'[c] = bucket[c]
    BY <1>2
  <1>4. Grows'
    <2>1. \A c \in 1 .. Len(bucket') : Sums(bucket'[c])
      BY <1>2 DEF CoalInv, Grows
    <2> QED BY <1>2, <2>1 DEF Grows
  <1>5. Stands'
    BY <1>2, <1>3 DEF CoalInv, Stands
  <1> QED BY <1>4, <1>5 DEF CoalInv

\* A bucket is added at the end.
LEMMA BucketAdded ==
    ASSUME CoalInv, NEW v, Sums(v), v.flush = "no",
           bucket' = Append(bucket, v), current' = Len(bucket) + 1, UNCHANGED sent
    PROVE  CoalInv'
  <1>1. bucket \in Seq(Purchase) /\ v \in Purchase
    BY DEF CoalInv, Grows, Sums
  <1>2. /\ bucket' \in Seq(Purchase) /\ Len(bucket') = Len(bucket) + 1 /\ Len(bucket) \in Nat
        /\ bucket'[Len(bucket) + 1] = v
        /\ \A c \in 1 .. Len(bucket) : bucket'[c] = bucket[c]
    BY <1>1
  <1>3. Grows'
    <2>1. \A c \in 1 .. Len(bucket') : Sums(bucket'[c])
      BY <1>2 DEF CoalInv, Grows
    <2>2. current' \in 0 .. Len(bucket') /\ bucket'[current'].flush = "no"
      BY <1>2
    <2> QED BY <1>2, <2>1, <2>2 DEF Grows
  <1>4. Stands'
    BY <1>2 DEF CoalInv, Stands
  <1> QED BY <1>3, <1>4 DEF CoalInv

LEMMA LastReplaced ==
    ASSUME NEW P, NEW s \in Seq(P), NEW x \in P, NEW y \in P
    PROVE  [Append(s, x) EXCEPT ![Len(s) + 1] = y] = Append(s, y)
  <1> DEFINE t == [Append(s, x) EXCEPT ![Len(s) + 1] = y]
             u == Append(s, y)
  <1>1. Append(s, x) \in Seq(P) /\ Len(Append(s, x)) = Len(s) + 1 /\ Len(s) \in Nat
    OBVIOUS
  <1>2. u \in Seq(P) /\ Len(u) = Len(s) + 1
    OBVIOUS
  <1>3. t \in Seq(P) /\ Len(t) = Len(s) + 1
    BY <1>1
  <1>4. \A i \in 1 .. Len(s) + 1 : t[i] = u[i]
    <2>1. ASSUME NEW i \in 1 .. Len(s) + 1, i = Len(s) + 1 PROVE t[i] = u[i]
      <3>1. t[i] = y
        BY <1>1, <2>1
      <3>2. u[i] = y
        BY <2>1
      <3> QED BY <3>1, <3>2
    <2>2. ASSUME NEW i \in 1 .. Len(s) + 1, i # Len(s) + 1 PROVE t[i] = u[i]
      <3>1. i \in 1 .. Len(s)
        BY <1>1, <2>2
      <3>2. Append(s, x)[i] = s[i] /\ u[i] = s[i]
        BY <3>1
      <3>3. ASSUME NEW r \in Seq(P), i \in 1 .. Len(r), Len(s) + 1 # i
            PROVE  [r EXCEPT ![Len(s) + 1] = y][i] = r[i]
        BY <3>3
      <3>4. t[i] = Append(s, x)[i]
        BY <1>1, <2>2, <3>1, <3>3
      <3> QED BY <3>2, <3>4
    <2> QED BY <2>1, <2>2
  <1> HIDE DEF t, u
  <1>5. /\ DOMAIN t = 1 .. Len(s) + 1 /\ t = [i \in DOMAIN t |-> t[i]]
        /\ DOMAIN u = 1 .. Len(s) + 1 /\ u = [i \in DOMAIN u |-> u[i]]
    BY <1>1, <1>2, <1>3
  <1>6. t = u
    BY <1>4, <1>5
  <1> QED BY <1>6 DEF t, u

LEMMA SubmitStep ==
    ASSUME CoalInv, NEW q \in Buy, Buys!Submit(q)
    PROVE  CoalInv'
  <1>1. CASE current = 0
    <2> DEFINE v == Buys!Joined(Buys!NewBucket, q)
    <2>1. bucket \in Seq(Purchase) /\ Len(bucket) \in Nat
      BY DEF CoalInv, Grows
    <2>2. /\ Buys!Found = Append(bucket, Buys!NewBucket) /\ Buys!Here = Len(bucket) + 1
          /\ Buys!Found[Buys!Here] = Buys!NewBucket
      BY <1>1, <2>1 DEF Buys!Found, Buys!Here
    <2>3. Sums(v) /\ v.flush = "no"
      BY <2>2, NewBucketSums, JoinedSums DEF Buys!Submit, Buys!Fits
    <2>4. /\ bucket' = [Buys!Found EXCEPT ![Buys!Here] = v] /\ current' = Len(bucket) + 1
          /\ UNCHANGED sent
      BY <2>2 DEF Buys!Submit
    <2> HIDE DEF v
    <2>5. v \in Purchase /\ Buys!NewBucket \in Purchase
      BY <2>3, NewBucketSums DEF Sums
    <2>6. bucket' = Append(bucket, v)
      BY <2>1, <2>2, <2>4, <2>5, LastReplaced
    <2> QED BY <2>3, <2>4, <2>6, BucketAdded
  <1>2. CASE current # 0
    <2> DEFINE v == Buys!Joined(bucket[current], q)
    <2>1. Buys!Found = bucket /\ Buys!Here = current
      BY <1>2 DEF Buys!Found, Buys!Here
    <2>2. /\ current \in 1 .. Len(bucket) /\ Sums(bucket[current])
          /\ bucket[current].flush \in {"no", "starts"}
      BY <1>2 DEF CoalInv, Grows
    <2>3. Sums(v) /\ v.flush = bucket[current].flush
      BY <2>1, <2>2, JoinedSums DEF Buys!Submit, Buys!Fits
    <2>4. /\ bucket' = [bucket EXCEPT ![current] = v] /\ current' = current
          /\ UNCHANGED sent
      BY <2>1 DEF Buys!Submit
    <2> HIDE DEF v
    <2>5. bucket'[current].flush = v.flush /\ current \in 0 .. Len(bucket)
      BY <2>2, <2>4 DEF CoalInv, Grows
    <2> QED BY <2>2, <2>3, <2>4, <2>5, BucketBecomes
  <1> QED BY <1>1, <1>2

\* The once that fires a bucket starts its flush.
LEMMA FiredSums ==
    ASSUME NEW b, Sums(b), b.once = "open", NEW t \in {"stopped", "fired"}, NEW o \in {"entered", "done"}
    PROVE  Sums([b EXCEPT !.timer = t, !.once = o, !.flush = "starts"])
  <1> DEFINE v == [b EXCEPT !.timer = t, !.once = o, !.flush = "starts"]
  <1>1. b \in Purchase
    BY DEF Sums
  <1>2. v \in Purchase /\ v.waiters = b.waiters /\ v.keys = b.keys /\ v.total = b.total
        /\ v.once = o /\ v.flush = "starts"
    BY <1>1 DEF Purchase
  <1> HIDE DEF v
  <1>3. Sums(v)
    BY <1>2 DEF Sums
  <1> QED BY <1>3 DEF v

LEMMA OverflowStep ==
    ASSUME CoalInv, NEW q \in Buy, Buys!SubmitOverflow(q)
    PROVE  CoalInv'
  <1>1. Quantity(Key(q)) \in 1 .. MaxQuantity /\ MaxQuantity \in Nat
    BY BuyAssumption
  <1>2. current # 0
    <2>1. SUFFICES ASSUME current = 0 PROVE Buys!Fits(q)
      BY DEF Buys!SubmitOverflow
    <2>2. bucket \in Seq(Purchase)
      BY DEF CoalInv, Grows
    <2>3. Buys!Found[Buys!Here] = Buys!NewBucket
      BY <2>1, <2>2 DEF Buys!Found, Buys!Here
    <2>4. Buys!NewBucket.total = 0
      BY DEF Buys!NewBucket
    <2> QED BY <1>1, <2>3, <2>4 DEF Buys!Fits
  <1>3. /\ current \in 1 .. Len(bucket) /\ Sums(bucket[current])
        /\ bucket[current].flush \in {"no", "starts"} /\ bucket \in Seq(Purchase)
    BY <1>2 DEF CoalInv, Grows
  <1>4. CASE bucket[current].once = "entered"
    <2>1. UNCHANGED <<bucket, current, sent>>
      BY <1>4 DEF Buys!SubmitOverflow
    <2> QED BY <2>1 DEF CoalInv, Grows, Stands, Sums
  <1>5. CASE bucket[current].once # "entered"
    <2> DEFINE v == Buys!Joined(Buys!NewBucket, q)
               old == Buys!Opens(current)
    <2>1. bucket' = Append(old, v) /\ current' = Len(bucket) + 1 /\ UNCHANGED sent
      BY <1>5 DEF Buys!SubmitOverflow
    <2>2. Sums(v) /\ v.flush = "no"
      <3>1. Sums(Buys!NewBucket) /\ Buys!NewBucket.total = 0 /\ Buys!NewBucket.flush = "no"
        BY NewBucketSums DEF Buys!NewBucket
      <3> QED BY <1>1, <3>1, JoinedSums
    <2> HIDE DEF v
    <2>3. /\ old \in Seq(Purchase) /\ Len(old) = Len(bucket)
          /\ \A c \in 1 .. Len(bucket) :
                Sums(old[c]) /\ (bucket[c].flush = "over" => old[c] = bucket[c])
      <3>1. CASE bucket[current].once = "open"
        <4> DEFINE w == [bucket[current] EXCEPT !.timer = "stopped", !.once = "done", !.flush = "starts"]
        <4>1. Sums(w) /\ w \in Purchase
          BY <1>3, <3>1, FiredSums DEF Sums
        <4>2. old = [bucket EXCEPT ![current] = w]
          BY <3>1 DEF Buys!Opens
        <4> HIDE DEF w, old
        <4>3. \A c \in 1 .. Len(bucket) : Sums(bucket[c])
          BY DEF CoalInv, Grows
        <4> QED BY <1>3, <4>1, <4>2, <4>3
      <3>2. CASE bucket[current].once # "open"
        <4>1. old = bucket
          BY <3>2 DEF Buys!Opens
        <4> HIDE DEF old
        <4> QED BY <4>1 DEF CoalInv, Grows
      <3> QED BY <3>1, <3>2
    <2> HIDE DEF old
    <2>4. v \in Purchase
      BY <2>2 DEF Sums
    <2>5. /\ bucket' \in Seq(Purchase) /\ Len(bucket') = Len(bucket) + 1 /\ Len(bucket) \in Nat
          /\ bucket'[Len(bucket) + 1] = v
          /\ \A c \in 1 .. Len(bucket) : bucket'[c] = old[c]
      BY <1>3, <2>1, <2>3, <2>4
    <2>6. Grows'
      <3>1. \A c \in 1 .. Len(bucket') : Sums(bucket'[c])
        BY <2>2, <2>3, <2>5
      <3>2. current' \in 0 .. Len(bucket') /\ bucket'[current'].flush = "no"
        BY <2>1, <2>2, <2>5
      <3> QED BY <2>5, <3>1, <3>2 DEF Grows
    <2>7. Stands'
      <3>1. \A c \in 1 .. Len(bucket) : bucket[c].flush = "over" => bucket'[c] = bucket[c]
        BY <2>3, <2>5
      <3>2. \A c \in 1 .. Len(bucket) : c \in 1 .. Len(bucket')
        BY <2>5
      <3>3. sent' = sent
        BY <2>1
      <3> HIDE DEF v, old
      <3> QED BY <3>1, <3>2, <3>3 DEF CoalInv, Stands
    <2> QED BY <2>6, <2>7 DEF CoalInv
  <1> QED BY <1>4, <1>5

LEMMA WindowEndsStep ==
    ASSUME CoalInv, NEW b \in Buys!Buckets, Buys!WindowEnds(b)
    PROVE  CoalInv'
  <1>1. /\ b \in 1 .. Len(bucket) /\ Sums(bucket[b]) /\ bucket[b] \in Purchase
        /\ bucket \in Seq(Purchase) /\ UNCHANGED <<current, sent>>
    BY DEF CoalInv, Grows, Sums, Buys!Buckets, Buys!WindowEnds
  <1> DEFINE v == IF bucket[b].once = "open"
                  THEN [bucket[b] EXCEPT !.timer = "fired", !.once = "entered", !.flush = "starts"]
                  ELSE [bucket[b] EXCEPT !.timer = "fired"]
  <1>2. bucket' = [bucket EXCEPT ![b] = v]
    BY <1>1 DEF Buys!WindowEnds
  <1>3. CASE bucket[b].once = "open"
    <2>1. Sums(v)
      BY <1>1, <1>3, FiredSums
    <2>2. v.flush = "starts"
      BY <1>1, <1>3 DEF Purchase
    <2>3. bucket[b].flush = "no"
      BY <1>1, <1>3 DEF Sums
    <2> HIDE DEF v
    <2>4. \A c \in 1 .. Len(bucket) : bucket'[c] = IF c = b THEN v ELSE bucket[c]
      BY <1>1, <1>2
    <2>5. current \in 0 .. Len(bucket) /\ (current # 0 => bucket[current].flush \in {"no", "starts"})
      BY DEF CoalInv, Grows
    <2>6. current # 0 => bucket'[current].flush \in {"no", "starts"}
      BY <2>2, <2>4, <2>5
    <2> QED BY <1>1, <1>2, <2>1, <2>3, <2>5, <2>6, BucketBecomes
  <1>4. CASE bucket[b].once # "open"
    <2>1. v = [bucket[b] EXCEPT !.timer = "fired"]
      BY <1>4
    <2> HIDE DEF v
    <2>2. /\ v \in Purchase /\ v.waiters = bucket[b].waiters /\ v.keys = bucket[b].keys
          /\ v.total = bucket[b].total /\ v.once = bucket[b].once /\ v.flush = bucket[b].flush
      BY <1>1, <2>1 DEF Purchase
    <2>3. Sums(v)
      BY <1>1, <2>2 DEF Sums
    <2>4. \A c \in 1 .. Len(bucket) : bucket'[c] = IF c = b THEN v ELSE bucket[c]
      BY <1>1, <1>2
    <2>5. current \in 0 .. Len(bucket) /\ (current # 0 => bucket[current].flush \in {"no", "starts"})
      BY DEF CoalInv, Grows
    <2>6. /\ bucket' \in Seq(Purchase) /\ Len(bucket') = Len(bucket)
          /\ \A c \in 1 .. Len(bucket) : bucket'[c].flush = bucket[c].flush
                                         /\ bucket'[c].total = bucket[c].total /\ Sums(bucket'[c])
      <3>1. \A c \in 1 .. Len(bucket) : Sums(bucket[c])
        BY DEF CoalInv, Grows
      <3> QED BY <1>1, <1>2, <2>2, <2>3, <2>4, <3>1
    <2>7. Grows'
      BY <1>1, <2>5, <2>6 DEF Grows
    <2>8. Stands'
      <3>1. sent' = sent
        BY <1>1
      <3> QED BY <2>6, <3>1 DEF CoalInv, Stands
    <2> QED BY <2>7, <2>8 DEF CoalInv
  <1> QED BY <1>3, <1>4

LEMMA TakeBucketStep ==
    ASSUME CoalInv, NEW b \in Buys!Buckets, Buys!TakeBucket(b)
    PROVE  CoalInv'
  <1> DEFINE v == [bucket[b] EXCEPT !.flush = "sends"]
  <1>1. /\ b \in 1 .. Len(bucket) /\ Sums(bucket[b]) /\ bucket[b] \in Purchase
        /\ bucket \in Seq(Purchase) /\ bucket[b].flush = "starts"
        /\ current' = (IF current = b THEN 0 ELSE current) /\ sent' = sent
    BY DEF CoalInv, Grows, Sums, Buys!Buckets, Buys!TakeBucket
  <1>2. bucket' = [bucket EXCEPT ![b] = v]
    BY <1>1 DEF Buys!TakeBucket
  <1>3. /\ v \in Purchase /\ v.waiters = bucket[b].waiters /\ v.keys = bucket[b].keys
        /\ v.total = bucket[b].total /\ v.once = bucket[b].once /\ v.flush = "sends"
    BY <1>1 DEF Purchase
  <1> HIDE DEF v
  <1>4. Sums(v)
    BY <1>1, <1>3 DEF Sums
  <1>5. \A c \in 1 .. Len(bucket) : bucket'[c] = IF c = b THEN v ELSE bucket[c]
    BY <1>1, <1>2
  <1>6. current \in 0 .. Len(bucket) /\ (current # 0 => bucket[current].flush \in {"no", "starts"})
    BY DEF CoalInv, Grows
  <1>7. /\ current' \in 0 .. Len(bucket)
        /\ current' # 0 => bucket'[current'].flush \in {"no", "starts"}
    BY <1>1, <1>5, <1>6
  <1> QED BY <1>1, <1>2, <1>4, <1>7, BucketBecomes

LEMMA SendStep ==
    ASSUME CoalInv, NEW b \in Buys!Buckets, Buys!Send(b)
    PROVE  CoalInv'
  <1> DEFINE v == [bucket[b] EXCEPT !.flush = "over", !.once = "done"]
             one == [of |-> b, quantity |-> bucket[b].total]
  <1>1. /\ b \in 1 .. Len(bucket) /\ Sums(bucket[b]) /\ bucket[b] \in Purchase
        /\ bucket \in Seq(Purchase) /\ bucket[b].flush = "sends"
        /\ current' = current /\ sent' = Append(sent, one)
    BY DEF CoalInv, Grows, Sums, Buys!Buckets, Buys!Send
  <1>2. bucket' = [bucket EXCEPT ![b] = v]
    BY <1>1 DEF Buys!Send, Purchase
  <1>3. /\ v \in Purchase /\ v.waiters = bucket[b].waiters /\ v.keys = bucket[b].keys
        /\ v.total = bucket[b].total /\ v.once = "done" /\ v.flush = "over"
    BY <1>1 DEF Purchase
  <1>4. one.of = b /\ one.quantity = bucket[b].total /\ one \in [of : Nat, quantity : Int]
    BY <1>1 DEF Purchase
  <1> HIDE DEF v, one
  <1>5. Sums(v)
    BY <1>1, <1>3 DEF Sums
  <1>6. /\ \A c \in 1 .. Len(bucket) : bucket'[c] = IF c = b THEN v ELSE bucket[c]
        /\ bucket' \in Seq(Purchase) /\ Len(bucket') = Len(bucket)
    BY <1>1, <1>2, <1>3
  <1>7. Grows'
    <2>1. /\ current \in 0 .. Len(bucket)
          /\ current # 0 => bucket[current].flush \in {"no", "starts"}
          /\ \A c \in 1 .. Len(bucket) : Sums(bucket[c])
      BY DEF CoalInv, Grows
    <2>2. \A c \in 1 .. Len(bucket') : Sums(bucket'[c])
      BY <1>5, <1>6, <2>1
    <2>3. /\ current' \in 0 .. Len(bucket')
          /\ current' # 0 => bucket'[current'].flush \in {"no", "starts"}
      BY <1>1, <1>6, <2>1
    <2> QED BY <1>6, <2>2, <2>3 DEF Grows
  <1>8. Stands'
    <2>1. /\ sent \in Seq([of : Nat, quantity : Int])
          /\ \A i \in 1 .. Len(sent) :
                /\ sent[i].of \in 1 .. Len(bucket)
                /\ bucket[sent[i].of].flush = "over"
                /\ sent[i].quantity = bucket[sent[i].of].total
          /\ \A i, j \in 1 .. Len(sent) : sent[i].of = sent[j].of => i = j
      BY DEF CoalInv, Stands
    <2>2. /\ sent' \in Seq([of : Nat, quantity : Int]) /\ Len(sent') = Len(sent) + 1
          /\ Len(sent) \in Nat /\ sent'[Len(sent) + 1] = one
          /\ \A i \in 1 .. Len(sent) : sent'[i] = sent[i]
      BY <1>1, <1>4, <2>1
    <2>3. \A i \in 1 .. Len(sent) : sent[i].of # b
      BY <1>1, <2>1
    <2>4. ASSUME NEW i \in 1 .. Len(sent')
          PROVE  /\ sent'[i].of \in 1 .. Len(bucket')
                 /\ bucket'[sent'[i].of].flush = "over"
                 /\ sent'[i].quantity = bucket'[sent'[i].of].total
      <3>1. CASE i = Len(sent) + 1
        BY <1>1, <1>3, <1>4, <1>6, <2>2, <3>1
      <3>2. CASE i # Len(sent) + 1
        <4>1. i \in 1 .. Len(sent) /\ sent'[i] = sent[i]
          BY <2>2, <3>2
        <4>2. bucket'[sent[i].of] = bucket[sent[i].of]
          BY <1>6, <2>1, <2>3, <4>1
        <4> QED BY <1>6, <2>1, <4>1, <4>2
      <3> QED BY <3>1, <3>2
    <2>5. ASSUME NEW i \in 1 .. Len(sent'), NEW j \in 1 .. Len(sent'), sent'[i].of = sent'[j].of
          PROVE  i = j
      <3>1. \A m \in 1 .. Len(sent') : m \in 1 .. Len(sent) \/ m = Len(sent) + 1
        BY <2>2
      <3>2. \A m \in 1 .. Len(sent) : sent'[m].of = sent[m].of /\ sent'[m].of # b
        BY <2>2, <2>3
      <3>3. sent'[Len(sent) + 1].of = b
        BY <1>4, <2>2
      <3>4. CASE i \in 1 .. Len(sent) /\ j \in 1 .. Len(sent)
        BY <2>1, <2>5, <3>2, <3>4
      <3>5. CASE i = Len(sent) + 1 \/ j = Len(sent) + 1
        BY <2>5, <3>1, <3>2, <3>3, <3>5
      <3> QED BY <3>1, <3>4, <3>5
    <2> QED BY <2>2, <2>4, <2>5 DEF Stands
  <1> QED BY <1>7, <1>8 DEF CoalInv

LEMMA CoalUntouched == CoalInv /\ UNCHANGED <<bucket, current, sent>> => CoalInv'
  BY DEF CoalInv, Grows, Stands, Sums

LEMMA CoalNextInv == CoalInv /\ [Buys!CoalNext]_purchases => CoalInv'
  <1> SUFFICES ASSUME CoalInv, [Buys!CoalNext]_purchases PROVE CoalInv'
    OBVIOUS
  <1>1. ASSUME NEW q \in Buy, Buys!Submit(q) PROVE CoalInv'
    BY <1>1, SubmitStep
  <1>2. ASSUME NEW q \in Buy, Buys!SubmitOverflow(q) PROVE CoalInv'
    BY <1>2, OverflowStep
  <1>3. ASSUME NEW q \in Buy, Buys!GoAway(q) PROVE CoalInv'
    BY <1>3, CoalUntouched DEF Buys!GoAway
  <1>4. ASSUME NEW b \in Buys!Buckets, Buys!WindowEnds(b) PROVE CoalInv'
    BY <1>4, WindowEndsStep
  <1>5. ASSUME NEW b \in Buys!Buckets, Buys!TakeBucket(b) PROVE CoalInv'
    BY <1>5, TakeBucketStep
  <1>6. ASSUME NEW b \in Buys!Buckets, Buys!Send(b) PROVE CoalInv'
    BY <1>6, SendStep
  <1>7. ASSUME UNCHANGED purchases PROVE CoalInv'
    BY <1>7, CoalUntouched DEF purchases
  <1> QED BY <1>1, <1>2, <1>3, <1>4, <1>5, <1>6, <1>7 DEF Buys!CoalNext

LEMMA CoalInitInv == Buys!CoalInit => CoalInv
  BY DEF Buys!CoalInit, CoalInv, Grows, Stands

LEMMA CoalFrame == [Next]_gatewayVars => [Buys!CoalNext]_purchases
  BY DEF Next, gatewayVars, purchases

\* The invariant of the coalescer: each bucket adds up to what its distinct keys
\* asked for, and nobody joins one that was sent.
THEOREM CoalescerInvariant == Spec => []CoalInv
  <1>1. Init => CoalInv
    BY CoalInitInv DEF Init
  <1>2. CoalInv /\ [Next]_gatewayVars => CoalInv'
    BY CoalNextInv, CoalFrame
  <1> QED BY <1>1, <1>2, PTL DEF Spec

LEMMA SentIsAsked == CoalInv => Buys!SentAddsUp
  <1> SUFFICES ASSUME CoalInv PROVE Buys!SentAddsUp
    OBVIOUS
  <1>1. DOMAIN sent = 1 .. Len(sent)
    BY DEF CoalInv, Stands
  <1>2. \A i, j \in DOMAIN sent : sent[i].of = sent[j].of => i = j
    BY <1>1 DEF CoalInv, Stands
  <1>3. ASSUME NEW i \in DOMAIN sent
        PROVE  /\ sent[i].quantity <= MaxQuantity
               /\ sent[i].quantity = Buys!AskedFor(bucket[sent[i].of].waiters)
    <2>1. /\ sent[i].quantity = bucket[sent[i].of].total
          /\ Sums(bucket[sent[i].of])
      BY <1>1 DEF CoalInv, Grows, Stands
    <2>2. bucket[sent[i].of].total \in 0 .. MaxQuantity /\ MaxQuantity \in Nat
      BY <2>1, BuyAssumption DEF Sums, Purchase
    <2> QED BY <2>1, <2>2 DEF Sums
  <1> QED BY <1>2, <1>3 DEF Buys!SentAddsUp

-----------------------------------------------------------------------------
\* LimitsHold holds: a coalesced command buys what its distinct keys asked for, once
\* and within the limit (economy_coalescer.go:110, :137), and no span of time lets
\* more through than the rate pays for.
THEOREM LimitsAreKept == Spec => []LimitsHold
  <1>1. CoalInv /\ AdmInv => LimitsHold
    BY SentIsAsked, SpansAreBounded DEF LimitsHold
  <1> QED BY <1>1, CoalescerInvariant, AdmissionInvariant, PTL

-----------------------------------------------------------------------------
(* Calls to services.                                                        *)

LEMMA MergedIsOne ==
    ASSUME NEW tables, NEW m \in DOMAIN Merged(tables)
    PROVE  \E t \in tables : m \in DOMAIN t /\ Merged(tables)[m] = t[m]
  <1>1. \E t \in tables : m \in DOMAIN t
    BY DEF Merged
  <1> QED BY <1>1 DEF Merged

LEMMA MergedHasAll ==
    ASSUME NEW tables, NEW t \in tables, NEW m \in DOMAIN t
    PROVE  m \in DOMAIN Merged(tables)
  BY DEF Merged

HttpTables == {AccountHttp, SocialHttp, MailHttp, TaskHttp, PetHttp,
               FarmHttp, SubmitHttp, AssetHttp, CatalogHttp}
GrpcTables == {AccountGrpc, SocialGrpc, MailGrpc, TaskGrpc, PetGrpc,
               FarmGrpc, SubmitGrpc, AssetGrpc, CatalogGrpc}
PublicTables == {AccountPublic, SocialPublic, MailPublic, TaskPublic, PetPublic,
                 SnapshotPublic, ShopPublic, AssetPublic, CatalogPublic}

\* Whatever a server demands of a public method, the public handler demands.
LEMMA PublicDemandsMore ==
    ASSUME NEW t \in HttpTables, NEW u \in PublicTables, NEW m \in DOMAIN t, m \in DOMAIN u
    PROVE  t[m] \subseteq u[m]
  <1>1. CASE t = AccountHttp
    BY <1>1 DEF PublicTables, AccountHttp,
       AccountPublic, SocialPublic, MailPublic, TaskPublic, PetPublic,
       SnapshotPublic, ShopPublic, AssetPublic, CatalogPublic
  <1>2. CASE t = SocialHttp
    BY <1>2 DEF PublicTables, SocialHttp,
       AccountPublic, SocialPublic, MailPublic, TaskPublic, PetPublic,
       SnapshotPublic, ShopPublic, AssetPublic, CatalogPublic
  <1>3. CASE t = MailHttp
    BY <1>3 DEF PublicTables, MailHttp,
       AccountPublic, SocialPublic, MailPublic, TaskPublic, PetPublic,
       SnapshotPublic, ShopPublic, AssetPublic, CatalogPublic
  <1>4. CASE t = TaskHttp
    BY <1>4 DEF PublicTables, TaskHttp,
       AccountPublic, SocialPublic, MailPublic, TaskPublic, PetPublic,
       SnapshotPublic, ShopPublic, AssetPublic, CatalogPublic
  <1>5. CASE t = PetHttp
    BY <1>5 DEF PublicTables, PetHttp,
       AccountPublic, SocialPublic, MailPublic, TaskPublic, PetPublic,
       SnapshotPublic, ShopPublic, AssetPublic, CatalogPublic
  <1>6. CASE t = FarmHttp
    BY <1>6 DEF PublicTables, FarmHttp,
       AccountPublic, SocialPublic, MailPublic, TaskPublic, PetPublic,
       SnapshotPublic, ShopPublic, AssetPublic, CatalogPublic
  <1>7. CASE t = SubmitHttp
    BY <1>7 DEF PublicTables, SubmitHttp,
       AccountPublic, SocialPublic, MailPublic, TaskPublic, PetPublic,
       SnapshotPublic, ShopPublic, AssetPublic, CatalogPublic
  <1>8. CASE t = AssetHttp
    BY <1>8 DEF PublicTables, AssetHttp,
       AccountPublic, SocialPublic, MailPublic, TaskPublic, PetPublic,
       SnapshotPublic, ShopPublic, AssetPublic, CatalogPublic
  <1>9. CASE t = CatalogHttp
    BY <1>9 DEF PublicTables, CatalogHttp,
       AccountPublic, SocialPublic, MailPublic, TaskPublic, PetPublic,
       SnapshotPublic, ShopPublic, AssetPublic, CatalogPublic
  <1> QED BY <1>1, <1>2, <1>3, <1>4, <1>5, <1>6, <1>7, <1>8, <1>9 DEF HttpTables

\* Both servers of a method demand the same.
LEMMA ServersAgree ==
    ASSUME NEW t \in HttpTables, NEW u \in GrpcTables, NEW m \in DOMAIN t, m \in DOMAIN u
    PROVE  u[m] = t[m]
  <1>1. CASE t = AccountHttp
    <2>1. u[m] \subseteq t[m]
      BY <1>1 DEF GrpcTables, AccountHttp,
         AccountGrpc, SocialGrpc, MailGrpc, TaskGrpc, PetGrpc,
         FarmGrpc, SubmitGrpc, AssetGrpc, CatalogGrpc
    <2>2. t[m] \subseteq u[m]
      BY <1>1 DEF GrpcTables, AccountHttp,
         AccountGrpc, SocialGrpc, MailGrpc, TaskGrpc, PetGrpc,
         FarmGrpc, SubmitGrpc, AssetGrpc, CatalogGrpc
    <2> QED BY <2>1, <2>2
  <1>2. CASE t = SocialHttp
    BY <1>2 DEF GrpcTables, SocialHttp,
       AccountGrpc, SocialGrpc, MailGrpc, TaskGrpc, PetGrpc,
       FarmGrpc, SubmitGrpc, AssetGrpc, CatalogGrpc
  <1>3. CASE t = MailHttp
    <2>1. u[m] \subseteq t[m]
      BY <1>3 DEF GrpcTables, MailHttp,
         AccountGrpc, SocialGrpc, MailGrpc, TaskGrpc, PetGrpc,
         FarmGrpc, SubmitGrpc, AssetGrpc, CatalogGrpc
    <2>2. t[m] \subseteq u[m]
      BY <1>3 DEF GrpcTables, MailHttp,
         AccountGrpc, SocialGrpc, MailGrpc, TaskGrpc, PetGrpc,
         FarmGrpc, SubmitGrpc, AssetGrpc, CatalogGrpc
    <2> QED BY <2>1, <2>2
  <1>4. CASE t = TaskHttp
    BY <1>4 DEF GrpcTables, TaskHttp,
       AccountGrpc, SocialGrpc, MailGrpc, TaskGrpc, PetGrpc,
       FarmGrpc, SubmitGrpc, AssetGrpc, CatalogGrpc
  <1>5. CASE t = PetHttp
    BY <1>5 DEF GrpcTables, PetHttp,
       AccountGrpc, SocialGrpc, MailGrpc, TaskGrpc, PetGrpc,
       FarmGrpc, SubmitGrpc, AssetGrpc, CatalogGrpc
  <1>6. CASE t = FarmHttp
    BY <1>6 DEF GrpcTables, FarmHttp,
       AccountGrpc, SocialGrpc, MailGrpc, TaskGrpc, PetGrpc,
       FarmGrpc, SubmitGrpc, AssetGrpc, CatalogGrpc
  <1>7. CASE t = SubmitHttp
    BY <1>7 DEF GrpcTables, SubmitHttp,
       AccountGrpc, SocialGrpc, MailGrpc, TaskGrpc, PetGrpc,
       FarmGrpc, SubmitGrpc, AssetGrpc, CatalogGrpc
  <1>8. CASE t = AssetHttp
    BY <1>8 DEF GrpcTables, AssetHttp,
       AccountGrpc, SocialGrpc, MailGrpc, TaskGrpc, PetGrpc,
       FarmGrpc, SubmitGrpc, AssetGrpc, CatalogGrpc
  <1>9. CASE t = CatalogHttp
    BY <1>9 DEF GrpcTables, CatalogHttp,
       AccountGrpc, SocialGrpc, MailGrpc, TaskGrpc, PetGrpc,
       FarmGrpc, SubmitGrpc, AssetGrpc, CatalogGrpc
  <1> QED BY <1>1, <1>2, <1>3, <1>4, <1>5, <1>6, <1>7, <1>8, <1>9 DEF HttpTables

\* A client with code for gRPC has a method there.
LEMMA ClientsKnow ==
    ASSUME NEW m \in Method
    PROVE  /\ m \in DOMAIN Client
           /\ "grpc" \in Client[m] => m \in DOMAIN GrpcDemands
  <1> DEFINE tables == {AccountClient, SocialClient, MailClient, TaskClient, PetClient,
                        FarmClient, SubmitClient, AssetClient, CatalogClient}
  <1>1. PICK t \in HttpTables : m \in DOMAIN t
    BY MergedIsOne DEF Method, HttpDemands, HttpTables
  <1>2. \E u \in tables : m \in DOMAIN u
    BY <1>1 DEF HttpTables, AccountClient, SocialClient, MailClient, TaskClient, PetClient,
       FarmClient, SubmitClient, AssetClient, CatalogClient
  <1>3. m \in DOMAIN Merged(tables)
    BY <1>2, MergedHasAll
  <1>4. PICK u \in tables : m \in DOMAIN u /\ Merged(tables)[m] = u[m]
    BY <1>3, MergedIsOne
  <1>5. "grpc" \in u[m] => \E g \in GrpcTables : m \in DOMAIN g
    BY <1>4 DEF GrpcTables, AccountClient, SocialClient, MailClient, TaskClient, PetClient,
       FarmClient, SubmitClient, AssetClient, CatalogClient,
       AccountHttp, SocialHttp, MailHttp, TaskHttp, PetHttp, FarmHttp, SubmitHttp, AssetHttp, CatalogHttp,
       AccountGrpc, SocialGrpc, MailGrpc, TaskGrpc, PetGrpc, FarmGrpc, SubmitGrpc, AssetGrpc, CatalogGrpc
  <1>6. ASSUME NEW g \in GrpcTables, m \in DOMAIN g PROVE m \in DOMAIN GrpcDemands
    BY <1>6, MergedHasAll DEF GrpcDemands, GrpcTables
  <1> QED BY <1>3, <1>4, <1>5, <1>6 DEF Client

LEMMA Demanded ==
    ASSUME NEW m \in Method
    PROVE  /\ m \in PublicMethod => HttpDemands[m] \subseteq Public[m]
           /\ m \in DOMAIN GrpcDemands => GrpcDemands[m] = HttpDemands[m]
  <1>1. PICK t \in HttpTables : m \in DOMAIN t /\ HttpDemands[m] = t[m]
    BY MergedIsOne DEF Method, HttpDemands, HttpTables
  <1>2. ASSUME m \in PublicMethod PROVE HttpDemands[m] \subseteq Public[m]
    <2>1. PICK u \in PublicTables : m \in DOMAIN u /\ Public[m] = u[m]
      BY <1>2, MergedIsOne DEF PublicMethod, Public, PublicTables
    <2> QED BY <1>1, <2>1, PublicDemandsMore
  <1>3. ASSUME m \in DOMAIN GrpcDemands PROVE GrpcDemands[m] = HttpDemands[m]
    <2>1. PICK u \in GrpcTables : m \in DOMAIN u /\ GrpcDemands[m] = u[m]
      BY <1>3, MergedIsOne DEF GrpcDemands, GrpcTables
    <2> QED BY <1>1, <2>1, ServersAgree
  <1> QED BY <1>2, <1>3

\* What a public handler lets through, every server its client may call accepts.
LEMMA ScreenedFits ==
    ASSUME NEW m \in Method, NEW fields,
           (IF m \in PublicMethod THEN Public[m] ELSE AllFields(m)) \subseteq fields,
           NEW over \in Client[m]
    PROVE  Demands(over, m) \subseteq fields
  <1>1. HttpDemands[m] \subseteq fields
    BY Demanded DEF AllFields
  <1> QED BY <1>1, Demanded, ClientsKnow DEF Demands

LEMMA AllServersAgree == \A m \in DOMAIN GrpcDemands : GrpcDemands[m] = HttpDemands[m]
  <1>1. ASSUME NEW m \in DOMAIN GrpcDemands PROVE m \in Method
    <2>1. PICK u \in GrpcTables : m \in DOMAIN u
      BY MergedIsOne DEF GrpcDemands, GrpcTables
    <2>2. \E t \in HttpTables : m \in DOMAIN t
      BY <2>1 DEF GrpcTables, HttpTables,
         AccountHttp, SocialHttp, MailHttp, TaskHttp, PetHttp, FarmHttp, SubmitHttp, AssetHttp, CatalogHttp,
         AccountGrpc, SocialGrpc, MailGrpc, TaskGrpc, PetGrpc, FarmGrpc, SubmitGrpc, AssetGrpc, CatalogGrpc
    <2> QED BY <2>2, MergedHasAll DEF Method, HttpDemands, HttpTables
  <1> QED BY <1>1, Demanded

LEMMA FirstMethod == "GetSnapshot" \in Method
  <1>1. "GetSnapshot" \in DOMAIN FarmHttp /\ FarmHttp \in HttpTables
    BY DEF FarmHttp, HttpTables
  <1> QED BY <1>1, MergedHasAll DEF Method, HttpDemands, HttpTables

Final == {"ok", "refused", "unauthorized", "invalid"}
Answers == Final \cup Retryable
              \cup {"none", "deadline", "canceled", "broken", "late", "unimplemented"}
Fields == UNION {AllFields(m) : m \in Method}

\* What a client may conclude from an answer.
Tells(a) ==
    /\ a = "ok" => outcome.effect = TRUE
    /\ a \in Final \ {"ok"} => outcome.effect = FALSE

CallsTyped ==
    /\ mode \in {"http", "grpc", "grpc_fallback"}
    /\ serves \subseteq {"grpc", "http"}
    /\ call \in [method : Method, fields : SUBSET Fields,
                 at : {"none", "gateway", "client", "sent", "replied", "done"},
                 over : {"none", "grpc", "http"}, answer : Answers]
    /\ call.fields \subseteq AllFields(call.method)
    /\ runs \in 0 .. 1
    /\ outcome.effect \in BOOLEAN

\* A call that falls back has not been run, and its answer tells the truth.
CallsInv ==
    /\ CallsTyped
    /\ call.at \in {"none", "gateway", "client", "sent"} => runs = 0
    /\ runs = 0 => outcome.effect = FALSE
    /\ call.at = "client" =>
          (IF call.method \in PublicMethod THEN Public[call.method] ELSE AllFields(call.method))
             \subseteq call.fields
    /\ call.at = "replied" => Tells(call.answer)
    /\ call.at = "replied" => call.answer # "none"
    /\ call.at = "replied" /\ call.answer = "unimplemented" => runs = 0
    /\ call.at = "done" => Tells(call.answer)
    /\ call.at = "done" => call.answer \in Final \cup Retryable

LEMMA IssueStep == CallsInv /\ Issue => CallsInv'
  <1> SUFFICES ASSUME CallsInv, Issue PROVE CallsInv'
    OBVIOUS
  <1>1. PICK m \in Method : \E fields \in SUBSET AllFields(m) :
           call' = [NoCall EXCEPT !.method = m, !.fields = fields, !.at = "gateway"]
    BY DEF Issue
  <1>2. PICK fields \in SUBSET AllFields(m) :
           call' = [NoCall EXCEPT !.method = m, !.fields = fields, !.at = "gateway"]
    BY <1>1
  <1>3. call' = [method |-> m, fields |-> fields, at |-> "gateway", over |-> "none", answer |-> "none"]
    BY <1>2 DEF NoCall
  <1>4. fields \in SUBSET Fields /\ "none" \in Answers
    BY DEF Fields, Answers
  <1>5. mode' \in {"http", "grpc", "grpc_fallback"} /\ serves' \subseteq {"grpc", "http"}
        /\ runs' = runs /\ outcome' = outcome /\ call.at = "none"
    BY DEF Issue, NoCall
  <1> QED BY <1>3, <1>4, <1>5 DEF CallsInv, CallsTyped

LEMMA ScreenStep == CallsInv /\ Screen => CallsInv'
  <1> SUFFICES ASSUME CallsInv, Screen PROVE CallsInv'
    OBVIOUS
  <1>1. /\ call.at = "gateway" /\ runs = 0 /\ outcome.effect = FALSE
        /\ UNCHANGED <<mode, serves, runs, outcome>>
    BY DEF Screen, CallsInv
  <1>2. "unauthorized" \in Final /\ "invalid" \in Final /\ Final \subseteq Answers
    BY DEF Final, Answers
  <1>3. ASSUME NEW a \in {"unauthorized", "invalid"}, Answered(a) PROVE CallsInv'
    <2>1. call' = [call EXCEPT !.at = "done", !.answer = a]
      BY <1>3 DEF Answered
    <2> QED BY <1>1, <1>2, <1>3, <2>1 DEF CallsInv, CallsTyped, Tells
  <1>4. ASSUME call' = [call EXCEPT !.at = "client"],
               (IF call.method \in PublicMethod THEN Public[call.method] ELSE AllFields(call.method))
                  \subseteq call.fields
        PROVE  CallsInv'
    BY <1>1, <1>4 DEF CallsInv, CallsTyped
  <1> QED BY <1>3, <1>4 DEF Screen

LEMMA SendCallStep == CallsInv /\ Send => CallsInv'
  BY DEF CallsInv, CallsTyped, Send

LEMMA RepliedStep ==
    ASSUME CallsInv, NEW a \in Answers \ {"none", "ok", "refused", "unauthorized"},
           call.at = "sent", Replied(a), UNCHANGED <<mode, serves, runs, outcome>>
    PROVE  CallsInv'
  <1>1. call' = [call EXCEPT !.at = "replied", !.answer = a]
    BY DEF Replied
  <1>2. runs = 0 /\ outcome.effect = FALSE /\ a # "ok"
    BY DEF CallsInv
  <1> QED BY <1>1, <1>2 DEF CallsInv, CallsTyped, Tells

LEMMA NoReplyYet == CallsInv /\ (NotServed \/ Refused \/ Rejected) => CallsInv'
  <1>1. {"unimplemented", "broken", "exhausted", "invalid"}
           \subseteq Answers \ {"none", "ok", "refused", "unauthorized"}
    BY DEF Answers, Final, Retryable
  <1>2. ASSUME CallsInv, NotServed PROVE CallsInv'
    BY <1>1, <1>2, RepliedStep DEF NotServed
  <1>3. ASSUME CallsInv, Refused PROVE CallsInv'
    BY <1>1, <1>3, RepliedStep DEF Refused
  <1>4. ASSUME CallsInv, Rejected PROVE CallsInv'
    BY <1>1, <1>4, RepliedStep DEF Rejected
  <1> QED BY <1>2, <1>3, <1>4

LEMMA RunStep == CallsInv /\ Run => CallsInv'
  <1> SUFFICES ASSUME CallsInv, Run PROVE CallsInv'
    OBVIOUS
  <1>1. PICK o \in ServiceOutcomes :
           /\ outcome' = [effect |-> outcome.effect \/ o.effect, answer |-> o.answer]
           /\ \E a \in {o.answer, "broken", "late"} : Replied(a)
    BY DEF Run
  <1>2. PICK a \in {o.answer, "broken", "late"} : Replied(a)
    BY <1>1
  <1>3. /\ o.answer \in {"ok", "refused", "unauthorized", "exhausted", "routing", "internal",
                         "deadline", "canceled"}
        /\ o.effect \in BOOLEAN
        /\ o.answer = "ok" => o.effect = TRUE
        /\ o.answer \in {"refused", "unauthorized"} => o.effect = FALSE
    <2>1. CASE o = [effect |-> TRUE, answer |-> "ok"]
      BY <2>1
    <2>2. ASSUME NEW b \in {"refused", "unauthorized", "exhausted", "routing"},
                 o = [effect |-> FALSE, answer |-> b]
          PROVE  /\ o.answer \in {"refused", "unauthorized", "exhausted", "routing"}
                 /\ o.effect = FALSE
      BY <2>2
    <2>3. ASSUME NEW e \in BOOLEAN, NEW b \in {"internal", "deadline", "canceled"},
                 o = [effect |-> e, answer |-> b]
          PROVE  /\ o.answer \in {"internal", "deadline", "canceled"}
                 /\ o.effect \in BOOLEAN
      BY <2>3
    <2>4. \/ o = [effect |-> TRUE, answer |-> "ok"]
          \/ \E b \in {"refused", "unauthorized", "exhausted", "routing"} :
                o = [effect |-> FALSE, answer |-> b]
          \/ \E e \in BOOLEAN, b \in {"internal", "deadline", "canceled"} :
                o = [effect |-> e, answer |-> b]
      BY DEF ServiceOutcomes
    <2> QED BY <2>1, <2>2, <2>3, <2>4
  <1>4. a \in Answers /\ a \notin {"unimplemented", "none", "invalid"}
    BY <1>2, <1>3 DEF Answers, Final, Retryable
  <1>5. runs = 0 /\ outcome.effect = FALSE /\ runs' = runs + 1 /\ mode' = mode /\ serves' = serves
    BY DEF Run, CallsInv
  <1>6. call' = [call EXCEPT !.at = "replied", !.answer = a]
    BY <1>2 DEF Replied
  <1>7. outcome'.effect = o.effect
    BY <1>1, <1>3, <1>5
  <1>8. /\ a = "ok" => o.effect = TRUE
        /\ a \in {"refused", "unauthorized"} => o.effect = FALSE
    BY <1>2, <1>3
  <1>9. CallsTyped'
    <2>1. outcome'.effect \in BOOLEAN
      BY <1>3, <1>7
    <2>2. runs' \in 0 .. 1
      BY <1>5
    <2>3. /\ call' \in [method : Method, fields : SUBSET Fields,
                        at : {"none", "gateway", "client", "sent", "replied", "done"},
                        over : {"none", "grpc", "http"}, answer : Answers]
          /\ call'.fields = call.fields /\ call'.method = call.method
      BY <1>4, <1>6 DEF CallsInv, CallsTyped
    <2> QED BY <1>5, <2>1, <2>2, <2>3 DEF CallsInv, CallsTyped
  <1>10. call'.at = "replied" /\ call'.answer = a /\ runs' = 1
    BY <1>5, <1>6 DEF CallsInv, CallsTyped
  <1>11. Tells(call.answer)'
    BY <1>4, <1>7, <1>8, <1>10 DEF Tells, Final
  <1> QED BY <1>4, <1>9, <1>10, <1>11 DEF CallsInv

\* What the gateway writes says as much as what the service replied, or less.
LEMMA WritesCode ==
    ASSUME NEW a \in Answers \ {"none", "unimplemented"}
    PROVE  /\ Written(Through(a)) \in Final \cup Retryable
           /\ Written(Through(a)) \in Final => Written(Through(a)) = a
  <1> DEFINE g == ThroughGrpc(a)
             h == ThroughHttp(a)
  <1>1. /\ a = "late" => g = "deadline"
        /\ a = "broken" => g = "internal"
        /\ a \notin {"late", "broken"} => g = a
    BY Zenon DEF ThroughGrpc
  <1>2. /\ a = "late" => h = "deadline"
        /\ a \in {"deadline", "canceled", "broken"} => h = "internal"
        /\ a \notin {"late", "deadline", "canceled", "broken"} => h = a
    BY Zenon DEF ThroughHttp
  <1>3. ASSUME NEW x
        PROVE  /\ x = "deadline" => Written(x) = "exhausted"
               /\ x = "canceled" => Written(x) = "internal"
               /\ x \notin {"deadline", "canceled"} => Written(x) = x
    BY Zenon DEF Written
  <1> HIDE DEF g, h
  <1>4. g \in Final \cup Retryable \cup {"deadline", "canceled"} /\ (g \in Final => g = a)
    BY <1>1 DEF Answers, Final, Retryable
  <1>5. h \in Final \cup Retryable \cup {"deadline", "canceled"} /\ (h \in Final => h = a)
    BY <1>2 DEF Answers, Final, Retryable
  <1>6. Through(a) = g \/ Through(a) = h
    BY DEF Through, g, h
  <1>7. ASSUME NEW x \in Final \cup Retryable \cup {"deadline", "canceled"}
        PROVE  Written(x) \in Final \cup Retryable /\ (Written(x) \in Final => Written(x) = x)
    BY <1>3 DEF Final, Retryable
  <1> QED BY <1>4, <1>5, <1>6, <1>7

LEMMA ReturnStep == CallsInv /\ Return => CallsInv'
  <1> SUFFICES ASSUME CallsInv, Return PROVE CallsInv'
    OBVIOUS
  <1>1. call.at = "replied" /\ UNCHANGED <<mode, serves, runs, outcome>>
    BY DEF Return
  <1>2. CASE call.over = "grpc" /\ mode = "grpc_fallback" /\ CanFallback(call.answer)
    <2>1. call' = [call EXCEPT !.at = "sent", !.over = "http"] /\ runs = 0
      BY <1>2 DEF Return, CanFallback, CallsInv
    <2> QED BY <1>1, <2>1 DEF CallsInv, CallsTyped
  <1>3. CASE ~(call.over = "grpc" /\ mode = "grpc_fallback" /\ CanFallback(call.answer))
    <2> DEFINE a == IF call.answer = "unimplemented" THEN "broken" ELSE call.answer
               w == Written(Through(a))
    <2>1. /\ a \in Answers \ {"none", "unimplemented"}
          /\ a \in Final => a = call.answer
      BY <1>1 DEF CallsInv, CallsTyped, Answers, Final, Retryable
    <2>2. call' = [call EXCEPT !.at = "done", !.answer = w]
      BY <1>3 DEF Return, Answered
    <2> HIDE DEF a
    <2>3. w \in Final \cup Retryable /\ (w \in Final => w = a)
      BY <2>1, WritesCode
    <2> HIDE DEF w
    <2>4. CallsTyped'
      BY <1>1, <2>2, <2>3 DEF CallsInv, CallsTyped, Answers
    <2>5. call'.at = "done" /\ call'.answer = w
      BY <2>2 DEF CallsInv, CallsTyped
    <2>6. Tells(call.answer)'
      BY <1>1, <2>1, <2>3, <2>5 DEF CallsInv, Tells, Final
    <2> QED BY <1>1, <2>3, <2>4, <2>5, <2>6 DEF CallsInv
  <1> QED BY <1>2, <1>3

LEMMA CallsNextInv == CallsInv /\ [CallNext]_callVars => CallsInv'
  <1>1. CallsInv /\ UNCHANGED callVars => CallsInv'
    BY DEF CallsInv, CallsTyped, Tells, callVars
  <1> QED BY <1>1, IssueStep, ScreenStep, SendCallStep, NoReplyYet, RunStep, ReturnStep DEF CallNext

LEMMA CallsInitInv == CallInit => CallsInv
  <1> SUFFICES ASSUME CallInit PROVE CallsInv
    OBVIOUS
  <1>1. "none" \in Answers
    BY DEF Answers
  <1>2. /\ call = [method |-> "GetSnapshot", fields |-> {}, at |-> "none", over |-> "none", answer |-> "none"]
        /\ outcome = [effect |-> FALSE, answer |-> "none"]
        /\ runs = 0 /\ mode = "http" /\ serves = {}
    BY DEF CallInit, NoCall, NotRun
  <1>3. CallsTyped
    BY <1>1, <1>2, FirstMethod DEF CallsTyped
  <1> QED BY <1>2, <1>3 DEF CallsInv

LEMMA CallFrame == [Next]_gatewayVars => [CallNext]_callVars
  BY DEF Next, gatewayVars, callVars

\* The invariant of calls: what falls back has not been run, and replies tell the truth.
THEOREM CallInvariant == Spec => []CallsInv
  <1>1. Init => CallsInv
    BY CallsInitInv DEF Init
  <1>2. CallsInv /\ [Next]_gatewayVars => CallsInv'
    BY CallsNextInv, CallFrame
  <1> QED BY <1>1, <1>2, PTL DEF Spec

\* CallsTruthful holds: the service is entered once at most, an answer tells the truth
\* about the effect, and what a public handler lets through no server rejects
\* (grpcrpc clients' fallback, rpcgrpc.ToError and FromError, validation in both transports).
THEOREM CallsTellTruth == Spec => []CallsTruthful
  <1>1. CallsInv => CallsTruthful
    <2> SUFFICES ASSUME CallsInv PROVE CallsTruthful
      OBVIOUS
    <2>1. RunsOnce
      BY DEF CallsInv, CallsTyped, RunsOnce
    <2>2. AnswerTruthful
      BY DEF CallsInv, Tells, Final, Retryable, AnswerTruthful
    <2>3. ScreenedIsAccepted
      BY ScreenedFits, AllServersAgree DEF CallsInv, CallsTyped, ScreenedIsAccepted
    <2> QED BY <2>1, <2>2, <2>3 DEF CallsTruthful
  <1> QED BY <1>1, CallInvariant, PTL

-----------------------------------------------------------------------------
(* Types.                                                                    *)

LEMMA ReadTypes == ReadInv => ReadTypeOK
  <1> SUFFICES ASSUME ReadInv PROVE ReadTypeOK
    OBVIOUS
  <1>1. ReadTyped /\ MaxWrites \in Nat /\ MaxCacheFaults \in Nat
    BY CacheAssumption DEF ReadInv
  <1>2. generation + Cardinality(uncleared) + Unreadable(entry) <= version + cacheFaults
    BY DEF ReadInv, Generations
  <1>3. Cardinality(uncleared) \in Nat /\ Unreadable(entry) \in Nat
    BY WritesFinite DEF Unreadable
  <1>4. generation \in 0 .. MaxWrites + MaxCacheFaults
    BY <1>1, <1>2, <1>3 DEF ReadTyped
  <1>5. ASSUME NEW r \in Reader
        PROVE  /\ reads[r].at \in {"idle", "generation", "join", "wait", "fill", "done"}
               /\ reads[r].gen \in NoGen .. generation
    BY <1>1 DEF ReadInv, ReadTyped, Reading, Honest
  <1>6. flight = Grounded \/ flight.joined \subseteq Reader
    BY <1>1 DEF ReadTyped, Flown
  <1>7. /\ version \in 0 .. MaxWrites /\ uncleared \subseteq 1 .. MaxWrites
        /\ invalidated \in 0 .. version
    BY <1>1 DEF ReadTyped
  <1>8. entry = Absent \/ entry \in Kept
    BY <1>1 DEF ReadTyped
  <1> QED BY <1>4, <1>5, <1>6, <1>7, <1>8 DEF ReadTypeOK, Kept

LEMMA SessTypes == SessInv => SessTypeOK
  BY SessionAssumption DEF SessInv, Tokens, Sockets, SessTypeOK, Token

\* The clock stays within its bound.
ClockInv == now \in 0 .. MaxClock

LEMMA ClockNextInv == ClockInv /\ [AdmNext]_admVars => ClockInv'
  BY AdmissionAssumption DEF ClockInv, AdmNext, admVars, Pass, Cleanup, ReadClock, Allow, Acquire,
     Refuse, Release

LEMMA AdmTypes == AdmInv /\ ClockInv => AdmTypeOK
  BY DEF AdmInv, AdmTyped, ClockInv, AdmTypeOK

\* What each call of the coalescer is doing.
BuysInv ==
    /\ buys \in [Buy -> [at : {"new", "stuck", "waits", "gone", "answered"}, in : Nat]]
    /\ holder \in Buy \cup {Buys!Nobody}

LEMMA BuysNextInv == CoalInv /\ BuysInv /\ [Buys!CoalNext]_purchases => BuysInv'
  <1> SUFFICES ASSUME CoalInv, BuysInv, [Buys!CoalNext]_purchases PROVE BuysInv'
    OBVIOUS
  <1>1. Len(bucket) \in Nat /\ current \in Nat
    BY DEF CoalInv, Grows
  <1>2. ASSUME NEW q \in Buy, Buys!Submit(q) PROVE BuysInv'
    <2>1. Buys!Here \in Nat
      BY <1>1 DEF Buys!Here
    <2> QED BY <1>2, <2>1 DEF BuysInv, Buys!Submit
  <1>3. ASSUME NEW q \in Buy, Buys!SubmitOverflow(q) PROVE BuysInv'
    <2>1. Len(bucket) + 1 \in Nat
      BY <1>1
    <2> QED BY <1>3, <2>1 DEF BuysInv, Buys!SubmitOverflow
  <1>4. ASSUME NEW q \in Buy, Buys!GoAway(q) PROVE BuysInv'
    BY <1>4 DEF BuysInv, Buys!GoAway
  <1>5. ASSUME NEW b \in Buys!Buckets, Buys!WindowEnds(b) \/ Buys!TakeBucket(b) PROVE BuysInv'
    BY <1>5 DEF BuysInv, Buys!WindowEnds, Buys!TakeBucket
  <1>6. ASSUME NEW b \in Buys!Buckets, Buys!Send(b) PROVE BuysInv'
    <2>1. ASSUME NEW q \in Buy
          PROVE  [buys[q] EXCEPT !.at = "answered"]
                    \in [at : {"new", "stuck", "waits", "gone", "answered"}, in : Nat]
      BY DEF BuysInv
    <2>2. /\ buys' = [q \in Buy |-> IF buys[q].at = "waits" /\ q \in bucket[b].waiters
                                    THEN [buys[q] EXCEPT !.at = "answered"] ELSE buys[q]]
          /\ holder' = holder
      BY <1>6 DEF Buys!Send
    <2> QED BY <2>1, <2>2 DEF BuysInv
  <1>7. ASSUME UNCHANGED purchases PROVE BuysInv'
    BY <1>7 DEF BuysInv, purchases
  <1> QED BY <1>2, <1>3, <1>4, <1>5, <1>6, <1>7 DEF Buys!CoalNext

LEMMA CoalTypes == CoalInv /\ BuysInv => Buys!CoalTypeOK
  <1> SUFFICES ASSUME CoalInv, BuysInv PROVE Buys!CoalTypeOK
    OBVIOUS
  <1>1. \A b \in Buys!Buckets : bucket[b] \in Purchase
    BY DEF CoalInv, Grows, Buys!Buckets, Sums
  <1> QED BY <1>1 DEF CoalInv, Grows, BuysInv, Buys!CoalTypeOK, Purchase

\* What the summaries are made of: mails are read once each, and a row is in at most
\* one of the two sets.
Read == {m \in Mail : mails[m] = "READ"}

\* The version tells how much the mailbox can have been through.
AddedUp == box.version = Cardinality(Unread) + 2 * Cardinality(Read)

MailSizes ==
    /\ AddedUp
    /\ \A c \in MailCall : mailCalls[c].summary \in Summary
    /\ mailWire \subseteq [to : Link, summary : Summary]
    /\ shown \in [Link -> Summary]
    /\ boxLock \in MailCall \cup {NoCaller}
    /\ \A c \in MailCall : boxLock = c => mailCalls[c].at = "open" /\ mailCalls[c].wrote # {}

LEMMA SizesBounded ==
    ASSUME NEW u, NEW r, u \subseteq Mail, r \subseteq Mail, u \cap r = {}
    PROVE  /\ Cardinality(u) \in 0 .. Cardinality(Mail)
           /\ Cardinality(u) + 2 * Cardinality(r) \in 0 .. 2 * Cardinality(Mail)
  <1>1. IsFiniteSet(u) /\ IsFiniteSet(r) /\ IsFiniteSet(u \cup r) /\ IsFiniteSet(Mail)
    BY MailAssumption, FS_Subset
  <1>2. /\ Cardinality(u) \in Nat /\ Cardinality(r) \in Nat /\ Cardinality(Mail) \in Nat
        /\ Cardinality(u \cup r) \in Nat
    BY <1>1, FS_CardinalityType
  <1>3. Cardinality(u \cup r) <= Cardinality(Mail)
    <2>1. u \cup r \subseteq Mail
      OBVIOUS
    <2> QED BY <1>1, <2>1, FS_Subset
  <1>4. Cardinality(u \cup r) = Cardinality(u) + Cardinality(r)
    <2>1. Cardinality(u \cup r) = Cardinality(u) + Cardinality(r) - Cardinality(u \cap r)
      BY <1>1, FS_Union
    <2>2. Cardinality(u \cap r) = 0
      BY FS_EmptySet
    <2> QED BY <1>2, <2>1, <2>2
  <1> QED BY <1>2, <1>3, <1>4

LEMMA BoxBounds == MailTyped /\ BadgeCounts /\ AddedUp => box \in Summary
  <1> SUFFICES ASSUME MailTyped, BadgeCounts, AddedUp PROVE box \in Summary
    OBVIOUS
  <1>1. /\ Unread \subseteq Mail /\ Read \subseteq Mail /\ Unread \cap Read = {}
        /\ box \in Shown /\ box.unread = Cardinality(Unread)
    BY DEF Unread, Read, MailTyped, BadgeCounts
  <1> QED BY <1>1, SizesBounded DEF Summary, Shown, AddedUp

\* How far each connection has come.
LinksInv == links \in [Link -> {"new", "open", "registered"}]

LEMMA LinksNextInv == LinksInv /\ [MailNext]_mailVars => LinksInv'
  <1> SUFFICES ASSUME LinksInv, [MailNext]_mailVars PROVE LinksInv'
    OBVIOUS
  <1>1. ASSUME NEW c \in MailCall,
               \/ WriteRow(c) \/ Trigger(c) \/ CommitMail(c) \/ RollBackMail(c)
               \/ Resolve(c) \/ PublishSummary(c) \/ LoseNotice(c)
        PROVE  links' = links
    BY <1>1 DEF WriteRow, Trigger, CommitMail, RollBackMail, Resolve, PublishSummary, LoseNotice
  <1>2. ASSUME NEW n \in mailWire, PushMailboxChanged(n) \/ DropSummary(n) PROVE links' = links
    BY <1>2 DEF PushMailboxChanged, DropSummary
  <1>3. ASSUME NEW l \in Link, OpenLink(l) \/ RegisterLink(l) \/ UnregisterLink(l) \/ GetSummary(l)
        PROVE  LinksInv'
    BY <1>3 DEF OpenLink, RegisterLink, UnregisterLink, GetSummary, LinksInv
  <1>4. UNCHANGED mailVars => links' = links
    BY DEF mailVars
  <1> QED BY <1>1, <1>2, <1>3, <1>4 DEF MailNext, LinksInv

LEMMA MailTypes == MailInv /\ MailSizes /\ LinksInv => MailTypeOK
  <1> SUFFICES ASSUME MailInv, MailSizes, LinksInv PROVE MailTypeOK
    OBVIOUS
  <1>1. \A c \in MailCall :
           /\ mailCalls[c].at \in {"open", "notify", "publish", "done"}
           /\ mailCalls[c].wrote \subseteq Mail
           /\ mailCalls[c].wrote = {} => boxLock # c
    BY DEF MailInv, MailTyped, MailSizes, Call
  <1>2. box \in Summary
    BY BoxBounds DEF MailInv, MailSizes
  <1> QED BY <1>1, <1>2 DEF MailInv, MailTyped, MailSizes, LinksInv, MailTypeOK

\* A commit moves as many rows as it has changed.
LEMMA CommitSizes ==
    ASSUME MailInv, MailSizes, NEW c \in MailCall, CommitMail(c)
    PROVE  AddedUp'
  <1> DEFINE rows == mailCalls[c].wrote
             n == Cardinality(rows)
  <1>1. /\ mailCalls[c].at = "open" /\ mailCalls[c] \in Call /\ MailOf(c) \in Mail
        /\ mails \in [Mail -> {"none", "UNREAD", "READ"}] /\ box \in Shown
        /\ mails' = [m \in Mail |-> IF m \notin rows THEN mails[m]
                                    ELSE IF Kind(c) = "send" THEN "UNREAD" ELSE "READ"]
        /\ box'.version = box.version + n
    BY MailAssumption DEF CommitMail, MailInv, MailTyped, Counted
  <1>2. /\ rows \subseteq Mail
        /\ Kind(c) = "send" => rows \subseteq {MailOf(c)} /\ mails[MailOf(c)] = "none"
        /\ Kind(c) # "send" => rows \subseteq Unread
    BY <1>1 DEF MailInv, RowsHeld, Call
  <1>3. /\ IsFiniteSet(rows) /\ n \in Nat
        /\ IsFiniteSet(Unread) /\ Cardinality(Unread) \in Nat
        /\ IsFiniteSet(Read) /\ Cardinality(Read) \in Nat
    <2>1. Unread \subseteq Mail /\ Read \subseteq Mail
      BY DEF Unread, Read
    <2> QED BY <1>2, <2>1, MailAssumption, FS_Subset, FS_CardinalityType
  <1>4. \A m \in Mail : mails'[m] = IF m \notin rows THEN mails[m]
                                    ELSE IF Kind(c) = "send" THEN "UNREAD" ELSE "READ"
    BY <1>1
  <1>5. box.version = Cardinality(Unread) + 2 * Cardinality(Read)
    BY DEF MailSizes, AddedUp
  <1>6. CASE Kind(c) = "send"
    <2>1. Unread' = Unread \cup rows /\ Unread \cap rows = {} /\ Read' = Read
      BY <1>2, <1>4, <1>6 DEF Unread, Read
    <2> HIDE DEF rows
    <2>2. Cardinality(Unread \cup rows) = Cardinality(Unread) + n - Cardinality(Unread \cap rows)
      BY <1>3, FS_Union
    <2>3. Cardinality(Unread \cap rows) = 0
      BY <2>1, FS_EmptySet
    <2>4. Cardinality(Unread') = Cardinality(Unread) + n
      BY <1>3, <2>1, <2>2, <2>3
    <2> QED BY <1>1, <1>3, <1>5, <2>1, <2>4 DEF AddedUp
  <1>7. CASE Kind(c) # "send"
    <2>1. Unread' = Unread \ rows /\ Unread \cap rows = rows /\ Read' = Read \cup rows /\ Read \cap rows = {}
      BY <1>2, <1>4, <1>7 DEF Unread, Read
    <2> HIDE DEF rows
    <2>2. Cardinality(Unread \ rows) = Cardinality(Unread) - Cardinality(Unread \cap rows)
      BY <1>3, FS_Difference
    <2>3. Cardinality(Read \cup rows) = Cardinality(Read) + n - Cardinality(Read \cap rows)
      BY <1>3, FS_Union
    <2>4. Cardinality(Read \cap rows) = 0
      BY <2>1, FS_EmptySet
    <2>5. Cardinality(Unread') = Cardinality(Unread) - n
      BY <2>1, <2>2
    <2>6. Cardinality(Read') = Cardinality(Read) + n
      BY <1>3, <2>1, <2>3, <2>4
    <2> QED BY <1>1, <1>3, <1>5, <2>5, <2>6 DEF AddedUp
  <1> QED BY <1>6, <1>7

LEMMA NoSummaryInBounds == NoSummary \in Summary
  <1>1. Cardinality(Mail) \in Nat
    BY MailAssumption, FS_CardinalityType
  <1> QED BY <1>1 DEF NoSummary, Summary

LEMMA MailSizesStep == MailInv /\ MailSizes /\ [MailNext]_mailVars => MailSizes'
  <1> SUFFICES ASSUME MailInv, MailSizes, [MailNext]_mailVars PROVE MailSizes'
    OBVIOUS
  <1>1. MailInv' /\ mailCalls \in [MailCall -> Call] /\ box \in Summary /\ Ended.summary \in Summary
        /\ NoCaller \notin MailCall
    BY MailNextInv, BoxBounds, NoSummaryInBounds, MailAssumption DEF MailInv, MailTyped, MailSizes, Ended
  <1>2. ASSUME UNCHANGED <<mails, box>>
        PROVE  AddedUp'
    BY <1>2 DEF MailSizes, AddedUp, Unread, Read
  <1>3. ASSUME NEW c \in MailCall, WriteRow(c) PROVE MailSizes'
    <2>1. PICK m : mailCalls' = [mailCalls EXCEPT ![c].wrote = @ \cup {m}]
      BY <1>3 DEF WriteRow
    <2>2. UNCHANGED <<mails, box, boxLock, mailWire, shown>>
      BY <1>3 DEF WriteRow
    <2>3. \A d \in MailCall : /\ mailCalls'[d].at = mailCalls[d].at
                              /\ mailCalls'[d].summary = mailCalls[d].summary
                              /\ mailCalls[d].wrote # {} => mailCalls'[d].wrote # {}
      BY <1>1, <2>1 DEF Call
    <2> QED BY <1>2, <2>2, <2>3 DEF MailSizes
  <1>4. ASSUME NEW c \in MailCall, Trigger(c) PROVE MailSizes'
    BY <1>2, <1>4 DEF Trigger, MailSizes
  <1>5. ASSUME NEW c \in MailCall, CommitMail(c) PROVE MailSizes'
    <2>1. AddedUp'
      BY <1>5, CommitSizes
    <2> DEFINE q == IF mailCalls[c].wrote = {} THEN Ended
                    ELSE [Ended EXCEPT !.at = "notify", !.summary = box']
    <2>2. /\ boxLock' = IF boxLock = c THEN NoCaller ELSE boxLock
          /\ mailCalls' = [mailCalls EXCEPT ![c] = q]
          /\ UNCHANGED <<mailWire, shown>>
      BY <1>5 DEF CommitMail
    <2>3. box' \in Summary
      <3>1. /\ Unread' \subseteq Mail /\ Read' \subseteq Mail /\ Unread' \cap Read' = {}
            /\ box' \in Shown /\ box'.unread = Cardinality(Unread')
        BY <1>1 DEF Unread, Read, MailInv, MailTyped, BadgeCounts
      <3> QED BY <2>1, <3>1, SizesBounded DEF Summary, Shown, AddedUp
    <2>4. q.summary \in Summary
      BY <1>1, <2>3 DEF Ended
    <2> HIDE DEF q
    <2>5. \A d \in MailCall : mailCalls'[d] = IF d = c THEN q ELSE mailCalls[d]
      BY <1>1, <2>2
    <2>6. \A d \in MailCall : mailCalls'[d].summary \in Summary
      BY <2>4, <2>5 DEF MailSizes
    <2>7. \A d \in MailCall : boxLock' = d => d # c /\ boxLock = d
      BY <1>1, <2>2
    <2>8. boxLock' \in MailCall \cup {NoCaller}
      BY <2>2 DEF MailSizes
    <2>9. \A d \in MailCall : boxLock' = d => mailCalls'[d].at = "open" /\ mailCalls'[d].wrote # {}
      BY <2>5, <2>7 DEF MailSizes
    <2> QED BY <2>1, <2>2, <2>6, <2>8, <2>9 DEF MailSizes
  <1>6. ASSUME NEW c \in MailCall, RollBackMail(c) PROVE MailSizes'
    <2>1. /\ boxLock' = IF boxLock = c THEN NoCaller ELSE boxLock
          /\ mailCalls' = [mailCalls EXCEPT ![c] = Ended]
          /\ UNCHANGED <<mails, box, mailWire, shown>>
      BY <1>6 DEF RollBackMail
    <2> QED BY <1>1, <1>2, <2>1 DEF MailSizes
  <1>7. ASSUME NEW c \in MailCall, Resolve(c) \/ PublishSummary(c) \/ LoseNotice(c) PROVE MailSizes'
    <2> DEFINE q == mailCalls'[c]
    <2>1. /\ mailCalls[c].at # "open" /\ UNCHANGED <<mails, box, boxLock, shown>>
          /\ \A d \in MailCall \ {c} : mailCalls'[d] = mailCalls[d]
          /\ mailCalls'[c].summary \in {Ended.summary, mailCalls[c].summary}
      BY <1>1, <1>7 DEF Resolve, PublishSummary, LoseNotice, Call
    <2>2. \A d \in MailCall : mailCalls'[d].summary \in Summary
      BY <1>1, <2>1 DEF MailSizes
    <2>3. mailWire' \subseteq [to : Link, summary : Summary]
      <3>1. CASE PublishSummary(c)
        <4>1. /\ mailCalls[c].at = "publish"
              /\ mailWire' = mailWire \cup {[to |-> mailCalls[c].to, summary |-> mailCalls[c].summary]}
          BY <3>1 DEF PublishSummary
        <4> QED BY <4>1 DEF MailSizes, MailInv, MailTyped
      <3>2. CASE Resolve(c) \/ LoseNotice(c)
        BY <3>2 DEF Resolve, LoseNotice, MailSizes
      <3> QED BY <1>7, <3>1, <3>2
    <2> QED BY <1>2, <2>1, <2>2, <2>3 DEF MailSizes
  <1>8. ASSUME NEW n \in mailWire, PushMailboxChanged(n) \/ DropSummary(n) PROVE MailSizes'
    <2>1. /\ UNCHANGED <<mails, box, boxLock, mailCalls>> /\ mailWire' \subseteq mailWire
          /\ shown' = shown \/ shown' = [shown EXCEPT ![n.to] = n.summary]
      BY <1>8 DEF PushMailboxChanged, DropSummary
    <2>2. n.to \in Link /\ n.summary \in Summary
      BY DEF MailSizes
    <2> QED BY <1>2, <2>1, <2>2 DEF MailSizes
  <1>9. ASSUME NEW l \in Link, OpenLink(l) \/ RegisterLink(l) \/ UnregisterLink(l) \/ GetSummary(l)
        PROVE  MailSizes'
    <2>1. /\ UNCHANGED <<mails, box, boxLock, mailCalls, mailWire>>
          /\ shown' = shown \/ shown' = [shown EXCEPT ![l] = box]
      BY <1>9 DEF OpenLink, RegisterLink, UnregisterLink, GetSummary
    <2> QED BY <1>1, <1>2, <2>1 DEF MailSizes
  <1>10. CASE UNCHANGED mailVars
    BY <1>2, <1>10 DEF MailSizes, mailVars
  <1> QED BY <1>3, <1>4, <1>5, <1>6, <1>7, <1>8, <1>9, <1>10 DEF MailNext

LEMMA MailSizesInit == MailInit => MailSizes
  <1> SUFFICES ASSUME MailInit PROVE MailSizes
    OBVIOUS
  <1>1. Unread = Delivered /\ Read = {}
    BY MailAssumption DEF MailInit, Unread, Read
  <1>2. Cardinality(Delivered) \in Nat /\ Cardinality(Read) = 0
    BY <1>1, MailAssumption, FS_Subset, FS_CardinalityType, FS_EmptySet
  <1>3. Ended.summary \in Summary /\ NoSummary \in Summary
    BY NoSummaryInBounds DEF Ended
  <1>4. \A c \in MailCall : mailCalls[c].summary \in Summary
    BY <1>3 DEF MailInit, Ended
  <1>5. AddedUp
    BY <1>1, <1>2 DEF MailInit, AddedUp
  <1> QED BY <1>3, <1>4, <1>5, MailAssumption DEF MailInit, MailSizes

\* A connection owes two calls at most, and none that ends the farm it watches.
HooksShort ==
    /\ \A c \in Conn : Len(hooks[c]) <= 2
    /\ \A f \in Farm : \A c \in Leaving(f) : watching[c] # f

SubTyped ==
    /\ timers \in [Farm -> {"none", "set", "fired"}]
    /\ late \in [Farm -> Nat]
    /\ connected = TRUE \/ connected = FALSE

\* Patches and what carries them, and the versions that were taken from them.
Cursor == [of : Farm, version : 0 .. MaxPatch]
Broadcast == [patch : Patch, todo : SUBSET Conn, at : {"next"} \cup Conn]

PatchesTyped ==
    /\ patches \in [Farm -> Nat]
    /\ IsFiniteSet(Units(patches)) /\ Tally(patches) <= MaxPatch
    /\ unsent \subseteq Patch
    /\ wire \in Seq(Patch)
    /\ event = NoEvent \/ event \in Broadcast
    /\ alive \in [Conn -> {"new", "open", "closed"}]
    /\ cursor \in [Conn -> Cursor]

ViewInv == HooksShort /\ SubTyped /\ PatchesTyped

\* Nobody counts a farm twice: whoever still owes its end has left it.
LEMMA RefsBounded ==
    ASSUME HubInv, HooksShort, NEW f \in Farm
    PROVE  refs[f] \in 0 .. Cardinality(Conn)
  <1>1. /\ refs[f] \in Nat
        /\ refs[f] + Cardinality(Entering(f)) = Cardinality(Leaving(f)) + Watched(f)
        /\ Cardinality(Entering(f)) \in Nat /\ Cardinality(Leaving(f)) \in Nat
    BY OwersFinite DEF HubInv, HubTyped, AddsUp
  <1>2. IsFiniteSet(Conn) /\ Cardinality(Conn) \in Nat /\ Leaving(f) \subseteq Conn
    BY HubAssumption, FS_CardinalityType DEF Leaving
  <1> DEFINE L == Leaving(f)
  <1>3. CASE Viewers(f) = {}
    <2>1. Watched(f) = 0
      BY <1>3 DEF Watched
    <2> HIDE DEF L
    <2>2. Cardinality(Leaving(f)) <= Cardinality(Conn)
      BY <1>2, FS_Subset
    <2> QED BY <1>1, <1>2, <2>1, <2>2
  <1>4. CASE Viewers(f) # {}
    <2>1. PICK c \in Conn : watching[c] = f
      BY <1>4 DEF Viewers
    <2>2. Watched(f) = 1 /\ c \notin L
      BY <1>4, <2>1 DEF Watched, HooksShort
    <2>3. L \subseteq Conn \ {c}
      BY <1>2, <2>2
    <2> HIDE DEF L
    <2>4. IsFiniteSet(Conn \ {c}) /\ Cardinality(Conn \ {c}) = Cardinality(Conn) - 1
      BY <1>2, <2>1, FS_RemoveElement
    <2>5. Cardinality(L) <= Cardinality(Conn \ {c})
      BY <2>3, <2>4, FS_Subset
    <2>6. Cardinality(Leaving(f)) <= Cardinality(Conn) - 1
      BY <2>4, <2>5 DEF L
    <2> QED BY <1>1, <1>2, <2>2, <2>6
  <1> QED BY <1>3, <1>4

LEMMA PartOfTally ==
    ASSUME NEW S, NEW f \in [S -> Nat], IsFiniteSet(Units(f)), NEW x \in S
    PROVE  f[x] <= Tally(f) /\ Tally(f) \in Nat
  <1> DEFINE U == {x} \X (1 .. f[x])
  <1>1. U \subseteq Units(f)
    BY DEF Units
  <1>2. f[x] \in Nat /\ f[x] \in Int
    OBVIOUS
  <1> DEFINE n == f[x]
  <1> HIDE DEF n
  <1>3. n \in Int /\ U = {x} \X (1 .. n)
    BY <1>2 DEF n
  <1>4. Cardinality({x} \X (1 .. n)) = IF n > 0 THEN n ELSE 0
    BY <1>3, UnitsOfOne
  <1>5. Cardinality(U) = IF n > 0 THEN n ELSE 0
    BY <1>3, <1>4
  <1> HIDE DEF U
  <1>6. Cardinality(U) <= Cardinality(Units(f)) /\ Cardinality(Units(f)) \in Nat
    BY <1>1, FS_Subset, FS_CardinalityType
  <1> QED BY <1>2, <1>5, <1>6 DEF Tally, n

LEMMA ViewTypes == HubInv /\ ViewInv => ViewerTypeOK
  <1> SUFFICES ASSUME HubInv, ViewInv PROVE ViewerTypeOK
    OBVIOUS
  <1>1. ASSUME NEW f \in Farm PROVE patches[f] \in 0 .. MaxPatch
    BY PartOfTally, HubAssumption DEF ViewInv, PatchesTyped
  <1>2. refs \in [Farm -> 0 .. Cardinality(Conn)]
    BY RefsBounded DEF HubInv, HubTyped, ViewInv
  <1>3. \A c \in Conn : hooks[c] \in Seq({"sub", "unsub"} \X Farm) /\ Len(hooks[c]) <= 2
    BY DEF HubInv, HubTyped, Hook, ViewInv, HooksShort
  <1>4. patches \in [Farm -> 0 .. MaxPatch]
    BY <1>1 DEF ViewInv, PatchesTyped
  <1>5. connected \in BOOLEAN
    BY DEF ViewInv, SubTyped
  <1>6. /\ watching \in [Conn -> Farm \cup {NoFarm}] /\ channels \subseteq Farm
        /\ timers \in [Farm -> {"none", "set", "fired"}] /\ late \in [Farm -> Nat]
    BY DEF HubInv, HubTyped, ViewInv, SubTyped
  <1>7. /\ alive \in [Conn -> {"new", "open", "closed"}]
        /\ cursor \in [Conn -> [of : Farm, version : 0 .. MaxPatch]]
        /\ unsent \subseteq Patch /\ wire \in Seq(Patch)
    BY DEF ViewInv, PatchesTyped, Cursor
  <1> QED BY <1>2, <1>3, <1>4, <1>5, <1>6, <1>7, Zenon DEF ViewerTypeOK

\* What a connection owes after it has changed its farm.
LEMMA MoveShort ==
    ASSUME HubInv, HooksShort, NEW c \in Conn, hooks[c] = <<>>, NEW to \in Farm \cup {NoFarm},
           to # watching[c] \/ to = NoFarm,
           NEW s \in Seq(Hook), Len(s) <= 2,
           \A f \in Farm : Owes(s, <<"unsub", f>>) => f = watching[c],
           watching' = [watching EXCEPT ![c] = to], hooks' = [hooks EXCEPT ![c] = s]
    PROVE  HooksShort'
  <1>1. /\ \A d \in Conn : watching'[d] = IF d = c THEN to ELSE watching[d]
        /\ \A d \in Conn : hooks'[d] = IF d = c THEN s ELSE hooks[d]
        /\ NoFarm \notin Farm
    BY HubAssumption DEF HubInv, HubTyped
  <1>2. \A d \in Conn : Len(hooks'[d]) <= 2
    BY <1>1 DEF HooksShort
  <1>3. ASSUME NEW f \in Farm, NEW d \in Leaving(f)' PROVE watching'[d] # f
    <2>1. d \in Conn /\ Owes(hooks'[d], <<"unsub", f>>)
      BY <1>3 DEF Leaving
    <2>2. CASE d = c
      BY <1>1, <2>1, <2>2
    <2>3. CASE d # c
      <3>1. d \in Leaving(f)
        BY <1>1, <2>1, <2>3 DEF Leaving
      <3> QED BY <1>1, <2>1, <2>3, <3>1 DEF HooksShort
    <2> QED BY <2>2, <2>3
  <1> QED BY <1>2, <1>3 DEF HooksShort

LEMMA ShortSubscribe ==
    ASSUME HubInv, HooksShort, NEW c \in Conn, NEW f \in Farm, NEW v, Subscribe(c, f, v)
    PROVE  HooksShort'
  <1>1. CASE UNCHANGED <<watching, hooks>>
    BY <1>1 DEF HooksShort, Leaving
  <1>2. CASE /\ watching[c] # f /\ watching' = [watching EXCEPT ![c] = f]
             /\ hooks' = [hooks EXCEPT ![c] = Left(c) \o Entered(f)]
    <2> DEFINE s == Left(c)
               t == Entered(f)
    <2>1. /\ s \in Seq(Hook) /\ t \in Seq(Hook) /\ Len(t) <= 1
          /\ \A g \in Farm : Owes(s, <<"unsub", g>>) <=> g = watching[c] /\ Viewers(g) = {c}
          /\ \A g \in Farm : ~Owes(t, <<"unsub", g>>)
      BY LeftOwes, EnteredOwes
    <2>2. Len(s) <= 1
      BY DEF Left
    <2>3. hooks' = [hooks EXCEPT ![c] = s \o t] /\ hooks[c] = <<>>
      BY <1>2 DEF Subscribe, Idle
    <2> HIDE DEF s, t
    <2>4. s \o t \in Seq(Hook) /\ Len(s \o t) <= 2
      BY <2>1, <2>2
    <2>5. \A h : Owes(s \o t, h) <=> Owes(s, h) \/ Owes(t, h)
      BY <2>1, OwesTwo
    <2> DEFINE u == s \o t
    <2>6. /\ u \in Seq(Hook) /\ Len(u) <= 2 /\ hooks' = [hooks EXCEPT ![c] = u]
          /\ \A g \in Farm : Owes(u, <<"unsub", g>>) => g = watching[c]
      BY <2>1, <2>3, <2>4, <2>5
    <2> HIDE DEF u
    <2> QED BY <1>2, <2>3, <2>6, MoveShort
  <1> QED BY <1>1, <1>2 DEF Subscribe

LEMMA HooksShortStep ==
    ASSUME HubInv, HooksShort, [ViewerNext]_viewVars PROVE HooksShort'
  <1>1. ASSUME UNCHANGED <<watching, hooks>> PROVE HooksShort'
    BY <1>1 DEF HooksShort, Leaving
  <1>2. ASSUME NEW c \in Conn, Connect(c) \/ \E f \in Farm : \E v \in 0 .. MaxPatch : SubscribeFarm(c, f, v)
        PROVE  HooksShort'
    <2>1. UserOf[c] \in Farm
      BY HubAssumption
    <2> QED BY <1>2, <2>1, ShortSubscribe DEF Connect, SubscribeFarm
  <1>3. ASSUME NEW c \in Conn, Disconnect(c) PROVE HooksShort'
    <2> DEFINE s == Left(c)
    <2>1. /\ hooks[c] = <<>> /\ watching' = [watching EXCEPT ![c] = NoFarm]
          /\ hooks' = [hooks EXCEPT ![c] = s]
      BY <1>3 DEF Disconnect, Unsubscribe, Idle
    <2>2. /\ s \in Seq(Hook)
          /\ \A g \in Farm : Owes(s, <<"unsub", g>>) => g = watching[c]
      BY LeftOwes
    <2>3. Len(s) <= 2
      BY DEF Left
    <2> HIDE DEF s
    <2> QED BY <2>1, <2>2, <2>3, MoveShort
  <1>4. ASSUME NEW c \in Conn, RunHook(c) PROVE HooksShort'
    <2>1. /\ hooks \in [Conn -> Seq(Hook)] /\ hooks[c] \in Seq(Hook) /\ hooks[c] # <<>>
          /\ OnceEach(hooks[c]) /\ watching' = watching
          /\ hooks' = [hooks EXCEPT ![c] = Tail(hooks[c])]
      BY <1>4 DEF HubInv, HubTyped, Hooked, RunHook, Idle
    <2>2. \A h : Owes(Tail(hooks[c]), h) => Owes(hooks[c], h)
      BY <2>1, OwesRest
    <2>3. Len(Tail(hooks[c])) <= Len(hooks[c]) /\ Len(hooks[c]) \in Nat
      BY <2>1
    <2>4. \A d \in Conn : hooks'[d] = IF d = c THEN Tail(hooks[c]) ELSE hooks[d]
      BY <2>1
    <2>5. Len(Tail(hooks[c])) <= 2
      <3>1. Len(Tail(hooks[c])) = Len(hooks[c]) - 1 /\ Len(hooks[c]) <= 2
        BY <2>1 DEF HooksShort
      <3> QED BY <2>3, <3>1
    <2>6. \A f \in Farm : Leaving(f)' \subseteq Leaving(f)
      BY <2>2, <2>4 DEF Leaving
    <2>7. \A d \in Conn : Len(hooks'[d]) <= 2
      BY <2>4, <2>5 DEF HooksShort
    <2> QED BY <2>1, <2>6, <2>7 DEF HooksShort
  <1>5. ASSUME NEW c \in Conn, (\E f \in Farm : Submit(c, f)) \/ LookAt(c) \/ Deliver(c) PROVE HooksShort'
    BY <1>1, <1>5 DEF Submit, LookAt, Deliver, hubVars
  <1>6. ASSUME \/ \E f \in Farm : TimerFires(f) \/ DelayedUnsubscribe(f)
               \/ ConnectionLost \/ Open \/ (\E p \in unsent : Publish(p)) \/ Receive
        PROVE  HooksShort'
    BY <1>1, <1>6 DEF TimerFires, DelayedUnsubscribe, ConnectionLost, Open, Publish, Receive, hubVars
  <1>7. CASE UNCHANGED viewVars
    BY <1>1, <1>7 DEF viewVars, hubVars
  <1> QED BY <1>2, <1>3, <1>4, <1>5, <1>6, <1>7 DEF ViewerNext

LEMMA SubTypedStep ==
    ASSUME HubInv, SubTyped, [ViewerNext]_viewVars PROVE SubTyped'
  <1>1. ASSUME UNCHANGED <<timers, late, connected>> PROVE SubTyped'
    BY <1>1 DEF SubTyped
  <1>2. ASSUME NEW c \in Conn, RunHook(c) PROVE SubTyped'
    <2>1. PICK f : AddRef(f) \/ DropRef(f)
      BY <1>2 DEF RunHook
    <2>2. /\ late' = late /\ connected' = connected
          /\ \/ timers' = timers \/ timers' = [timers EXCEPT ![f] = "none"]
             \/ timers' = [timers EXCEPT ![f] = "set"]
      BY <1>2, <2>1 DEF RunHook, AddRef, DropRef
    <2>3. timers' \in [Farm -> {"none", "set", "fired"}]
      BY <2>2 DEF SubTyped
    <2> QED BY <2>2, <2>3 DEF SubTyped
  <1>3. ASSUME NEW f \in Farm, TimerFires(f) \/ DelayedUnsubscribe(f) PROVE SubTyped'
    <2>1. /\ connected' = connected
          /\ \/ timers' = [timers EXCEPT ![f] = "fired"] \/ timers' = [timers EXCEPT ![f] = "none"]
          /\ \/ late' = [late EXCEPT ![f] = late[f] + 1]
             \/ late' = [late EXCEPT ![f] = late[f]]
             \/ late[f] > 0 /\ late' = [late EXCEPT ![f] = late[f] - 1]
      BY <1>3 DEF TimerFires, DelayedUnsubscribe
    <2>2. late[f] \in Nat
      BY DEF SubTyped
    <2>3. late' \in [Farm -> Nat]
      BY <2>1, <2>2 DEF SubTyped
    <2> QED BY <2>1, <2>3 DEF SubTyped
  <1>4. ASSUME ConnectionLost \/ Open PROVE SubTyped'
    BY <1>4 DEF ConnectionLost, Open, SubTyped
  <1>5. ASSUME NEW c \in Conn,
               \/ Connect(c) \/ Disconnect(c) \/ LookAt(c) \/ Deliver(c)
               \/ \E f \in Farm : Submit(c, f) \/ \E v \in 0 .. MaxPatch : SubscribeFarm(c, f, v)
        PROVE  SubTyped'
    BY <1>1, <1>5 DEF Connect, Disconnect, LookAt, Deliver, Submit, SubscribeFarm, subVars
  <1>6. ASSUME (\E p \in unsent : Publish(p)) \/ Receive PROVE SubTyped'
    BY <1>1, <1>6 DEF Publish, Receive, subVars
  <1>7. CASE UNCHANGED viewVars
    BY <1>1, <1>7 DEF viewVars, subVars
  <1> QED BY <1>2, <1>3, <1>4, <1>5, <1>6, <1>7 DEF ViewerNext

\* A snapshot's version, an answer's and a frame's are all of committed patches.
LEMMA PatchesStep ==
    ASSUME HubInv, PatchesTyped, [ViewerNext]_viewVars PROVE PatchesTyped'
  <1>1. /\ \A f \in Farm : patches[f] \in Nat /\ patches[f] <= MaxPatch
        /\ MaxPatch \in Nat /\ UserOf \in [Conn -> Farm]
    <2>1. \A f \in Farm : patches[f] <= Tally(patches) /\ Tally(patches) \in Nat
      BY PartOfTally DEF PatchesTyped
    <2> QED BY <2>1, HubAssumption DEF PatchesTyped
  <1>2. ASSUME UNCHANGED <<patches, unsent, wire, event>>,
               alive' \in [Conn -> {"new", "open", "closed"}], cursor' \in [Conn -> Cursor]
        PROVE  PatchesTyped'
    BY <1>2 DEF PatchesTyped, Units, Tally
  <1>3. ASSUME NEW c \in Conn, NEW f \in Farm, NEW v \in 0 .. patches[f], Subscribe(c, f, v)
        PROVE  cursor' \in [Conn -> Cursor]
    <2>1. [of |-> f, version |-> v] \in Cursor
      BY <1>1 DEF Cursor
    <2> QED BY <1>3, <2>1 DEF Subscribe, PatchesTyped
  <1>4. ASSUME NEW c \in Conn, Connect(c) PROVE PatchesTyped'
    <2>1. UserOf[c] \in Farm /\ 0 \in 0 .. patches[UserOf[c]]
      BY <1>1
    <2>2. cursor' \in [Conn -> Cursor]
      BY <1>3, <1>4, <2>1 DEF Connect
    <2>3. alive' \in [Conn -> {"new", "open", "closed"}] /\ UNCHANGED <<patches, unsent, wire, event>>
      BY <1>4 DEF Connect, patchVars, PatchesTyped
    <2> QED BY <1>2, <2>2, <2>3
  <1>5. ASSUME NEW c \in Conn, NEW f \in Farm, NEW v, SubscribeFarm(c, f, v) PROVE PatchesTyped'
    <2>1. cursor' \in [Conn -> Cursor]
      BY <1>3, <1>5 DEF SubscribeFarm
    <2>2. UNCHANGED <<alive, patches, unsent, wire, event>>
      BY <1>5 DEF SubscribeFarm, patchVars
    <2> QED BY <1>2, <2>1, <2>2 DEF PatchesTyped
  <1>6. ASSUME NEW c \in Conn, Disconnect(c) PROVE PatchesTyped'
    <2>1. alive' = [alive EXCEPT ![c] = "closed"] /\ UNCHANGED <<cursor, patches, unsent, wire, event>>
      BY <1>6 DEF Disconnect, patchVars
    <2> QED BY <1>2, <2>1 DEF PatchesTyped
  <1>7. ASSUME NEW c \in Conn, NEW f \in Farm, Submit(c, f) PROVE PatchesTyped'
    <2>1. /\ Tally(patches) < MaxPatch /\ patches' = [patches EXCEPT ![f] = patches[f] + 1]
          /\ unsent' = unsent \cup {[farm |-> f, version |-> patches[f] + 1]}
          /\ \/ cursor' = [cursor EXCEPT ![c] = [of |-> f, version |-> patches[f] + 1]]
             \/ cursor' = cursor
          /\ UNCHANGED <<alive, wire, event>>
      BY <1>7 DEF Submit, SumOfPatches
    <2>2. /\ patches \in [Farm -> Nat] /\ patches' \in [Farm -> Nat]
          /\ \A g \in Farm \ {f} : patches'[g] = patches[g]
          /\ patches'[f] = patches[f] + 1 /\ patches[f] \in Nat
      BY <1>1, <2>1 DEF PatchesTyped
    <2>3. /\ IsFiniteSet(Units(patches')) /\ Tally(patches') = Tally(patches) + 1
          /\ Tally(patches) \in Nat
      <3>1. patches \in [Farm -> Int] /\ patches' \in [Farm -> Int] /\ IsFiniteSet(Units(patches))
        BY <2>2 DEF PatchesTyped
      <3>2. /\ IsFiniteSet(Units(patches')) /\ Tally(patches') \in Nat /\ Tally(patches) \in Nat
            /\ Tally(patches') = Tally(patches) - (IF patches[f] > 0 THEN patches[f] ELSE 0)
                                              + (IF patches'[f] > 0 THEN patches'[f] ELSE 0)
        BY <2>2, <3>1, TallyChange
      <3> QED BY <2>2, <3>2
    <2>4. patches[f] + 1 \in 1 .. MaxPatch
      <3>1. patches[f] <= Tally(patches)
        BY <2>2, PartOfTally DEF PatchesTyped
      <3> QED BY <1>1, <2>1, <2>2, <2>3, <3>1
    <2>5. unsent' \subseteq Patch
      BY <2>1, <2>4 DEF PatchesTyped, Patch
    <2>6. cursor' \in [Conn -> Cursor]
      <3>1. [of |-> f, version |-> patches[f] + 1] \in Cursor
        BY <2>4 DEF Cursor
      <3> QED BY <2>1, <3>1 DEF PatchesTyped
    <2>7. Tally(patches') <= MaxPatch
      BY <1>1, <2>1, <2>3
    <2>8. IsFiniteSet(Units(patches)') /\ (Tally(patches) <= MaxPatch)'
      BY <2>3, <2>7 DEF Units, Tally
    <2> QED BY <2>1, <2>2, <2>5, <2>6, <2>8 DEF PatchesTyped
  <1>8. ASSUME NEW p \in unsent, Publish(p) PROVE PatchesTyped'
    <2>1. /\ unsent' = unsent \ {p} /\ (wire' = Append(wire, p) \/ wire' = wire)
          /\ UNCHANGED <<patches, event, alive, cursor>>
      BY <1>8 DEF Publish, hubVars
    <2>2. p \in Patch /\ wire \in Seq(Patch)
      BY DEF PatchesTyped
    <2>3. wire' \in Seq(Patch)
      BY <2>1, <2>2
    <2> QED BY <2>1, <2>3 DEF PatchesTyped, Units, Tally
  <1>9. CASE ConnectionLost
    BY <1>9 DEF ConnectionLost, hubVars, PatchesTyped, Units, Tally
  <1>10. CASE Receive
    <2>1. /\ wire # <<>> /\ wire' = Tail(wire)
          /\ event' = [patch |-> Head(wire), todo |-> Viewers(Head(wire).farm), at |-> "next"]
          /\ UNCHANGED <<patches, unsent, alive, cursor>>
      BY <1>10 DEF Receive, hubVars
    <2>2. Head(wire) \in Patch /\ Tail(wire) \in Seq(Patch)
      BY <2>1 DEF PatchesTyped
    <2>3. Viewers(Head(wire).farm) \subseteq Conn
      BY DEF Viewers
    <2>4. event' \in Broadcast
      BY <2>1, <2>2, <2>3 DEF Broadcast
    <2> QED BY <2>1, <2>2, <2>4 DEF PatchesTyped, Units, Tally
  <1>11. ASSUME NEW c \in Conn, LookAt(c) \/ Deliver(c) PROVE PatchesTyped'
    <2>1. event.todo # {} /\ UNCHANGED <<patches, unsent, wire, alive>>
      BY <1>11 DEF LookAt, Deliver, hubVars, patchVars
    <2>2. event \in Broadcast
      BY <2>1 DEF PatchesTyped, NoEvent
    <2>3. event' \in Broadcast
      BY <1>11, <2>2 DEF LookAt, Deliver, Broadcast
    <2>4. cursor' \in [Conn -> Cursor]
      <3>1. [of |-> event.patch.farm, version |-> event.patch.version] \in Cursor
        BY <1>1, <2>2 DEF Broadcast, Patch, Cursor
      <3> QED BY <1>11, <3>1 DEF LookAt, Deliver, hubVars, PatchesTyped
    <2> QED BY <2>1, <2>3, <2>4 DEF PatchesTyped, Units, Tally
  <1>12. ASSUME \/ \E c \in Conn : RunHook(c)
                \/ \E f \in Farm : TimerFires(f) \/ DelayedUnsubscribe(f)
                \/ Open
         PROVE  PatchesTyped'
    <2>1. UNCHANGED <<patches, unsent, wire, event, alive, cursor>>
      BY <1>12 DEF RunHook, TimerFires, DelayedUnsubscribe, Open, hubVars, patchVars
    <2> QED BY <1>2, <2>1 DEF PatchesTyped
  <1>13. CASE UNCHANGED viewVars
    <2>1. UNCHANGED <<patches, unsent, wire, event, alive, cursor>>
      BY <1>13 DEF viewVars, hubVars, patchVars
    <2> QED BY <1>2, <2>1 DEF PatchesTyped
  <1> QED BY <1>4, <1>5, <1>6, <1>7, <1>8, <1>9, <1>10, <1>11, <1>12, <1>13 DEF ViewerNext

LEMMA ViewNextInv == HubInv /\ ViewInv /\ [ViewerNext]_viewVars => ViewInv'
  BY HooksShortStep, SubTypedStep, PatchesStep DEF ViewInv

LEMMA ViewInitInv == ViewerInit => ViewInv
  <1> SUFFICES ASSUME ViewerInit PROVE ViewInv
    OBVIOUS
  <1>1. MaxPatch \in Nat /\ UserOf \in [Conn -> Farm]
    BY HubAssumption
  <1>2. \A c \in Conn : hooks[c] = <<>>
    BY DEF ViewerInit
  <1>3. HooksShort
    BY <1>2 DEF HooksShort, Leaving, Owes
  <1>4. SubTyped
    BY DEF ViewerInit, SubTyped
  <1>5. patches = [f \in Farm |-> 0] /\ IsFiniteSet(Units(patches)) /\ Tally(patches) = 0
    <2>1. patches = [f \in Farm |-> 0]
      BY DEF ViewerInit
    <2>2. \A f \in DOMAIN patches : patches[f] \in Int /\ patches[f] <= 0
      BY <2>1
    <2> QED BY <2>1, <2>2, EmptyTally
  <1>6. cursor \in [Conn -> Cursor]
    BY <1>1 DEF ViewerInit, Cursor
  <1>7. PatchesTyped
    BY <1>1, <1>5, <1>6 DEF ViewerInit, PatchesTyped
  <1> QED BY <1>3, <1>4, <1>7 DEF ViewInv

LEMMA CallTypes == CallsInv => CallTypeOK
  BY DEF CallsInv, CallsTyped, CallTypeOK

\* What the types need beyond the invariants of the parts.
Ranges == focus \in Focus /\ ClockInv /\ BuysInv /\ MailSizes /\ LinksInv /\ ViewInv

LEMMA RangesInit == Init => Ranges
  <1> SUFFICES ASSUME Init PROVE Ranges
    OBVIOUS
  <1>1. ClockInv
    BY AdmissionAssumption DEF Init, AdmInit, ClockInv
  <1>2. BuysInv
    BY DEF Init, Buys!CoalInit, BuysInv
  <1>3. LinksInv
    BY DEF Init, MailInit, LinksInv
  <1> QED BY <1>1, <1>2, <1>3, MailSizesInit, ViewInitInv DEF Init, Ranges

LEMMA RangesNext ==
    HubInv /\ MailInv /\ CoalInv /\ Ranges /\ [Next]_gatewayVars => Ranges'
  <1> SUFFICES ASSUME HubInv, MailInv, CoalInv, Ranges, [Next]_gatewayVars PROVE Ranges'
    OBVIOUS
  <1>1. ClockInv' /\ BuysInv' /\ MailSizes' /\ LinksInv' /\ ViewInv'
    BY AdmFrame, ClockNextInv, CoalFrame, BuysNextInv, MailFrame, MailSizesStep, LinksNextInv,
       HubFrame, ViewNextInv DEF Ranges
  <1>2. focus' = focus
    BY DEF Next, gatewayVars
  <1> QED BY <1>1, <1>2 DEF Ranges

\* GatewayTypeOK holds: all seven parts keep their state within their types, counters
\* within their bounds, references and badges within what there is to count.
THEOREM GatewayTypes == Spec => []GatewayTypeOK
  <1>1. /\ Init => Ranges
        /\ HubInv /\ MailInv /\ CoalInv /\ Ranges /\ [Next]_gatewayVars => Ranges'
    BY RangesInit, RangesNext
  <1>2. /\ HubInv /\ MailInv /\ ReadInv /\ CoalInv /\ AdmInv /\ SessInv /\ CallsInv /\ Ranges
        => GatewayTypeOK
    BY ViewTypes, MailTypes, ReadTypes, CoalTypes, AdmTypes, SessTypes, CallTypes DEF Ranges, GatewayTypeOK
  <1> QED BY <1>1, <1>2, HubInvariant, MailInvariant, ReadInvariant, CoalescerInvariant,
             AdmissionInvariant, SessionInvariant, CallInvariant, PTL DEF Spec
=============================================================================
