------------------------------- MODULE Accounts -------------------------------
(***************************************************************************)
(* Accounts over several database shards: registration and login by name,  *)
(* login by device, and the global user IDs they are given.                *)
(*                                                                         *)
(* Before an account exists its identity picks the shard (ShardForKey);    *)
(* afterwards its ID does (ShardForUserID).  Accounts copied from the      *)
(* single database lie where their old ID put them.  A transaction sees    *)
(* what is committed (READ COMMITTED) and waits at a unique key that       *)
(* another has inserted.  The rows of an account, identity, farm, wallet   *)
(* and seeds, are of one transaction and stand for each other.             *)
(***************************************************************************)
EXTENDS Integers, FiniteSets

CONSTANTS
    Login,       \* calls
    LoginKind,   \* "register", "password" or "guest"
    SubjectOf,   \* the name or the device a call presents
    HomeOf,      \* ShardForKey of a name or device
    Imported,    \* accounts copied from the single database
    NodeOf,      \* the gamesvr instance that serves a call
    Shards,      \* number of shards, numbered in the order of their names
    NodeIds, SequenceIds, ShardIds,   \* 2^nodeBits, 2^sequenceBits, 2^shardBits
    MaxMs        \* bound: milliseconds since the epoch

Shard == 0 .. Shards - 1

ASSUME LoginAssumption ==
    /\ Shards \in Nat \ {0} /\ ShardIds \in Nat \ {0} /\ ShardIds % Shards = 0
    /\ NodeIds \in Nat \ {0} /\ SequenceIds \in Nat \ {0} /\ MaxMs \in Nat \ {0}
    /\ \A s \in DOMAIN HomeOf : HomeOf[s] \in Shard
    /\ \A c \in Login : /\ NodeOf[c] \in 0 .. NodeIds - 1 /\ SubjectOf[c] \in DOMAIN HomeOf
                         /\ LoginKind[c] \in {"register", "password", "guest"}
    /\ \A a \in Imported : a.id \in Nat /\ a.shard = a.id % Shards
    /\ \A a, b \in Imported : a.subject = b.subject \/ a.id = b.id => a = b

VARIABLES
    clock,      \* milliseconds since the epoch
    generator,  \* per instance and shard: lastMS and sequence
    accounts,   \* committed accounts
    logins,     \* what each call is doing
    sessions    \* IDs that have a session in Redis

accountVars == <<clock, generator, accounts, logins, sessions>>

NoId == -1
Generator == [last : 0 .. MaxMs, sequence : 0 .. SequenceIds - 1]
Waiting == [at |-> "new", now |-> 0, shard |-> 0, id |-> NoId, fresh |-> FALSE, answer |-> "none"]

AccountTypeOK ==
    /\ clock \in 0 .. MaxMs
    /\ generator \in [{NodeOf[c] : c \in Login} \X Shard -> Generator]
    /\ \A a \in accounts : a.id \in Nat /\ a.shard \in Shard
    /\ \A c \in Login :
          /\ logins[c].at \in {"new", "search", "begin", "allocate", "insert", "commit", "session", "done"}
          /\ logins[c].shard \in Shard
          /\ logins[c].answer \in {"none", "session", "exists", "unauthorized", "error"}
    /\ sessions \subseteq {a.id : a \in accounts}

AccountInit ==
    /\ clock = 1
    /\ generator = [g \in {NodeOf[c] : c \in Login} \X Shard |-> [last |-> 0, sequence |-> 0]]
    /\ accounts = Imported
    /\ logins = [c \in Login |-> Waiting]
    /\ sessions = {}

-----------------------------------------------------------------------------
(* The user IDs.                                                             *)

\* The bits of an ID: milliseconds, instance, sequence, shard.
GlobalId(ms, node, sequence, shard) ==
    ((ms * NodeIds + node) * SequenceIds + sequence) * ShardIds + shard

ShardForUserID(id) == id % Shards

\* Whatever time it is given, Next remembers it as the last.
Exhausted(g, ms) == ms = g.last /\ g.sequence = SequenceIds - 1

Advance(g, ms) ==
    IF ms = g.last THEN [g EXCEPT !.sequence = @ + 1] ELSE [last |-> ms, sequence |-> 0]

-----------------------------------------------------------------------------
(* A call.                                                                   *)

Subject(c) == SubjectOf[c]
Local(c) == LoginKind[c] # "guest"
Existing(c, s) == {a \in accounts : a.subject = Subject(c) /\ a.shard = s}
Moves(c, r) == logins' = [logins EXCEPT ![c] = r]
Answers(c, a) == Moves(c, [logins[c] EXCEPT !.at = "done", !.answer = a])

\* The time is read first; a password is then hashed or checked, which takes long.
StartLogin(c) ==
    /\ logins[c].at = "new"
    /\ Moves(c, [logins[c] EXCEPT
          !.at = IF Local(c) THEN "begin" ELSE "search",
          !.now = clock,
          !.shard = IF Local(c) THEN HomeOf[Subject(c)] ELSE 0])
    /\ UNCHANGED <<clock, generator, accounts, sessions>>

\* Mutant: the other shards are not asked.
LookUpHomeOnly(c) ==
    /\ logins[c].at = "search"
    /\ Moves(c, [logins[c] EXCEPT !.at = "begin", !.shard = HomeOf[Subject(c)]])
    /\ UNCHANGED <<clock, generator, accounts, sessions>>

\* A device is looked for on every shard in turn, and belongs to its home when
\* none has it.
LookUp(c) ==
    LET s == logins[c].shard IN
    /\ logins[c].at = "search"
    /\ Moves(c,
          IF Existing(c, s) # {} THEN [logins[c] EXCEPT !.at = "begin"]
          ELSE IF s = Shards - 1
               THEN [logins[c] EXCEPT !.at = "begin", !.shard = HomeOf[Subject(c)]]
               ELSE [logins[c] EXCEPT !.shard = s + 1])
    /\ UNCHANGED <<clock, generator, accounts, sessions>>

\* The identity, read in the transaction or, to check a password, before it.
FindIdentity(c) ==
    LET found == Existing(c, logins[c].shard) IN
    /\ logins[c].at = "begin"
    /\ IF found = {}
       THEN IF LoginKind[c] = "password" THEN Answers(c, "unauthorized")
            ELSE Moves(c, [logins[c] EXCEPT !.at = "allocate"])
       ELSE IF LoginKind[c] = "register" THEN Answers(c, "exists")
            ELSE \E a \in found : Moves(c, [logins[c] EXCEPT !.at = "commit", !.id = a.id])
    /\ UNCHANGED <<clock, generator, accounts, sessions>>

\* IDGenerator.Next, under its mutex, with the time the call began at.
Allocate(c) ==
    LET r == logins[c]
        g == generator[<<NodeOf[c], r.shard>>]
        h == Advance(g, r.now) IN
    /\ r.at = "allocate"
    /\ IF Exhausted(g, r.now)
       THEN Answers(c, "error") /\ UNCHANGED generator
       ELSE /\ generator' = [generator EXCEPT ![<<NodeOf[c], r.shard>>] = h]
            /\ Moves(c, [r EXCEPT !.at = "insert", !.fresh = TRUE,
                                  !.id = GlobalId(r.now, NodeOf[c], h.sequence, r.shard)])
    /\ UNCHANGED <<clock, accounts, sessions>>

\* Calls c and d want the same row of a unique index on the same shard.
Collides(c, d) ==
    /\ logins[c].shard = logins[d].shard
    /\ Subject(c) = Subject(d) \/ logins[c].id = logins[d].id

\* The account's rows.  A duplicate key of either index is taken for a name that
\* exists by Register, and is an error to GuestLogin.
InsertAccount(c) ==
    /\ logins[c].at = "insert"
    /\ \A d \in Login \ {c} : Collides(c, d) => ~(logins[d].at = "commit" /\ logins[d].fresh)
    /\ IF \E a \in accounts : a.shard = logins[c].shard
                              /\ (a.id = logins[c].id \/ a.subject = Subject(c))
       THEN Answers(c, IF Local(c) THEN "exists" ELSE "error")
       ELSE Moves(c, [logins[c] EXCEPT !.at = "commit"])
    /\ UNCHANGED <<clock, generator, accounts, sessions>>

\* The rows a call has inserted, farm, wallet and seeds among them.
NewAccount(c) ==
    LET r == logins[c] IN
    IF r.fresh THEN {[subject |-> Subject(c), shard |-> r.shard, id |-> r.id]} ELSE {}

CommitAccount(c) ==
    /\ logins[c].at = "commit"
    /\ accounts' = accounts \cup NewAccount(c)
    /\ Moves(c, [logins[c] EXCEPT !.at = "session"])
    /\ UNCHANGED <<clock, generator, sessions>>

\* The session is written to Redis after the commit, or fails to be: the account
\* is there all the same, and a retry logs in or is told that the name exists.
CreateSession(c) ==
    /\ logins[c].at = "session"
    /\ \/ sessions' = sessions \cup {logins[c].id} /\ Answers(c, "session")
       \/ UNCHANGED sessions /\ Answers(c, "error")
    /\ UNCHANGED <<clock, generator, accounts>>

\* MySQL fails or the caller goes away: the transaction is rolled back.
AbortLogin(c) ==
    /\ logins[c].at \in {"search", "begin", "allocate", "insert", "commit"}
    /\ Answers(c, "error")
    /\ UNCHANGED <<clock, generator, accounts, sessions>>

MsPasses ==
    /\ clock < MaxMs
    /\ clock' = clock + 1
    /\ UNCHANGED <<generator, accounts, logins, sessions>>

AccountNext ==
    \/ \E c \in Login :
          \/ StartLogin(c) \/ LookUp(c) \/ FindIdentity(c) \/ Allocate(c)
          \/ InsertAccount(c) \/ CommitAccount(c) \/ CreateSession(c) \/ AbortLogin(c)
    \/ MsPasses

-----------------------------------------------------------------------------
\* An account copied under a name to another shard than the one on which the name is
\* registered and looked up: no call finds it.
Overlooked(a) ==
    /\ a \in Imported
    /\ a.shard # HomeOf[a.subject]
    /\ \E c \in Login : Local(c) /\ Subject(c) = a.subject

\* Accounts that are overlooked apart, a name or device has one account on all shards
\* together, devices copied to any shard included.  No two accounts have one ID, every
\* ID leads to the shard its rows lie on, and whoever gets a session gets that of an
\* account under his own name or device (sharded_account_service.go:23, :61).
OneAccountEach ==
    /\ \A a, b \in accounts :
          a.subject = b.subject /\ ~Overlooked(a) /\ ~Overlooked(b) => a = b
    /\ \A a, b \in accounts : a.id = b.id => a = b
    /\ \A a \in accounts : ShardForUserID(a.id) = a.shard
    /\ \A c \in Login : logins[c].answer = "session" =>
          \E a \in accounts : a.subject = Subject(c) /\ a.id = logins[c].id

\* "Next returns a globally unique ID for the supplied wall-clock time"
\* (id.go:36).
IdsUnique ==
    \A c, d \in Login : c # d /\ logins[c].fresh /\ logins[d].fresh =>
        logins[c].id # logins[d].id
=============================================================================
