------------------------------ MODULE ReadCache ------------------------------
(***************************************************************************)
(* The gateway's cached reads of one farm snapshot (or one player's        *)
(* assets): readers look in Redis, join a shared flight to gamesvr when    *)
(* they find nothing fresh, and write back what they read under the        *)
(* generation they found; writers commit and then invalidate.              *)
(*                                                                         *)
(* gatesvr wraps the clients as cache(singleflight(rpc)): a reader loads   *)
(* its generation before it joins a flight that may already be under way.  *)
(***************************************************************************)
EXTENDS Integers

CONSTANTS
    Reader,        \* requests to the gateways of one Redis
    MaxWrites,     \* bound: commits
    MaxCacheFaults \* bound: Redis commands and RPCs that fail

ASSUME CacheAssumption == MaxWrites \in Nat /\ MaxCacheFaults \in Nat

VARIABLES
    version,       \* the committed version
    uncleared,     \* commits whose invalidation is still to come
    entry,         \* the cache entry, or Absent
    generation,    \* the generation counter beside it
    invalidated,   \* the newest version whose invalidation has succeeded
    reads,         \* what each reader is doing
    flight,        \* the shared call to gamesvr
    cacheFaults    \* faults so far

cacheVars == <<version, uncleared, entry, generation, invalidated, reads, flight, cacheFaults>>

Absent == [value |-> -1]
NoGen == -1
Grounded == [at |-> "no call"]
Here(r, at) == reads[r].at = at

ReadTypeOK ==
    /\ version \in 0 .. MaxWrites
    /\ uncleared \subseteq 1 .. MaxWrites
    /\ entry = Absent \/ entry \in
          [value : 0 .. MaxWrites, state : {"fresh", "stale", "corrupt"}, led : BOOLEAN]
    /\ generation \in 0 .. MaxWrites + MaxCacheFaults
    /\ invalidated \in 0 .. version
    /\ \A r \in Reader :
          /\ reads[r].at \in {"idle", "generation", "join", "wait", "fill", "done"}
          /\ reads[r].gen \in NoGen .. generation
    /\ flight = Grounded \/ flight.joined \subseteq Reader

ReadInit ==
    /\ version = 0
    /\ uncleared = {}
    /\ entry = Absent
    /\ generation = 0
    /\ invalidated = 0
    /\ reads = [r \in Reader |-> [at |-> "idle", gen |-> NoGen, cached |-> -1, value |-> -1, led |-> FALSE]]
    /\ flight = Grounded
    /\ cacheFaults = 0

CacheFault == cacheFaults < MaxCacheFaults /\ cacheFaults' = cacheFaults + 1

-----------------------------------------------------------------------------
(* Writers.                                                                  *)

CommitWrite ==
    /\ version < MaxWrites
    /\ version' = version + 1
    /\ uncleared' = uncleared \cup {version'}
    /\ UNCHANGED <<entry, generation, invalidated, reads, flight, cacheFaults>>

\* INCR the generation and DEL the entry, in one script.
InvalidateKey ==
    /\ generation' = generation + 1
    /\ entry' = Absent

\* The invalidation after commit w; it may fail, and is not tried again.
Invalidate(w) ==
    /\ w \in uncleared
    /\ uncleared' = uncleared \ {w}
    /\ \/ /\ InvalidateKey
          /\ invalidated' = IF w > invalidated THEN w ELSE invalidated
          /\ UNCHANGED cacheFaults
       \/ CacheFault /\ UNCHANGED <<entry, generation, invalidated>>
    /\ UNCHANGED <<version, reads, flight>>

\* Time: a fresh entry turns stale, a stale one expires.
Age ==
    /\ entry # Absent
    /\ entry' = IF entry.state = "fresh" THEN [entry EXCEPT !.state = "stale"] ELSE Absent
    /\ UNCHANGED <<version, uncleared, generation, invalidated, reads, flight, cacheFaults>>

\* An older release may have left a value that does not parse.
Corrupt ==
    /\ CacheFault
    /\ entry # Absent /\ entry.state # "corrupt"
    /\ entry' = [entry EXCEPT !.state = "corrupt"]
    /\ UNCHANGED <<version, uncleared, generation, invalidated, reads, flight>>

-----------------------------------------------------------------------------
(* Readers.                                                                  *)

At(r, at) == reads' = [reads EXCEPT ![r].at = at]

\* GET the entry: a hit ends the read, an unreadable entry is invalidated and
\* the reader goes on without a generation, as after a Redis error.
Load(r) ==
    /\ Here(r, "idle")
    /\ \/ /\ entry # Absent /\ entry.state = "fresh"
          /\ reads' = [reads EXCEPT ![r].at = "done", ![r].value = entry.value]
          /\ UNCHANGED <<entry, generation, cacheFaults>>
       \/ /\ entry # Absent /\ entry.state = "stale"
          /\ reads' = [reads EXCEPT ![r].at = "generation", ![r].cached = entry.value]
          /\ UNCHANGED <<entry, generation, cacheFaults>>
       \/ /\ entry = Absent
          /\ At(r, "generation")
          /\ UNCHANGED <<entry, generation, cacheFaults>>
       \/ /\ entry # Absent /\ entry.state = "corrupt"
          /\ InvalidateKey
          /\ At(r, "join")
          /\ UNCHANGED cacheFaults
       \/ CacheFault /\ At(r, "join") /\ UNCHANGED <<entry, generation>>
    /\ UNCHANGED <<version, uncleared, invalidated, flight>>

\* GET the generation; after an error what was cached is not used either.
LoadGeneration(r) ==
    /\ Here(r, "generation")
    /\ \/ /\ reads' = [reads EXCEPT ![r].at = "join", ![r].gen = generation]
          /\ UNCHANGED cacheFaults
       \/ /\ CacheFault
          /\ reads' = [reads EXCEPT ![r].at = "join", ![r].cached = -1]
    /\ UNCHANGED <<version, uncleared, entry, generation, invalidated, flight>>

\* The first reader starts the call, the others share it.
Join(r) ==
    /\ Here(r, "join")
    /\ flight' = IF flight = Grounded
                 THEN [at |-> "called", joined |-> {r}, value |-> -1]
                 ELSE [flight EXCEPT !.joined = @ \cup {r}]
    /\ reads' = [reads EXCEPT ![r].at = "wait", ![r].led = (flight = Grounded)]
    /\ UNCHANGED <<version, uncleared, entry, generation, invalidated, cacheFaults>>

\* gamesvr reads the committed row.
ReadRow ==
    /\ flight.at = "called"
    /\ flight' = [flight EXCEPT !.at = "read", !.value = version]
    /\ UNCHANGED <<version, uncleared, entry, generation, invalidated, reads, cacheFaults>>

\* Everyone who joined gets the value.
Answer ==
    /\ flight.at = "read"
    /\ reads' = [r \in Reader |->
          IF r \in flight.joined
          THEN [reads[r] EXCEPT !.at = "fill", !.value = flight.value]
          ELSE reads[r]]
    /\ flight' = Grounded
    /\ UNCHANGED <<version, uncleared, entry, generation, invalidated, cacheFaults>>

\* Everyone who joined gets the error; an overloaded or unreachable service is
\* papered over with the stale value, any other error is passed on.
AnswerError ==
    /\ flight.at # "no call"
    /\ CacheFault
    /\ \E canServeStale \in BOOLEAN :
          reads' = [r \in Reader |->
             IF r \in flight.joined
             THEN [reads[r] EXCEPT !.at = "done",
                                   !.value = IF canServeStale THEN reads[r].cached ELSE -1]
             ELSE reads[r]]
    /\ flight' = Grounded
    /\ UNCHANGED <<version, uncleared, entry, generation, invalidated>>

GenerationIgnored(r) == TRUE

GenerationHolds(r) == reads[r].gen = generation

\* The fill script compares the generation, then stores the value.
Fill(r) ==
    /\ Here(r, "fill")
    /\ At(r, "done")
    /\ \/ /\ reads[r].gen # NoGen
          /\ GenerationHolds(r)
          /\ entry' = [value |-> reads[r].value, state |-> "fresh", led |-> reads[r].led]
          /\ UNCHANGED cacheFaults
       \/ /\ reads[r].gen = NoGen \/ ~GenerationHolds(r)
          /\ UNCHANGED <<entry, cacheFaults>>
       \/ CacheFault /\ UNCHANGED entry
    /\ UNCHANGED <<version, uncleared, generation, invalidated, flight>>

-----------------------------------------------------------------------------
ReadNext ==
    \/ CommitWrite
    \/ \E w \in uncleared : Invalidate(w)
    \/ Age
    \/ Corrupt
    \/ \E r \in Reader : Load(r) \/ LoadGeneration(r) \/ Join(r) \/ Fill(r)
    \/ ReadRow
    \/ Answer
    \/ AnswerError

-----------------------------------------------------------------------------
\* "A generation key prevents a read that started before a successful write
\* from repopulating stale data after invalidation" (read_cache.go:37): no
\* entry is older than a version whose invalidation has succeeded.
InvalidatedStaysOut == entry # Absent => entry.value >= invalidated

\* So much is true of a reader that made the call to gamesvr itself.
LedFillsAreCurrent == entry # Absent /\ entry.led => entry.value >= invalidated
=============================================================================
