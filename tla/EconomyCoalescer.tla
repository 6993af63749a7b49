-------------------------- MODULE EconomyCoalescer ---------------------------
(***************************************************************************)
(* Purchases (or sales) of one user and crop, gathered for a short window  *)
(* and sent to gamesvr as one command: buckets with a timer, a once that   *)
(* fires each bucket a single time, and one lock for the whole coalescer.  *)
(*                                                                         *)
(* A bucket's once is entered by its timer, which runs flush inside it, or *)
(* by a Submit that finds the bucket full, which starts flush and leaves.  *)
(***************************************************************************)
EXTENDS Integers, Sequences, Tallies

CONSTANTS
    Buy,          \* calls of Submit, numbered from 1
    Key(_),       \* the Idempotency-Key of a call
    Quantity(_),  \* the quantity bought under a key
    MaxQuantity   \* MaxEconomyQuantity

VARIABLES
    buys,         \* what each call is doing
    bucket,       \* the buckets made so far, in order
    current,      \* the bucket in the map, 0 when there is none
    holder,       \* the call that holds the lock, Nobody when it is free
    sent          \* per bucket, the quantity of the command it became

coalVars == <<buys, bucket, current, holder, sent>>

Nobody == 0
Buckets == 1 .. Len(bucket)
Free == holder = Nobody

CoalTypeOK ==
    /\ \A q \in Buy : buys[q].at \in {"new", "stuck", "waits", "gone", "answered"}
    /\ \A b \in Buckets :
          /\ bucket[b].waiters \subseteq Buy
          /\ bucket[b].total \in 0 .. MaxQuantity
          /\ bucket[b].once \in {"open", "entered", "done"}
          /\ bucket[b].flush \in {"no", "starts", "sends", "over"}
    /\ current \in 0 .. Len(bucket)
    /\ holder \in Buy \cup {Nobody}

CoalInit ==
    /\ buys = [q \in Buy |-> [at |-> "new", in |-> 0]]
    /\ bucket = <<>>
    /\ current = 0
    /\ holder = Nobody
    /\ sent = <<>>

NewBucket == [waiters |-> {}, keys |-> {}, total |-> 0, timer |-> "set", once |-> "open", flush |-> "no"]

JoinedTwice(b, q) ==
    [b EXCEPT !.waiters = @ \cup {q}, !.keys = @ \cup {Key(q)}, !.total = @ + Quantity(Key(q))]

\* Call q joins a bucket and counts unless its key is there already.
Joined(b, q) ==
    [b EXCEPT !.waiters = @ \cup {q},
              !.keys = @ \cup {Key(q)},
              !.total = IF Key(q) \in b.keys THEN @ ELSE @ + Quantity(Key(q))]

\* The bucket that Submit finds under the lock, made if there is none.
Found == IF current = 0 THEN Append(bucket, NewBucket) ELSE bucket
Here == IF current = 0 THEN Len(bucket) + 1 ELSE current

FitsAlways(q) == TRUE

Fits(q) ==
    \/ Key(q) \in Found[Here].keys
    \/ Found[Here].total + Quantity(Key(q)) <= MaxQuantity

Submit(q) ==
    /\ buys[q].at = "new"
    /\ Free
    /\ Fits(q)
    /\ bucket' = [Found EXCEPT ![Here] = Joined(@, q)]
    /\ current' = Here
    /\ buys' = [buys EXCEPT ![q] = [at |-> "waits", in |-> Here]]
    /\ UNCHANGED <<holder, sent>>

\* triggerFlush while the lock is held: the once lets the caller through when
\* it is open (flush runs on its own) or done; then q opens the next bucket.  A
\* once that its timer has entered is left when flush has had the lock: a caller
\* that waits for it keeps the lock for good.
Opens(b) ==
    IF bucket[b].once = "open"
    THEN [bucket EXCEPT ![b] = [@ EXCEPT !.timer = "stopped", !.once = "done", !.flush = "starts"]]
    ELSE bucket

SubmitOverflow(q) ==
    /\ buys[q].at = "new"
    /\ Free
    /\ ~Fits(q)
    /\ IF bucket[current].once = "entered"
       THEN /\ holder' = q
            /\ buys' = [buys EXCEPT ![q].at = "stuck"]
            /\ UNCHANGED <<bucket, current>>
       ELSE /\ bucket' = Append(Opens(current), Joined(NewBucket, q))
            /\ current' = Len(bucket) + 1
            /\ buys' = [buys EXCEPT ![q] = [at |-> "waits", in |-> Len(bucket) + 1]]
            /\ holder' = holder
    /\ UNCHANGED sent

\* The window ends: the timer's function enters the once, unless it is over.
WindowEnds(b) ==
    /\ bucket[b].timer = "set"
    /\ bucket' = [bucket EXCEPT ![b] =
          IF @.once = "open"
          THEN [@ EXCEPT !.timer = "fired", !.once = "entered", !.flush = "starts"]
          ELSE [@ EXCEPT !.timer = "fired"]]
    /\ UNCHANGED <<buys, current, holder, sent>>

\* flush takes the bucket out of the map under the lock.
TakeBucket(b) ==
    /\ bucket[b].flush = "starts"
    /\ Free
    /\ bucket' = [bucket EXCEPT ![b].flush = "sends"]
    /\ current' = IF current = b THEN 0 ELSE current
    /\ UNCHANGED <<buys, holder, sent>>

\* It sends one command under a fresh cmd_id and answers everyone waiting.
Send(b) ==
    /\ bucket[b].flush = "sends"
    /\ bucket' = [bucket EXCEPT ![b].flush = "over", ![b].once = "done"]
    /\ sent' = Append(sent, [of |-> b, quantity |-> bucket[b].total])
    /\ buys' = [q \in Buy |-> IF buys[q].at = "waits" /\ q \in bucket[b].waiters
                              THEN [buys[q] EXCEPT !.at = "answered"] ELSE buys[q]]
    /\ UNCHANGED <<current, holder>>

\* The client of a waiting call goes away; its quantity stays.
GoAway(q) ==
    /\ buys[q].at = "waits"
    /\ buys' = [buys EXCEPT ![q].at = "gone"]
    /\ UNCHANGED <<bucket, current, holder, sent>>

CoalNext ==
    \/ \E q \in Buy : Submit(q) \/ SubmitOverflow(q) \/ GoAway(q)
    \/ \E b \in Buckets : WindowEnds(b) \/ TakeBucket(b) \/ Send(b)

-----------------------------------------------------------------------------
\* What calls ask for together, a key counted once.
AskedFor(calls) == Tally([k \in {Key(q) : q \in calls} |-> Quantity(k)])

\* Every command stands for the distinct keys that wait for it, once each and
\* within the limit, and no bucket is sent twice.
SentAddsUp ==
    /\ \A i, j \in DOMAIN sent : sent[i].of = sent[j].of => i = j
    /\ \A i \in DOMAIN sent :
          /\ sent[i].quantity <= MaxQuantity
          /\ sent[i].quantity = AskedFor(bucket[sent[i].of].waiters)
=============================================================================
