-------------------------- MODULE AssetTransactions --------------------------
(***************************************************************************)
(* The transactions that move one player's coins, seeds and crops: shop    *)
(* purchases and sales, planting and harvesting, task rewards, mail        *)
(* attachments, crops stolen from a farm on another shard, and the pet.    *)
(* They run side by side in gamesvr and workersvr and meet only on rows:   *)
(* the farm, the wallet, the two inventory rows, and each claim's own row. *)
(*                                                                         *)
(* A transaction takes its row locks one by one, in the order of its code, *)
(* and keeps them to the end (READ COMMITTED, SELECT ... FOR UPDATE and    *)
(* conditional UPDATEs).  Requests are resent at will.                     *)
(***************************************************************************)
EXTENDS Integers, Sequences, Tallies

CONSTANTS
    Op,          \* requests; a resent one keeps its idempotency key
    NoOp,
    Kind,        \* Kind[o]: what o asks for
    Slot,        \* transactions that can run at once
    MaxAttempts, \* mysqlretry.MaxAttempts
    StartCoins,  \* what a new account gets
    StartSeeds,
    SeedPrice, SellPrice, Yield, Reward, Gift, Stolen, PetPrice

\* Attachments of mails are coins, seeds or crops.
Kinds ==
    {"purchase", "sell", "plant", "harvest", "reward", "stolen", "pet",
     "mailCoins", "mailSeeds", "mailCrops"}

\* The rows that requests share; a claim's row goes by its request.
SharedRows == {"farm", "wallet", "seeds", "crops"}

ASSUME AssetAssumption ==
    /\ NoOp \notin Op /\ Op \cap SharedRows = {}
    /\ Kind \in [Op -> Kinds]
    /\ MaxAttempts \in Nat \ {0}
    /\ {StartCoins, StartSeeds, SeedPrice, SellPrice, Yield, Reward, Gift,
        Stolen, PetPrice} \subseteq Nat

VARIABLES
    coins,   \* wallets.coin_balance
    seeds,   \* inventory_items of the player: SEED
    crops,   \* and CROP
    planted, \* the farm: a plot is planted
    times,   \* times[o]: how often o has taken effect; its ledger row, receipt,
             \* claim or pet exists when that is not 0
    tx       \* the running transactions

vars == <<coins, seeds, crops, planted, times, tx>>

Free == [op |-> NoOp, step |-> "free", locks |-> 0, try |-> 1, balance |-> 0]

-----------------------------------------------------------------------------
(* What each kind of request does.                                         *)

\* Mutant: the harvest is credited before the farm is locked.
CreditFirst ==
    [purchase |-> <<"wallet", "seeds">>, sell    |-> <<"wallet", "crops">>,
     plant    |-> <<"farm", "seeds">>,   harvest |-> <<"crops", "farm">>,
     pet      |-> <<"farm", "wallet">>,  reward  |-> <<"claim", "wallet">>,
     stolen   |-> <<"claim", "crops">>,  mailCoins |-> <<"claim", "wallet">>,
     mailSeeds |-> <<"claim", "seeds">>, mailCrops |-> <<"claim", "crops">>]

\* The rows it locks, in order.
LockOrder ==
    [purchase |-> <<"wallet", "seeds">>, sell    |-> <<"wallet", "crops">>,
     plant    |-> <<"farm", "seeds">>,   harvest |-> <<"farm", "crops">>,
     pet      |-> <<"farm", "wallet">>,  reward  |-> <<"claim", "wallet">>,
     stolen   |-> <<"claim", "crops">>,  mailCoins |-> <<"claim", "wallet">>,
     mailSeeds |-> <<"claim", "seeds">>, mailCrops |-> <<"claim", "crops">>]

\* A claim's row is its own: the task, the attachment, the ledger key.
Row(o, n) ==
    IF LockOrder[Kind[o]][n] = "claim" THEN o ELSE LockOrder[Kind[o]][n]

\* What it adds to coins, seeds, crops and planted plots.
Effect ==
    [purchase |-> <<- SeedPrice, 1, 0, 0>>, sell    |-> <<SellPrice, 0, -1, 0>>,
     plant    |-> <<0, -1, 0, 1>>,          harvest |-> <<0, 0, Yield, -1>>,
     pet      |-> <<- PetPrice, 0, 0, 0>>,  reward  |-> <<Reward, 0, 0, 0>>,
     stolen   |-> <<0, 0, Stolen, 0>>,      mailCoins |-> <<Gift, 0, 0, 0>>,
     mailSeeds |-> <<0, Gift, 0, 0>>,       mailCrops |-> <<0, 0, Gift, 0>>]

CoinDelta(o) == Effect[Kind[o]][1]
SeedDelta(o) == Effect[Kind[o]][2]
CropDelta(o) == Effect[Kind[o]][3]

\* Requests that look for their ledger row or receipt before they lock anything.
KeepsKey(o) == Kind[o] \in {"purchase", "sell", "plant", "harvest"}

HasPet == \E o \in Op : Kind[o] = "pet" /\ times[o] > 0

\* Mutant: a claim is not checked under its lock.
AcceptsEveryClaim(o, n) ==
    /\ Row(o, n) = "wallet" => coins + CoinDelta(o) >= 0
    /\ Row(o, n) = "seeds" => seeds + SeedDelta(o) >= 0
    /\ Row(o, n) = "crops" => crops + CropDelta(o) >= 0
    /\ Row(o, n) = "farm" => IF Kind[o] = "pet" THEN ~ HasPet
                             ELSE planted = (Kind[o] = "harvest")

\* What the code requires of a row once it has locked it.
Accepts(o, n) ==
    /\ Row(o, n) = "wallet" => coins + CoinDelta(o) >= 0
    /\ Row(o, n) = "seeds" => seeds + SeedDelta(o) >= 0
    /\ Row(o, n) = "crops" => crops + CropDelta(o) >= 0
    /\ Row(o, n) = "farm" => IF Kind[o] = "pet" THEN ~ HasPet
                             ELSE planted = (Kind[o] = "harvest")
    /\ Row(o, n) = o => times[o] = 0

-----------------------------------------------------------------------------

Init ==
    /\ coins = StartCoins /\ seeds = StartSeeds /\ crops = 0
    /\ planted = FALSE
    /\ times = [o \in Op |-> 0]
    /\ tx = [s \in Slot |-> Free]

Held(s) == {Row(tx[s].op, n) : n \in 1..tx[s].locks}
Wanted(s) == Row(tx[s].op, tx[s].locks + 1)
Acquiring(s) == tx[s].step = "run" /\ tx[s].locks < Len(LockOrder[Kind[tx[s].op]])

\* The first step of an attempt at o.
Attempt(o, n) ==
    [op |-> o, step |-> IF KeepsKey(o) THEN "check" ELSE "run",
     locks |-> 0, try |-> n, balance |-> 0]

\* A request, or one sent again, reaches the service.
Begin(s) ==
    /\ tx[s] = Free
    /\ \E o \in Op : tx' = [tx EXCEPT ![s] = Attempt(o, 1)]
    /\ UNCHANGED <<coins, seeds, crops, planted, times>>

\* checkEconomyTransaction, checkReceipt: a plain read; a request that has
\* taken effect is answered from its row.
CheckKey(s) ==
    /\ tx[s].step = "check"
    /\ tx' = [tx EXCEPT ![s] =
           IF times[@.op] > 0 THEN Free ELSE [@ EXCEPT !.step = "run"]]
    /\ UNCHANGED <<coins, seeds, crops, planted, times>>

\* The wallet's balance is read with its lock.
Granted(s) ==
    [tx[s] EXCEPT !.locks = @ + 1,
                  !.balance = IF Wanted(s) = "wallet" THEN coins ELSE @]

\* Mutant: the row is read without waiting for its lock.
AcquireUnlocked(s) ==
    /\ Acquiring(s)
    /\ tx' = [tx EXCEPT ![s] =
           IF Accepts(@.op, @.locks + 1) THEN Granted(s) ELSE Free]
    /\ UNCHANGED <<coins, seeds, crops, planted, times>>

\* The next row's lock is free: take it and check the row, or give up and roll
\* back.
Acquire(s) ==
    /\ Acquiring(s)
    /\ \A t \in Slot \ {s} : Wanted(s) \notin Held(t)
    /\ tx' = [tx EXCEPT ![s] =
           IF Accepts(@.op, @.locks + 1) THEN Granted(s) ELSE Free]
    /\ UNCHANGED <<coins, seeds, crops, planted, times>>

\* A retryable error: the whole transaction starts over, a bounded number of
\* times.
RolledBack(t) == IF t.try < MaxAttempts THEN Attempt(t.op, t.try + 1) ELSE Free

\* Purchases and sales write the balance they computed; rewards, attachments
\* and the pet's price are added by the UPDATE itself.
CoinsAfter(t) ==
    IF Kind[t.op] \in {"purchase", "sell"} THEN t.balance + CoinDelta(t.op)
    ELSE coins + CoinDelta(t.op)

\* Every write becomes visible, or the unique key of the ledger or of
\* cmd_receipts makes the attempt roll back.
Commit(s) ==
    LET o == tx[s].op IN
    /\ tx[s].step = "run" /\ ~ Acquiring(s)
    /\ IF KeepsKey(o) /\ times[o] > 0
       THEN /\ tx' = [tx EXCEPT ![s] = RolledBack(@)]
            /\ UNCHANGED <<coins, seeds, crops, planted, times>>
       ELSE /\ coins' = CoinsAfter(tx[s])
            /\ seeds' = seeds + SeedDelta(o)
            /\ crops' = crops + CropDelta(o)
            /\ planted' = IF Kind[o] \in {"plant", "harvest"} THEN ~ planted
                          ELSE planted
            /\ times' = [times EXCEPT ![o] = @ + 1]
            /\ tx' = [tx EXCEPT ![s] = Free]

\* A lock wait times out.
TransientError(s) ==
    /\ tx[s].step = "run"
    /\ tx' = [tx EXCEPT ![s] = RolledBack(@)]
    /\ UNCHANGED <<coins, seeds, crops, planted, times>>

\* The crop is not ripe, the call is cancelled, MySQL fails or the service dies.
Abort(s) ==
    /\ tx[s] # Free
    /\ tx' = [tx EXCEPT ![s] = Free]
    /\ UNCHANGED <<coins, seeds, crops, planted, times>>

Next ==
    \E s \in Slot :
        \/ Begin(s) \/ CheckKey(s) \/ Acquire(s) \/ Commit(s)
        \/ TransientError(s) \/ Abort(s)

Spec == Init /\ [][Next]_vars

-----------------------------------------------------------------------------
(* Properties.                                                             *)

\* Types, and with them that no balance is ever negative.
TypeOK ==
    /\ {coins, seeds, crops} \subseteq Nat
    /\ planted \in BOOLEAN
    /\ times \in [Op -> Nat]
    /\ tx \in [Slot -> [op : Op \cup {NoOp}, step : {"free", "check", "run"},
                        locks : 0..2, try : 1..MaxAttempts, balance : Nat]]

\* What the effects that have happened add up to.
Gained(i) == [o \in Op |-> times[o] * Effect[Kind[o]][i]]
Lost(i) == [o \in Op |-> - (times[o] * Effect[Kind[o]][i])]
Balance(i) == Tally(Gained(i)) - Tally(Lost(i))

\* Nothing is lost and nothing appears: coins, seeds, crops and the plot are
\* what the requests that took effect make them, in whatever order their
\* transactions interleaved (commitEconomicTx, applyEconomicSideEffects).
Accounted ==
    /\ TypeOK
    /\ coins = StartCoins + Balance(1)
    /\ seeds = StartSeeds + Balance(2)
    /\ crops = Balance(3)
    /\ (IF planted THEN 1 ELSE 0) = Balance(4)

\* However often and however concurrently it is sent, a purchase, a sale, a
\* claim or a stolen crop takes effect once, and a player gets one pet.
TakesEffectOnce ==
    /\ \A o \in Op : times[o] <= 1
    /\ \A o, p \in Op :
           Kind[o] = "pet" /\ Kind[p] = "pet" /\ times[o] > 0 /\ times[p] > 0 => o = p

\* The order farm, claim, wallet, inventory: no transactions wait for each other
\* in a circle ("Global order", committer_mysql.go and mysql_pet_service.go).
NoDeadlock ==
    \A S \in (SUBSET Slot) \ {{}} :
        ~ \A s \in S : Acquiring(s) /\ \E t \in S \ {s} : Wanted(s) \in Held(t)
=============================================================================
