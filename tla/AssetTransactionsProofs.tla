----------------------- MODULE AssetTransactionsProofs -----------------------
(***************************************************************************)
(* AssetTransactions: no negative balance, each request takes effect once, *)
(* and no circle of lock waits, for any requests, prices and number of     *)
(* transactions at a time.                                                 *)
(***************************************************************************)
EXTENDS AssetTransactions, TallyProofs

\* What every kind of request locks, row by row.
LEMMA LockOrders ==
    ASSUME NEW o \in Op
    PROVE  /\ Kind[o] \in Kinds
           /\ Len(LockOrder[Kind[o]]) = 2
           /\ LockOrder[Kind[o]][1] = IF Kind[o] \in {"purchase", "sell"} THEN "wallet"
                 ELSE IF Kind[o] \in {"plant", "harvest", "pet"} THEN "farm" ELSE "claim"
           /\ LockOrder[Kind[o]][2] = IF Kind[o] \in {"purchase", "plant", "mailSeeds"} THEN "seeds"
                 ELSE IF Kind[o] \in {"sell", "harvest", "stolen", "mailCrops"} THEN "crops" ELSE "wallet"
  <1>1. Kind[o] \in Kinds
    BY AssetAssumption
  <1> QED BY <1>1 DEF LockOrder, Kinds

LEMMA Rows ==
    ASSUME NEW o \in Op
    PROVE  /\ Row(o, 1) = IF Kind[o] \in {"purchase", "sell"} THEN "wallet"
                 ELSE IF Kind[o] \in {"plant", "harvest", "pet"} THEN "farm" ELSE o
           /\ Row(o, 2) = IF Kind[o] \in {"purchase", "plant", "mailSeeds"} THEN "seeds"
                 ELSE IF Kind[o] \in {"sell", "harvest", "stolen", "mailCrops"} THEN "crops" ELSE "wallet"
           /\ o \notin {"farm", "wallet", "seeds", "crops"}
           /\ Kind[o] \in Kinds
  BY LockOrders, AssetAssumption DEF Row, SharedRows

LEMMA Deltas ==
    ASSUME NEW o \in Op
    PROVE  /\ \A i \in 1..4 : Effect[Kind[o]][i] \in Int
           /\ CoinDelta(o) \in Int /\ SeedDelta(o) \in Int /\ CropDelta(o) \in Int
           /\ Effect[Kind[o]][4] = IF Kind[o] = "plant" THEN 1
                                   ELSE IF Kind[o] = "harvest" THEN -1 ELSE 0
  BY AssetAssumption DEF CoinDelta, SeedDelta, CropDelta, Effect, Kinds

\* A request changes a balance only if its row is one of those it locks.
LEMMA ChangesWhatItLocks ==
    ASSUME NEW o \in Op
    PROVE  /\ CoinDelta(o) # 0 => "wallet" \in {Row(o, 1), Row(o, 2)}
           /\ SeedDelta(o) # 0 => "seeds" \in {Row(o, 1), Row(o, 2)}
           /\ CropDelta(o) # 0 => "crops" \in {Row(o, 1), Row(o, 2)}
  BY Rows DEF CoinDelta, SeedDelta, CropDelta, Effect, Kinds

-----------------------------------------------------------------------------
(* The inductive invariant.                                                *)

TxType == [op : Op \cup {NoOp}, step : {"free", "check", "run"},
           locks : 0..2, try : 1..MaxAttempts, balance : Nat]

\* A transaction has a request, and holds locks only while it runs.
Shaped(t) ==
    /\ t.step # "free" => t.op \in Op
    /\ t.step # "run" => t.locks = 0

\* A row is locked by one transaction.
LocksExclusive ==
    \A s, t \in Slot : s # t => Held(s) \cap Held(t) = {}

\* What a transaction checked of a row, and the balance it read, stays true as
\* long as it holds the lock.
ChecksStand ==
    \A s \in Slot : \A n \in 1..tx[s].locks :
        /\ Accepts(tx[s].op, n)
        /\ Row(tx[s].op, n) = "wallet" => tx[s].balance = coins

IInv ==
    /\ TypeOK
    /\ \A s \in Slot : Shaped(tx[s])
    /\ LocksExclusive
    /\ ChecksStand
    /\ TakesEffectOnce

\* A step that only gives locks back.
LEMMA LocksGivenBack ==
    ASSUME IInv, NEW s \in Slot, NEW r \in TxType, Shaped(r), r.locks = 0,
           tx' = [tx EXCEPT ![s] = r],
           UNCHANGED <<coins, seeds, crops, planted, times>>
    PROVE  IInv'
  <1>1. tx \in [Slot -> TxType] /\ tx' \in [Slot -> TxType]
    BY DEF IInv, TypeOK, TxType
  <1>2. tx'[s] = r /\ \A t \in Slot \ {s} : tx'[t] = tx[t]
    BY <1>1
  <1>3. TypeOK' /\ TakesEffectOnce'
    BY <1>1 DEF IInv, TypeOK, TxType, TakesEffectOnce
  <1>4. \A t \in Slot : Shaped(tx[t])'
    BY <1>2 DEF IInv, Shaped
  <1>5. Held(s)' = {} /\ \A t \in Slot \ {s} : Held(t)' = Held(t)
    BY <1>2 DEF Held
  <1>6. LocksExclusive'
    BY <1>5 DEF IInv, LocksExclusive
  <1>7. \A o, n : Accepts(o, n)' = Accepts(o, n)
    BY DEF Accepts, HasPet
  <1>8. ChecksStand'
    BY <1>2, <1>7 DEF IInv, ChecksStand
  <1> QED BY <1>3, <1>4, <1>6, <1>8 DEF IInv

LEMMA GrantedRecord ==
    ASSUME NEW t \in TxType, NEW b \in Nat, t.locks < 2
    PROVE  LET r == [t EXCEPT !.locks = @ + 1, !.balance = b] IN
           /\ r \in TxType
           /\ r.op = t.op /\ r.step = t.step /\ r.locks = t.locks + 1 /\ r.balance = b
  <1> DEFINE a == [t EXCEPT !.locks = @ + 1]
             r == [t EXCEPT !.locks = @ + 1, !.balance = b]
  <1>1. a \in TxType /\ a.op = t.op /\ a.step = t.step /\ a.locks = t.locks + 1
    BY DEF TxType
  <1>2. r = [a EXCEPT !.balance = b]
    OBVIOUS
  <1> HIDE DEF a
  <1>3. [a EXCEPT !.balance = b] \in TxType
    BY <1>1 DEF TxType
  <1> QED BY <1>1, <1>2, <1>3 DEF TxType

\* The next row is locked, and what it must be for the request is so.
LEMMA LockTaken ==
    ASSUME IInv, NEW s \in Slot, Acquire(s), Accepts(tx[s].op, tx[s].locks + 1)
    PROVE  IInv'
  <1> DEFINE o == tx[s].op
             n == tx[s].locks + 1
             bal == IF Row(o, n) = "wallet" THEN coins ELSE tx[s].balance
             r == [tx[s] EXCEPT !.locks = @ + 1, !.balance = bal]
  <1>1. tx \in [Slot -> TxType] /\ coins \in Nat
    BY DEF IInv, TypeOK, TxType
  <1>2. o \in Op /\ tx[s].step = "run" /\ n \in 1..2
    <2>1. o \in Op /\ tx[s].step = "run" /\ tx[s].locks < Len(LockOrder[Kind[o]])
      BY DEF Acquire, Acquiring, IInv, Shaped
    <2>2. tx[s].locks < 2
      BY <2>1, LockOrders
    <2> QED BY <1>1, <2>1, <2>2 DEF TxType
  <1>3. tx' = [tx EXCEPT ![s] = IF Accepts(o, n) THEN r ELSE Free]
    BY Zenon DEF Acquire, Granted, Wanted
  <1>4. r \in TxType /\ r.op = o /\ r.step = "run" /\ r.locks = n /\ r.balance = bal
    <2>1. tx[s] \in TxType /\ tx[s].locks < 2 /\ bal \in Nat
      BY <1>1, <1>2 DEF TxType
    <2> HIDE DEF bal
    <2> QED BY <1>2, <2>1, GrantedRecord
  <1> HIDE DEF r, bal
  <1>5. tx' = [tx EXCEPT ![s] = r] /\ UNCHANGED <<coins, seeds, crops, planted, times>>
    BY <1>3 DEF Acquire
  <1>6. tx'[s] = r /\ \A t \in Slot \ {s} : tx'[t] = tx[t]
    BY <1>1, <1>5
  <1>7. tx' \in [Slot -> TxType]
    BY <1>1, <1>4, <1>5
  <1>8. TypeOK' /\ TakesEffectOnce'
    BY <1>5, <1>7 DEF IInv, TypeOK, TxType, TakesEffectOnce
  <1>9. \A t \in Slot : Shaped(tx[t])'
    BY <1>2, <1>6, <1>4 DEF IInv, Shaped
  <1>10. Held(s)' = Held(s) \cup {Row(o, n)}
    <2>1. Held(s)' = {Row(o, m) : m \in 1..n}
      BY <1>6, <1>4 DEF Held, Row
    <2>2. 1..n = (1..tx[s].locks) \cup {n}
      BY <1>1, <1>2 DEF TxType
    <2> QED BY <2>1, <2>2 DEF Held
  <1>11. \A t \in Slot \ {s} : Held(t)' = Held(t) /\ Row(o, n) \notin Held(t)
    BY <1>6 DEF Held, Acquire, Wanted
  <1>12. LocksExclusive'
    BY <1>10, <1>11 DEF IInv, LocksExclusive
  <1>13. \A p, m : Accepts(p, m)' = Accepts(p, m)
    BY <1>5 DEF Accepts, HasPet
  <1>14. ChecksStand'
    <2> SUFFICES ASSUME NEW t \in Slot, NEW m \in 1..tx'[t].locks
                 PROVE  /\ Accepts(tx'[t].op, m)
                        /\ Row(tx'[t].op, m) = "wallet" => tx'[t].balance = coins
      BY <1>5, <1>13 DEF ChecksStand, Row
    <2>1. CASE t # s
      BY <2>1, <1>6 DEF IInv, ChecksStand
    <2>2. CASE t = s /\ m = n
      BY <2>2, <1>6, <1>4 DEF bal
    <2>3. CASE t = s /\ m # n
      <3>1. m \in 1..tx[s].locks
        BY <2>3, <1>1, <1>2, <1>6, <1>4 DEF TxType
      <3>2. Accepts(o, m) /\ (Row(o, m) = "wallet" => tx[s].balance = coins)
        BY <3>1 DEF IInv, ChecksStand
      <3> QED BY <2>3, <3>2, <1>6, <1>4 DEF bal
    <2> QED BY <2>1, <2>2, <2>3
  <1> QED BY <1>8, <1>9, <1>12, <1>14 DEF IInv

\* A commit finds its rows as they were checked: it moves what its request
\* moves, and no balance goes below zero.
LEMMA CommitMoves ==
    ASSUME IInv, NEW s \in Slot, Commit(s),
           ~ (KeepsKey(tx[s].op) /\ times[tx[s].op] > 0)
    PROVE  LET o == tx[s].op IN
           /\ o \in Op /\ times[o] = 0
           /\ Held(s) = {Row(o, 1), Row(o, 2)}
           /\ Kind[o] = "pet" => ~ HasPet
           /\ coins' = coins + CoinDelta(o) /\ coins' \in Nat
           /\ seeds' = seeds + SeedDelta(o) /\ seeds' \in Nat
           /\ crops' = crops + CropDelta(o) /\ crops' \in Nat
  <1> DEFINE o == tx[s].op
  <1>1. tx[s] \in TxType /\ {coins, seeds, crops} \subseteq Nat /\ times \in [Op -> Nat]
    BY DEF IInv, TypeOK, TxType
  <1>2. o \in Op /\ tx[s].locks = 2
    <2>1. o \in Op /\ ~ (tx[s].locks < Len(LockOrder[Kind[o]]))
      BY DEF Commit, Acquiring, IInv, Shaped
    <2> QED BY <1>1, <2>1, LockOrders DEF TxType
  <1>3. Held(s) = {Row(o, 1), Row(o, 2)}
    <2>1. 1..2 = {1, 2}
      OBVIOUS
    <2> QED BY <1>2, <2>1 DEF Held
  <1>4. \A n \in {1, 2} : Accepts(o, n) /\ (Row(o, n) = "wallet" => tx[s].balance = coins)
    BY <1>2 DEF IInv, ChecksStand
  <1>5. Kind[o] = "pet" => ~ HasPet
    BY <1>2, <1>4, Rows DEF Accepts
  <1>6. times[o] = 0
    <2>1. CASE KeepsKey(o)
      BY <1>1, <1>2, <2>1
    <2>2. CASE Kind[o] = "pet"
      BY <1>1, <1>2, <1>5, <2>2 DEF HasPet
    <2>3. CASE Kind[o] \in {"reward", "stolen", "mailCoins", "mailSeeds", "mailCrops"}
      BY <1>2, <1>4, <2>3, Rows DEF Accepts
    <2> QED BY <1>2, <2>1, <2>2, <2>3, Rows DEF KeepsKey, Kinds
  <1>7. coins' = CoinsAfter(tx[s]) /\ seeds' = seeds + SeedDelta(o) /\ crops' = crops + CropDelta(o)
    BY DEF Commit
  <1>8. CoinsAfter(tx[s]) = coins + CoinDelta(o)
    BY <1>2, <1>4, Rows DEF CoinsAfter
  <1>9. /\ CoinDelta(o) # 0 => coins + CoinDelta(o) >= 0
        /\ SeedDelta(o) # 0 => seeds + SeedDelta(o) >= 0
        /\ CropDelta(o) # 0 => crops + CropDelta(o) >= 0
    BY <1>2, <1>4, ChangesWhatItLocks DEF Accepts
  <1>10. CoinDelta(o) \in Int /\ SeedDelta(o) \in Int /\ CropDelta(o) \in Int
    BY <1>2, Deltas
  <1> QED BY <1>1, <1>2, <1>3, <1>5, <1>6, <1>7, <1>8, <1>9, <1>10

LEMMA EffectCommitted ==
    ASSUME IInv, NEW s \in Slot, Commit(s),
           ~ (KeepsKey(tx[s].op) /\ times[tx[s].op] > 0)
    PROVE  IInv'
  <1> DEFINE o == tx[s].op
  <1>1. /\ o \in Op /\ times[o] = 0 /\ Held(s) = {Row(o, 1), Row(o, 2)}
        /\ Kind[o] = "pet" => ~ HasPet
        /\ coins' = coins + CoinDelta(o) /\ coins' \in Nat
        /\ seeds' = seeds + SeedDelta(o) /\ seeds' \in Nat
        /\ crops' = crops + CropDelta(o) /\ crops' \in Nat
    BY CommitMoves
  <1>2. /\ times' = [times EXCEPT ![o] = @ + 1] /\ tx' = [tx EXCEPT ![s] = Free]
        /\ planted' = IF Kind[o] \in {"plant", "harvest"} THEN ~ planted ELSE planted
    BY DEF Commit
  <1>3. tx \in [Slot -> TxType] /\ times \in [Op -> Nat] /\ planted \in BOOLEAN
        /\ {coins, seeds, crops} \subseteq Nat
    BY DEF IInv, TypeOK, TxType
  <1>4. Free \in TxType /\ Free.locks = 0 /\ Free.step = "free"
    BY AssetAssumption DEF Free, TxType
  <1>5. tx' \in [Slot -> TxType] /\ tx'[s] = Free /\ \A t \in Slot \ {s} : tx'[t] = tx[t]
    BY <1>2, <1>3, <1>4
  <1>6. times' \in [Op -> Nat] /\ times'[o] = 1 /\ \A p \in Op \ {o} : times'[p] = times[p]
    BY <1>1, <1>2, <1>3
  <1>7. TypeOK'
    BY <1>1, <1>2, <1>3, <1>5, <1>6 DEF TypeOK, TxType
  <1>8. \A t \in Slot : Shaped(tx[t])'
    BY <1>4, <1>5 DEF IInv, Shaped
  <1>9. Held(s)' = {} /\ \A t \in Slot \ {s} : Held(t)' = Held(t)
    BY <1>4, <1>5 DEF Held
  <1>10. LocksExclusive'
    BY <1>9 DEF IInv, LocksExclusive
  <1>11. TakesEffectOnce'
    BY <1>1, <1>3, <1>6 DEF IInv, TakesEffectOnce, HasPet
  <1>12. ChecksStand'
    <2> SUFFICES ASSUME NEW t \in Slot, NEW m \in (1..tx[t].locks)'
                 PROVE  (/\ Accepts(tx[t].op, m)
                         /\ Row(tx[t].op, m) = "wallet" => tx[t].balance = coins)'
      BY DEF ChecksStand
    <2> DEFINE p == tx[t].op
    <2>1. t # s /\ tx'[t] = tx[t]
      BY <1>4, <1>5
    <2>2. m \in 1..tx[t].locks /\ m \in {1, 2} /\ p \in Op
      BY <1>3, <2>1 DEF IInv, Shaped, TxType
    <2>3. Accepts(p, m) /\ (Row(p, m) = "wallet" => tx[t].balance = coins)
      BY <2>2 DEF IInv, ChecksStand
    <2>4. Row(p, m) \notin {Row(o, 1), Row(o, 2)}
      <3>1. Row(p, m) \in Held(t)
        BY <2>2 DEF Held
      <3> QED BY <1>1, <2>1, <3>1 DEF IInv, LocksExclusive
    <2>5. Row(p, m) = "wallet" => coins' = coins
      BY <1>1, <1>3, <2>4, ChangesWhatItLocks
    <2>6. Row(p, m) = "seeds" => seeds' = seeds
      BY <1>1, <1>3, <2>4, ChangesWhatItLocks
    <2>7. Row(p, m) = "crops" => crops' = crops
      BY <1>1, <1>3, <2>4, ChangesWhatItLocks
    <2>8. Row(p, m) = "farm" => planted' = planted /\ HasPet' = HasPet
      <3> SUFFICES ASSUME Row(p, m) = "farm" PROVE planted' = planted /\ HasPet' = HasPet
        OBVIOUS
      <3>1. Kind[o] \notin {"plant", "harvest", "pet"}
        BY <1>1, <2>4, Rows
      <3> QED BY <1>2, <1>6, <3>1 DEF HasPet
    <2>9. Row(p, m) = p => times'[p] = times[p]
      <3>1. Row(p, m) = p => p = Row(p, 1)
        BY <2>2, Rows
      <3> QED BY <1>6, <2>2, <2>4, <3>1
    <2>10. Accepts(tx[t].op, m)'
      BY <2>1, <2>3, <2>5, <2>6, <2>7, <2>8, <2>9
      DEF Accepts, CoinDelta, SeedDelta, CropDelta, Row
    <2> QED BY <2>1, <2>3, <2>5, <2>10 DEF Row
  <1> QED BY <1>7, <1>8, <1>10, <1>11, <1>12 DEF IInv

-----------------------------------------------------------------------------
(* The theorems.                                                           *)

LEMMA StartsWell ==
    ASSUME Init PROVE IInv
  <1>1. TypeOK
    <2>1. Free \in TxType /\ StartCoins \in Nat /\ StartSeeds \in Nat
      BY AssetAssumption DEF Free, TxType
    <2>2. tx \in [Slot -> TxType]
      BY <2>1 DEF Init
    <2>3. planted \in BOOLEAN
      BY DEF Init
    <2>4. {coins, seeds, crops} \subseteq Nat /\ times \in [Op -> Nat]
      BY <2>1 DEF Init
    <2> QED BY <2>2, <2>3, <2>4 DEF TypeOK, TxType
  <1>2. \A s \in Slot : Shaped(tx[s]) /\ tx[s].locks = 0
    BY DEF Init, Free, Shaped
  <1> QED BY <1>1, <1>2 DEF Init, IInv, LocksExclusive, Held, ChecksStand, TakesEffectOnce

THEOREM Invariance == Spec => []IInv
  <1>1. Init => IInv
    BY StartsWell
  <1>2. IInv /\ [Next]_vars => IInv'
    <2> SUFFICES ASSUME IInv, [Next]_vars PROVE IInv'
      OBVIOUS
    <2>1. CASE UNCHANGED vars
      <3> USE <2>1 DEF vars
      <3>1. TypeOK' /\ TakesEffectOnce' /\ \A s \in Slot : Shaped(tx[s])'
        BY DEF IInv, TypeOK, TakesEffectOnce, Shaped
      <3>2. \A s \in Slot : Held(s)' = Held(s)
        BY DEF Held, Row
      <3>3. LocksExclusive'
        BY <3>2 DEF IInv, LocksExclusive
      <3>4. \A o, n : Accepts(o, n)' = Accepts(o, n)
        BY DEF Accepts, HasPet, CoinDelta, SeedDelta, CropDelta, Row
      <3>5. ChecksStand'
        BY <3>4 DEF IInv, ChecksStand, Row
      <3> QED BY <3>1, <3>3, <3>5 DEF IInv
    <2>2. ASSUME NEW s \in Slot,
                 Begin(s) \/ CheckKey(s) \/ Acquire(s) \/ Commit(s)
                 \/ TransientError(s) \/ Abort(s)
          PROVE  IInv'
      <3>1. tx[s] \in TxType /\ Shaped(tx[s])
        BY DEF IInv, TypeOK, TxType
      <3>2. Free \in TxType /\ Shaped(Free) /\ Free.locks = 0
        BY AssetAssumption DEF Free, TxType, Shaped
      <3>3. \A o \in Op, n \in 1..MaxAttempts :
              Attempt(o, n) \in TxType /\ Shaped(Attempt(o, n)) /\ Attempt(o, n).locks = 0
        BY DEF Attempt, TxType, Shaped
      <3>4. tx[s].step = "run" =>
              /\ RolledBack(tx[s]) \in TxType
              /\ Shaped(RolledBack(tx[s])) /\ RolledBack(tx[s]).locks = 0
        <4> HAVE tx[s].step = "run"
        <4>1. tx[s].op \in Op /\ tx[s].try \in 1..MaxAttempts
          BY <3>1 DEF Shaped, TxType
        <4>2. tx[s].try < MaxAttempts => tx[s].try + 1 \in 1..MaxAttempts
          BY <4>1, AssetAssumption
        <4> QED BY <3>2, <3>3, <4>1, <4>2 DEF RolledBack
      <3>5. CASE Begin(s)
        <4>1. PICK o \in Op : tx' = [tx EXCEPT ![s] = Attempt(o, 1)]
          BY <3>5 DEF Begin
        <4>2. 1 \in 1..MaxAttempts
          BY AssetAssumption
        <4> QED BY <3>3, <3>5, <4>1, <4>2, LocksGivenBack DEF Begin
      <3>6. CASE CheckKey(s)
        <4> DEFINE q == [tx[s] EXCEPT !.step = "run"]
        <4>1. q \in TxType /\ Shaped(q) /\ q.locks = 0
          BY <3>1, <3>6 DEF CheckKey, Shaped, TxType
        <4>2. tx' = [tx EXCEPT ![s] = IF times[tx[s].op] > 0 THEN Free ELSE q]
          BY <3>6, Zenon DEF CheckKey
        <4> HIDE DEF q
        <4> QED BY <3>2, <3>6, <4>1, <4>2, LocksGivenBack DEF CheckKey
      <3>7. CASE Acquire(s) /\ Accepts(tx[s].op, tx[s].locks + 1)
        BY <3>7, LockTaken
      <3>8. CASE Acquire(s) /\ ~ Accepts(tx[s].op, tx[s].locks + 1)
        BY <3>2, <3>8, LocksGivenBack DEF Acquire
      <3>9. CASE Commit(s) /\ KeepsKey(tx[s].op) /\ times[tx[s].op] > 0
        BY <3>4, <3>9, LocksGivenBack DEF Commit
      <3>10. CASE Commit(s) /\ ~ (KeepsKey(tx[s].op) /\ times[tx[s].op] > 0)
        BY <3>10, EffectCommitted
      <3>11. CASE TransientError(s)
        BY <3>4, <3>11, LocksGivenBack DEF TransientError
      <3>12. CASE Abort(s)
        BY <3>2, <3>12, LocksGivenBack DEF Abort
      <3> QED BY <2>2, <3>5, <3>6, <3>7, <3>8, <3>9, <3>10, <3>11, <3>12
    <2> QED BY <2>1, <2>2 DEF Next
  <1> QED BY <1>1, <1>2, PTL DEF Spec

\* Types: no balance is ever negative, although purchases, sales and the pet's
\* price are taken from what was read when the row was locked.
THEOREM NeverNegative == Spec => []TypeOK
  BY Invariance, PTL DEF IInv

\* However often and however concurrently it is sent, a request takes effect
\* once, and a player gets one pet.
THEOREM EffectsOnce == Spec => []TakesEffectOnce
  BY Invariance, PTL DEF IInv

\* What a step moves.  A balance changes only as the one request whose effect
\* becomes visible says, by the whole of what it says, whatever was committed
\* since its transaction began; a plot is planted or cleared with it.
MovesItsRequest ==
    \/ UNCHANGED <<coins, seeds, crops, planted, times>>
    \/ \E o \in Op :
          /\ times[o] = 0 /\ times' = [times EXCEPT ![o] = 1]
          /\ coins' = coins + CoinDelta(o)
          /\ seeds' = seeds + SeedDelta(o)
          /\ crops' = crops + CropDelta(o)
          /\ Kind[o] = "plant" => ~ planted /\ planted'
          /\ Kind[o] = "harvest" => planted /\ ~ planted'
          /\ Kind[o] \notin {"plant", "harvest"} => planted' = planted

\* Nothing is lost and nothing appears in a step.
THEOREM NothingLost == Spec => [][MovesItsRequest]_vars
  <1>1. IInv /\ [Next]_vars => [MovesItsRequest]_vars
    <2> SUFFICES ASSUME IInv, Next PROVE MovesItsRequest
      OBVIOUS
    <2>1. CASE \E s \in Slot : Begin(s) \/ CheckKey(s) \/ Acquire(s)
                              \/ TransientError(s) \/ Abort(s)
      BY <2>1 DEF MovesItsRequest, Begin, CheckKey, Acquire, TransientError, Abort
    <2>2. ASSUME NEW s \in Slot, Commit(s) PROVE MovesItsRequest
      <3> DEFINE o == tx[s].op
      <3>1. CASE KeepsKey(o) /\ times[o] > 0
        BY <2>2, <3>1 DEF Commit, MovesItsRequest
      <3>2. CASE ~ (KeepsKey(o) /\ times[o] > 0)
        <4>1. /\ o \in Op /\ times[o] = 0 /\ Held(s) = {Row(o, 1), Row(o, 2)}
              /\ coins' = coins + CoinDelta(o)
              /\ seeds' = seeds + SeedDelta(o)
              /\ crops' = crops + CropDelta(o)
          BY <2>2, <3>2, CommitMoves
        <4>2. times' = [times EXCEPT ![o] = 1]
          BY <2>2, <3>2, <4>1 DEF Commit
        <4>3. planted' = IF Kind[o] \in {"plant", "harvest"} THEN ~ planted ELSE planted
          BY <2>2, <3>2 DEF Commit
        <4>4. Kind[o] \in {"plant", "harvest"} => planted = (Kind[o] = "harvest")
          <5> HAVE Kind[o] \in {"plant", "harvest"}
          <5>1. tx[s] \in TxType
            BY DEF IInv, TypeOK, TxType
          <5>2. 1 \in 1..tx[s].locks
            <6>1. ~ (tx[s].locks < Len(LockOrder[Kind[o]]))
              BY <2>2 DEF Commit, Acquiring
            <6> QED BY <4>1, <5>1, <6>1, LockOrders DEF TxType
          <5>3. Accepts(o, 1) /\ Row(o, 1) = "farm"
            BY <4>1, <5>2, Rows DEF IInv, ChecksStand
          <5> QED BY <5>3 DEF Accepts
        <4>5. planted \in BOOLEAN
          BY DEF IInv, TypeOK
        <4> QED BY <4>1, <4>2, <4>3, <4>4, <4>5 DEF MovesItsRequest
      <3> QED BY <3>1, <3>2
    <2> QED BY <2>1, <2>2 DEF Next
  <1> QED BY <1>1, Invariance, PTL DEF Spec

LEMMA OneMore ==
    ASSUME NEW f \in [Op -> Int], NEW g \in [Op -> Int], NEW o \in Op,
           IsFiniteSet(Units(f)), f[o] = 0, \A p \in Op \ {o} : g[p] = f[p]
    PROVE  /\ IsFiniteSet(Units(g)) /\ Tally(f) \in Nat /\ Tally(g) \in Nat
           /\ Tally(g) = Tally(f) + IF g[o] > 0 THEN g[o] ELSE 0
  <1>1. Tally(g) = Tally(f) - (IF f[o] > 0 THEN f[o] ELSE 0)
                            + (IF g[o] > 0 THEN g[o] ELSE 0)
    BY TallyChange
  <1>2. IsFiniteSet(Units(g)) /\ Tally(g) \in Nat /\ Tally(f) \in Nat
    BY TallyChange
  <1> QED BY <1>1, <1>2

\* One more effect in the sums.
LEMMA BalanceMoves ==
    ASSUME NEW i \in 1..4, NEW o \in Op, times \in [Op -> Nat], times[o] = 0,
           times' = [times EXCEPT ![o] = 1],
           IsFiniteSet(Units(Gained(i))), IsFiniteSet(Units(Lost(i)))
    PROVE  /\ IsFiniteSet(Units(Gained(i)))' /\ IsFiniteSet(Units(Lost(i)))'
           /\ Balance(i) \in Int /\ Balance(i)' = Balance(i) + Effect[Kind[o]][i]
  <1> DEFINE e == Effect[Kind[o]][i]
  <1>1. \A p \in Op : Effect[Kind[p]][i] \in Int
    BY Deltas
  <1>2. /\ Gained(i) \in [Op -> Int] /\ Gained(i)' \in [Op -> Int]
        /\ Gained(i)[o] = 0 /\ Gained(i)'[o] = e
        /\ \A p \in Op \ {o} : Gained(i)'[p] = Gained(i)[p]
    BY <1>1 DEF Gained
  <1>3. /\ Lost(i) \in [Op -> Int] /\ Lost(i)' \in [Op -> Int]
        /\ Lost(i)[o] = 0 /\ Lost(i)'[o] = - e
        /\ \A p \in Op \ {o} : Lost(i)'[p] = Lost(i)[p]
    BY <1>1 DEF Lost
  <1> HIDE DEF e
  <1>4. /\ IsFiniteSet(Units(Gained(i)'))
        /\ Tally(Gained(i)) \in Nat /\ Tally(Gained(i)') \in Nat
        /\ Tally(Gained(i)') = Tally(Gained(i)) + IF e > 0 THEN e ELSE 0
    BY <1>2, OneMore
  <1>5. /\ IsFiniteSet(Units(Lost(i)'))
        /\ Tally(Lost(i)) \in Nat /\ Tally(Lost(i)') \in Nat
        /\ Tally(Lost(i)') = Tally(Lost(i)) + IF - e > 0 THEN - e ELSE 0
    <2>1. /\ IsFiniteSet(Units(Lost(i)'))
          /\ Tally(Lost(i)) \in Nat /\ Tally(Lost(i)') \in Nat
          /\ Tally(Lost(i)') = Tally(Lost(i)) + IF Lost(i)'[o] > 0 THEN Lost(i)'[o] ELSE 0
      BY <1>3, OneMore
    <2> QED BY <1>3, <2>1
  <1>6. Balance(i)' = Tally(Gained(i)') - Tally(Lost(i)')
    BY DEF Balance, Tally, Units
  <1>7. e \in Int
    BY <1>1 DEF e
  <1>8. Balance(i) \in Int /\ Balance(i)' = Balance(i) + e
    BY <1>4, <1>5, <1>6, <1>7 DEF Balance
  <1> QED BY <1>4, <1>5, <1>8 DEF Units, e

Finite ==
    \A i \in 1..4 : IsFiniteSet(Units(Gained(i))) /\ IsFiniteSet(Units(Lost(i)))

\* Coins, seeds, crops and the plot are what the effects make them.
THEOREM Conserved == Spec => []Accounted
  <1>1. Init => Finite /\ Accounted
    <2> SUFFICES ASSUME Init PROVE Finite /\ Accounted
      OBVIOUS
    <2>1. ASSUME NEW i \in 1..4
          PROVE  /\ IsFiniteSet(Units(Gained(i))) /\ Tally(Gained(i)) = 0
                 /\ IsFiniteSet(Units(Lost(i))) /\ Tally(Lost(i)) = 0
      <3>1. \A o \in Op : times[o] * Effect[Kind[o]][i] = 0
        BY <2>1, Deltas DEF Init
      <3> QED BY <3>1, EmptyTally DEF Gained, Lost
    <2>2. \A i \in 1..4 : Balance(i) = 0
      BY <2>1 DEF Balance
    <2>3. TypeOK
      BY StartsWell DEF IInv
    <2>4. StartCoins \in Nat /\ StartSeeds \in Nat
      BY AssetAssumption
    <2> QED BY <2>1, <2>2, <2>3, <2>4 DEF Init, Finite, Accounted
  <1>2. IInv /\ IInv' /\ [MovesItsRequest]_vars /\ Finite /\ Accounted => (Finite /\ Accounted)'
    <2> SUFFICES ASSUME IInv, IInv', [MovesItsRequest]_vars, Finite, Accounted
                 PROVE  (Finite /\ Accounted)'
      OBVIOUS
    <2>1. CASE UNCHANGED <<coins, seeds, crops, planted, times>>
      <3>1. \A i : Gained(i)' = Gained(i) /\ Lost(i)' = Lost(i) /\ Balance(i)' = Balance(i)
        BY <2>1 DEF Balance, Gained, Lost
      <3> QED BY <2>1, <3>1 DEF Finite, Accounted, IInv
    <2>2. ASSUME NEW o \in Op, times[o] = 0, times' = [times EXCEPT ![o] = 1],
                 coins' = coins + CoinDelta(o), seeds' = seeds + SeedDelta(o),
                 crops' = crops + CropDelta(o),
                 Kind[o] = "plant" => ~ planted /\ planted',
                 Kind[o] = "harvest" => planted /\ ~ planted',
                 Kind[o] \notin {"plant", "harvest"} => planted' = planted
          PROVE  (Finite /\ Accounted)'
      <3>1. \A i \in 1..4 : /\ IsFiniteSet(Units(Gained(i)))' /\ IsFiniteSet(Units(Lost(i)))'
                            /\ Balance(i) \in Int
                            /\ Balance(i)' = Balance(i) + Effect[Kind[o]][i]
        BY <2>2, BalanceMoves DEF IInv, TypeOK, Finite
      <3>2. \A i \in 1..4 : Effect[Kind[o]][i] \in Int
        BY Deltas
      <3>3. /\ CoinDelta(o) = Effect[Kind[o]][1] /\ SeedDelta(o) = Effect[Kind[o]][2]
            /\ CropDelta(o) = Effect[Kind[o]][3]
        BY DEF CoinDelta, SeedDelta, CropDelta
      <3>4. (IF planted' THEN 1 ELSE 0) = (IF planted THEN 1 ELSE 0) + Effect[Kind[o]][4]
        BY <2>2, Deltas
      <3>5. StartCoins \in Nat /\ StartSeeds \in Nat
        BY AssetAssumption
      <3>6. Finite'
        BY <3>1 DEF Finite
      <3>7. /\ coins' = StartCoins + Balance(1)' /\ seeds' = StartSeeds + Balance(2)'
            /\ crops' = Balance(3)'
        BY <2>2, <3>1, <3>2, <3>3, <3>5 DEF Accounted
      <3>8. (IF planted' THEN 1 ELSE 0) = Balance(4)'
        BY <3>1, <3>4 DEF Accounted
      <3> QED BY <3>6, <3>7, <3>8 DEF Accounted, IInv
    <2> QED BY <2>1, <2>2 DEF MovesItsRequest, vars
  <1> QED BY <1>1, <1>2, Invariance, NothingLost, PTL DEF Spec

\* Who waits for a lock that another has, holds one lock and wants a later one,
\* so a chain of waits has three members and no circle closes.
THEOREM NoCircularWait == Spec => []NoDeadlock
  <1>1. IInv => NoDeadlock
    <2> SUFFICES ASSUME IInv, NEW S \in (SUBSET Slot) \ {{}},
                        \A s \in S : Acquiring(s) /\ \E t \in S \ {s} : Wanted(s) \in Held(t)
                 PROVE  FALSE
      BY Zenon DEF NoDeadlock
    <2>1. ASSUME NEW s \in S
          PROVE  tx[s].op \in Op /\ tx[s].locks \in {0, 1}
      <3>1. tx[s] \in TxType /\ Shaped(tx[s]) /\ Acquiring(s)
        BY <2>1 DEF IInv, TypeOK, TxType
      <3>2. tx[s].op \in Op
        BY <3>1 DEF Shaped, Acquiring
      <3>3. tx[s].locks \in 0..2 /\ tx[s].locks < 2
        BY <3>1, <3>2, LockOrders DEF Acquiring, TxType
      <3> QED BY <3>2, <3>3
    <2>2. ASSUME NEW s \in S
          PROVE  \E t \in S : /\ tx[t].locks = 1
                              /\ Wanted(s) = Row(tx[t].op, 1)
      <3>1. PICK t \in S : Wanted(s) \in Held(t)
        BY <2>2
      <3>2. PICK n \in 1..tx[t].locks : Wanted(s) = Row(tx[t].op, n)
        BY <3>1 DEF Held
      <3>3. tx[t].locks \in {0, 1}
        BY <2>1
      <3>4. tx[t].locks = 1 /\ n = 1
        BY <3>2, <3>3
      <3> QED BY <3>2, <3>4
    <2>3. PICK s \in S : TRUE
      OBVIOUS
    <2>4. PICK t \in S : tx[t].locks = 1
      BY <2>2, <2>3
    <2>5. PICK u \in S : tx[u].locks = 1 /\ Row(tx[t].op, 2) = Row(tx[u].op, 1)
      BY <2>2, <2>4 DEF Wanted
    <2>6. PICK v \in S : Row(tx[u].op, 2) = Row(tx[v].op, 1)
      BY <2>2, <2>5 DEF Wanted
    <2>7. Row(tx[u].op, 1) = "wallet" /\ Row(tx[u].op, 2) \in {"seeds", "crops"}
      BY <2>1, <2>5, Rows
    <2> QED BY <2>1, <2>6, <2>7, Rows
  <1> QED BY <1>1, Invariance, PTL

====
