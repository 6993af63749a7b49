------------------------ MODULE MCAssetTransactions ------------------------
(***************************************************************************)
(* AssetTransactions with one request of a kind and two for the pet.  The  *)
(* mail attachment is of seeds: coins go the way of a task reward, crops   *)
(* that of a stolen crop.  Coins are short, so that most requests compete. *)
(* Only the purchase is tried again after a rollback: for the others that  *)
(* is what resending does.                                                 *)
(***************************************************************************)
EXTENDS AssetTransactions, TLC

CONSTANTS buy, sell, plant, harvest, reward, gift, stolen, pet1, pet2, s1, s2, s3

MCOp == {buy, sell, plant, harvest, reward, gift, stolen, pet1, pet2}
MCKind == buy :> "purchase" @@ sell :> "sell" @@ plant :> "plant"
              @@ harvest :> "harvest" @@ reward :> "reward"
              @@ gift :> "mailSeeds" @@ stolen :> "stolen" @@ pet1 :> "pet" @@ pet2 :> "pet"

Retries(t) == t.try > 1 => t.op = buy

MCSpec == Init /\ [][Next /\ \A s \in Slot : Retries(tx'[s])]_vars

Symmetry == Permutations({s1, s2, s3}) \cup Permutations({pet1, pet2})
=============================================================================
