---------------------------- MODULE OpenBaoProofs ----------------------------
(* Theorems about OpenBao, for any attempts, keys and number of shares.      *)
EXTENDS OpenBao, FiniteSetTheorems, TLAPS

USE OpenBaoAssumption DEF OpenBaoAssumption

-----------------------------------------------------------------------------
(* The inductive invariant *)

(* Before it is initialised OpenBao is sealed, and what it is open with can  *)
(* be found again.                                                           *)
OpenIsRecoverable == (keys = Nothing => sealed) /\ UnsealedIsRecoverable

(* Whoever is about to submit shares holds what the secret has.              *)
SubmittersHoldTheSecret == \A p \in InitPods :
    pc[p] \in {"seal", "unseal"} /\ held[p] \in Inits => secret = held[p]

(* Keys that are held or stored have been made: new ones differ from them.   *)
KeysWereMade ==
    /\ secret \in Inits => secret <= used
    /\ \A p \in Pods : held[p] \in Inits => held[p] <= used

(* While OpenBao is sealed, the shares that an attempt has submitted are in. *)
SharesAreIn == \A p \in InitPods :
    /\ pc[p] \in {"new", "status", "init", "lookup", "store", "fetch", "seal"} => share[p] = 1
    /\ pc[p] = "unseal" /\ sealed /\ p \notin unnoticed =>
         \A k \in 1 .. share[p] - 1 : <<held[p], k>> \in progress

(* What an attempt has granted is there, as long as the data is.             *)
Granted == \A p \in AuthPods \ unnoticed :
    /\ pc[p] \in {"config", "kv", "policy", "role", "done"} => held[p] \in Inits
    /\ held[p] = keys =>
         /\ pc[p] \in {"config", "kv", "policy", "role", "done"} => auth = keys
         /\ pc[p] \in {"policy", "role", "done"} => kv
         /\ pc[p] \in {"role", "done"} => policy = auth \/ \E q \in AuthPods : q \in unnoticed
         /\ pc[p] = "done" => role

IInv ==
    /\ TypeOK /\ OpenIsRecoverable /\ SubmittersHoldTheSecret /\ KeysWereMade
    /\ SharesAreIn /\ Granted

-----------------------------------------------------------------------------
(* The steps *)

(* Few enough shares to begin with. *)
LEMMA NoShares == {} \subseteq Shares /\ Cardinality({}) < Threshold
<1>1. Cardinality({}) = 0
  BY FS_EmptySet
<1> QED
  BY <1>1

(* A restart seals OpenBao, and no attempt at work escapes the mark. *)
LEMMA RestartKeeps == ASSUME IInv, Restart PROVE IInv'
<1>1. TypeOK'
  BY NoShares DEF IInv, TypeOK, Pods, Inits, Nothing, Blank, InitSteps, AuthSteps, bao, grants,
    ActivePods, Active, Restart
<1>2. OpenIsRecoverable'
  BY DEF IInv, TypeOK, OpenIsRecoverable, UnsealedIsRecoverable, Inits, Nothing, Pods, bao,
    grants, Goes, Holds, Notices, Misses, Restart, ActivePods, Active
<1>3. SubmittersHoldTheSecret'
  BY DEF IInv, TypeOK, SubmittersHoldTheSecret, Pods, Inits, Nothing, Blank, InitSteps,
    AuthSteps, bao, grants, Goes, Holds, Notices, Misses, Restart, ActivePods, Active
<1>4. KeysWereMade'
  BY DEF IInv, TypeOK, KeysWereMade, Pods, Inits, Nothing, Blank, bao, grants, Goes, Holds,
    Notices, Misses, Restart, ActivePods, Active
<1>5. SharesAreIn'
  BY DEF IInv, TypeOK, SharesAreIn, Pods, Inits, ActivePods, Active, InitSteps, AuthSteps,
    bao, grants, Goes, Holds, Notices, Misses, Restart
<1>6. Granted'
  BY DEF IInv, TypeOK, KeysWereMade, Granted, Pods, Inits, Nothing, Blank, ActivePods,
    Active, InitSteps, AuthSteps, Obeys, bao, grants, Goes, Holds, Notices, Misses, Restart
<1> QED
  BY <1>1, <1>2, <1>3, <1>4, <1>5, <1>6 DEF IInv

(* With the data go the grants and the keys, not the secret. *)
LEMMA LoseDataKeeps == ASSUME IInv, LoseData PROVE IInv'
<1>1. TypeOK'
  <2>1. /\ progress' \subseteq Shares /\ Cardinality(progress') < Threshold
        /\ keys' = 0 /\ auth' = 0 /\ policy' = 0 /\ used' = used /\ used \in 0 .. MaxInits
    BY NoShares DEF LoseData, Nothing, IInv, TypeOK
  <2> QED
    <3>1. keys' <= used' /\ keys' \in Inits \cup {Nothing} /\ auth' \in Inits \cup {Nothing}
      BY <2>1 DEF Nothing
    <3>2. policy' \in Inits \cup {Nothing, Blank} /\ secret' \in Inits \cup {Nothing, Blank}
      BY <2>1 DEF Nothing, LoseData, grants, IInv, TypeOK
    <3>3. unnoticed' \subseteq Pods
      BY DEF LoseData, ActivePods, IInv, TypeOK
    <3> QED
      BY <2>1, <3>1, <3>2, <3>3 DEF IInv, TypeOK, LoseData
<1>2. OpenIsRecoverable'
  BY DEF IInv, TypeOK, OpenIsRecoverable, UnsealedIsRecoverable, Inits, Nothing, Pods, bao,
    grants, Goes, Holds, Notices, Misses, LoseData, ActivePods, Active
<1>3. SubmittersHoldTheSecret'
  BY DEF IInv, TypeOK, SubmittersHoldTheSecret, Pods, Inits, Nothing, Blank, InitSteps,
    AuthSteps, bao, grants, Goes, Holds, Notices, Misses, LoseData, ActivePods, Active
<1>4. KeysWereMade'
  BY DEF IInv, TypeOK, KeysWereMade, Pods, Inits, Nothing, Blank, bao, grants, Goes, Holds,
    Notices, Misses, LoseData, ActivePods, Active
<1>5. SharesAreIn'
  BY DEF IInv, TypeOK, SharesAreIn, Pods, Inits, ActivePods, Active, InitSteps, AuthSteps,
    bao, grants, Goes, Holds, Notices, Misses, LoseData
<1>6. Granted'
  BY DEF IInv, TypeOK, KeysWereMade, Granted, Pods, Inits, Nothing, Blank, ActivePods,
    Active, InitSteps, AuthSteps, Obeys, bao, grants, Goes, Holds, Notices, Misses, LoseData
<1> QED
  BY <1>1, <1>2, <1>3, <1>4, <1>5, <1>6 DEF IInv

(* An attempt that fails leaves everything as it is. *)
LEMMA FailsKeeps == ASSUME IInv, NEW p \in Pods, Fails(p) PROVE IInv'
<1>1. TypeOK'
  BY DEF IInv, TypeOK, Pods, Inits, Nothing, Blank, InitSteps, AuthSteps, bao, grants, Goes,
    Holds, Notices, Misses, Fails, Active
<1>2. OpenIsRecoverable'
  BY DEF IInv, TypeOK, OpenIsRecoverable, UnsealedIsRecoverable, Inits, Nothing, Pods, bao,
    grants, Goes, Holds, Notices, Misses, Fails, Active
<1>3. SubmittersHoldTheSecret'
  BY DEF IInv, TypeOK, SubmittersHoldTheSecret, Pods, Inits, Nothing, Blank, InitSteps,
    AuthSteps, bao, grants, Goes, Holds, Notices, Misses, Fails, Active
<1>4. KeysWereMade'
  BY DEF IInv, TypeOK, KeysWereMade, Pods, Inits, Nothing, Blank, bao, grants, Goes, Holds,
    Notices, Misses, Fails, Active
<1>5. SharesAreIn'
  BY DEF IInv, TypeOK, SharesAreIn, Pods, Inits, ActivePods, Active, InitSteps, AuthSteps,
    bao, grants, Goes, Holds, Notices, Misses, Fails
<1>6. Granted'
  BY DEF IInv, TypeOK, KeysWereMade, Granted, Pods, Inits, Nothing, Blank, ActivePods,
    Active, InitSteps, AuthSteps, Obeys, bao, grants, Goes, Holds, Notices, Misses, Fails
<1> QED
  BY <1>1, <1>2, <1>3, <1>4, <1>5, <1>6 DEF IInv

(* An attempt starts with the first share. *)
LEMMA StartInitKeeps == ASSUME IInv, NEW p \in InitPods, StartInit(p) PROVE IInv'
<1>1. TypeOK'
  BY DEF IInv, TypeOK, Pods, Inits, Nothing, Blank, InitSteps, AuthSteps, bao, grants, Goes,
    Holds, Notices, Misses, StartInit
<1>2. OpenIsRecoverable'
  BY DEF IInv, TypeOK, OpenIsRecoverable, UnsealedIsRecoverable, Inits, Nothing, Pods, bao,
    grants, Goes, Holds, Notices, Misses, StartInit
<1>3. SubmittersHoldTheSecret'
  BY DEF IInv, TypeOK, SubmittersHoldTheSecret, Pods, Inits, Nothing, Blank, InitSteps,
    AuthSteps, bao, grants, Goes, Holds, Notices, Misses, StartInit
<1>4. KeysWereMade'
  BY DEF IInv, TypeOK, KeysWereMade, Pods, Inits, Nothing, Blank, bao, grants, Goes, Holds,
    Notices, Misses, StartInit
<1>5. SharesAreIn'
  BY DEF IInv, TypeOK, SharesAreIn, Pods, Inits, ActivePods, Active, InitSteps, AuthSteps,
    bao, grants, Goes, Holds, Notices, Misses, StartInit
<1>6. Granted'
  BY DEF IInv, TypeOK, KeysWereMade, Granted, Pods, Inits, Nothing, Blank, ActivePods,
    Active, InitSteps, AuthSteps, Obeys, bao, grants, Goes, Holds, Notices, Misses,
    StartInit
<1> QED
  BY <1>1, <1>2, <1>3, <1>4, <1>5, <1>6 DEF IInv

(* Reading the status changes nothing. *)
LEMMA ReadInitializedKeeps == ASSUME IInv, NEW p \in InitPods, ReadInitialized(p) PROVE IInv'
<1>1. TypeOK'
  BY DEF IInv, TypeOK, Pods, Inits, Nothing, Blank, InitSteps, AuthSteps, bao, grants, Goes,
    Holds, Notices, Misses, ReadInitialized
<1>2. OpenIsRecoverable'
  BY DEF IInv, TypeOK, OpenIsRecoverable, UnsealedIsRecoverable, Inits, Nothing, Pods, bao,
    grants, Goes, Holds, Notices, Misses, ReadInitialized
<1>3. SubmittersHoldTheSecret'
  BY DEF IInv, TypeOK, SubmittersHoldTheSecret, Pods, Inits, Nothing, Blank, InitSteps,
    AuthSteps, bao, grants, Goes, Holds, Notices, Misses, ReadInitialized
<1>4. KeysWereMade'
  BY DEF IInv, TypeOK, KeysWereMade, Pods, Inits, Nothing, Blank, bao, grants, Goes, Holds,
    Notices, Misses, ReadInitialized
<1>5. SharesAreIn'
  BY DEF IInv, TypeOK, SharesAreIn, Pods, Inits, ActivePods, Active, InitSteps, AuthSteps,
    bao, grants, Goes, Holds, Notices, Misses, ReadInitialized
<1>6. Granted'
  BY DEF IInv, TypeOK, KeysWereMade, Granted, Pods, Inits, Nothing, Blank, ActivePods,
    Active, InitSteps, AuthSteps, Obeys, bao, grants, Goes, Holds, Notices, Misses,
    ReadInitialized
<1> QED
  BY <1>1, <1>2, <1>3, <1>4, <1>5, <1>6 DEF IInv

(* New keys differ from all that are held or stored. *)
LEMMA OperatorInitKeeps == ASSUME IInv, NEW p \in InitPods, OperatorInit(p) PROVE IInv'
<1>1. TypeOK'
  BY DEF IInv, TypeOK, Pods, Inits, Nothing, Blank, InitSteps, AuthSteps, bao, grants, Goes,
    Holds, Notices, Misses, OperatorInit
<1>2. OpenIsRecoverable'
  BY DEF IInv, TypeOK, OpenIsRecoverable, UnsealedIsRecoverable, Inits, Nothing, Pods, bao,
    grants, Goes, Holds, Notices, Misses, OperatorInit
<1>3. SubmittersHoldTheSecret'
  BY DEF IInv, TypeOK, SubmittersHoldTheSecret, Pods, Inits, Nothing, Blank, InitSteps,
    AuthSteps, bao, grants, Goes, Holds, Notices, Misses, OperatorInit
<1>4. KeysWereMade'
  BY DEF IInv, TypeOK, KeysWereMade, Pods, Inits, Nothing, Blank, bao, grants, Goes, Holds,
    Notices, Misses, OperatorInit
<1>5. SharesAreIn'
  BY DEF IInv, TypeOK, SharesAreIn, Pods, Inits, ActivePods, Active, InitSteps, AuthSteps,
    bao, grants, Goes, Holds, Notices, Misses, OperatorInit
<1>6. Granted'
  BY DEF IInv, TypeOK, KeysWereMade, Granted, Pods, Inits, Nothing, Blank, ActivePods,
    Active, InitSteps, AuthSteps, Obeys, bao, grants, Goes, Holds, Notices, Misses,
    OperatorInit
<1> QED
  BY <1>1, <1>2, <1>3, <1>4, <1>5, <1>6 DEF IInv

(* Looking for the secret changes nothing. *)
LEMMA LookUpKeeps == ASSUME IInv, NEW p \in InitPods, LookUp(p) PROVE IInv'
<1>1. TypeOK'
  BY DEF IInv, TypeOK, Pods, Inits, Nothing, Blank, InitSteps, AuthSteps, bao, grants, Goes,
    Holds, Notices, Misses, LookUp
<1>2. OpenIsRecoverable'
  BY DEF IInv, TypeOK, OpenIsRecoverable, UnsealedIsRecoverable, Inits, Nothing, Pods, bao,
    grants, Goes, Holds, Notices, Misses, LookUp
<1>3. SubmittersHoldTheSecret'
  BY DEF IInv, TypeOK, SubmittersHoldTheSecret, Pods, Inits, Nothing, Blank, InitSteps,
    AuthSteps, bao, grants, Goes, Holds, Notices, Misses, LookUp
<1>4. KeysWereMade'
  BY DEF IInv, TypeOK, KeysWereMade, Pods, Inits, Nothing, Blank, bao, grants, Goes, Holds,
    Notices, Misses, LookUp
<1>5. SharesAreIn'
  BY DEF IInv, TypeOK, SharesAreIn, Pods, Inits, ActivePods, Active, InitSteps, AuthSteps,
    bao, grants, Goes, Holds, Notices, Misses, LookUp
<1>6. Granted'
  BY DEF IInv, TypeOK, KeysWereMade, Granted, Pods, Inits, Nothing, Blank, ActivePods,
    Active, InitSteps, AuthSteps, Obeys, bao, grants, Goes, Holds, Notices, Misses, LookUp
<1> QED
  BY <1>1, <1>2, <1>3, <1>4, <1>5, <1>6 DEF IInv

(* The secret is created with what its creator holds. *)
LEMMA StoreKeeps == ASSUME IInv, NEW p \in InitPods, Store(p) PROVE IInv'
<1>1. TypeOK'
  BY DEF IInv, TypeOK, Pods, Inits, Nothing, Blank, InitSteps, AuthSteps, bao, grants, Goes,
    Holds, Notices, Misses, Store
<1>2. OpenIsRecoverable'
  BY DEF IInv, TypeOK, OpenIsRecoverable, UnsealedIsRecoverable, Inits, Nothing, Pods, bao,
    grants, Goes, Holds, Notices, Misses, Store
<1>3. SubmittersHoldTheSecret'
  BY DEF IInv, TypeOK, SubmittersHoldTheSecret, Pods, Inits, Nothing, Blank, InitSteps,
    AuthSteps, bao, grants, Goes, Holds, Notices, Misses, Store
<1>4. KeysWereMade'
  BY DEF IInv, TypeOK, KeysWereMade, Pods, Inits, Nothing, Blank, bao, grants, Goes, Holds,
    Notices, Misses, Store
<1>5. SharesAreIn'
  BY DEF IInv, TypeOK, SharesAreIn, Pods, Inits, ActivePods, Active, InitSteps, AuthSteps,
    bao, grants, Goes, Holds, Notices, Misses, Store
<1>6. Granted'
  BY DEF IInv, TypeOK, KeysWereMade, Granted, Pods, Inits, Nothing, Blank, ActivePods,
    Active, InitSteps, AuthSteps, Obeys, bao, grants, Goes, Holds, Notices, Misses, Store
<1> QED
  BY <1>1, <1>2, <1>3, <1>4, <1>5, <1>6 DEF IInv

(* What is fetched is the secret, or nothing. *)
LEMMA FetchKeeps == ASSUME IInv, NEW p \in InitPods, Fetch(p) PROVE IInv'
<1>1. TypeOK'
  BY DEF IInv, TypeOK, Pods, Inits, Nothing, Blank, InitSteps, AuthSteps, bao, grants, Goes,
    Holds, Notices, Misses, Fetch
<1>2. OpenIsRecoverable'
  BY DEF IInv, TypeOK, OpenIsRecoverable, UnsealedIsRecoverable, Inits, Nothing, Pods, bao,
    grants, Goes, Holds, Notices, Misses, Fetch
<1>3. SubmittersHoldTheSecret'
  BY DEF IInv, TypeOK, SubmittersHoldTheSecret, Pods, Inits, Nothing, Blank, InitSteps,
    AuthSteps, bao, grants, Goes, Holds, Notices, Misses, Fetch
<1>4. KeysWereMade'
  BY DEF IInv, TypeOK, KeysWereMade, Pods, Inits, Nothing, Blank, bao, grants, Goes, Holds,
    Notices, Misses, Fetch
<1>5. SharesAreIn'
  BY DEF IInv, TypeOK, SharesAreIn, Pods, Inits, ActivePods, Active, InitSteps, AuthSteps,
    bao, grants, Goes, Holds, Notices, Misses, Fetch
<1>6. Granted'
  BY DEF IInv, TypeOK, KeysWereMade, Granted, Pods, Inits, Nothing, Blank, ActivePods,
    Active, InitSteps, AuthSteps, Obeys, bao, grants, Goes, Holds, Notices, Misses, Fetch
<1> QED
  BY <1>1, <1>2, <1>3, <1>4, <1>5, <1>6 DEF IInv

(* The loop over the shares starts with none submitted. *)
LEMMA ReadSealedKeeps == ASSUME IInv, NEW p \in InitPods, ReadSealed(p) PROVE IInv'
<1>1. TypeOK'
  BY DEF IInv, TypeOK, Pods, Inits, Nothing, Blank, InitSteps, AuthSteps, bao, grants, Goes,
    Holds, Notices, Misses, ReadSealed
<1>2. OpenIsRecoverable'
  BY DEF IInv, TypeOK, OpenIsRecoverable, UnsealedIsRecoverable, Inits, Nothing, Pods, bao,
    grants, Goes, Holds, Notices, Misses, ReadSealed
<1>3. SubmittersHoldTheSecret'
  BY DEF IInv, TypeOK, SubmittersHoldTheSecret, Pods, Inits, Nothing, Blank, InitSteps,
    AuthSteps, bao, grants, Goes, Holds, Notices, Misses, ReadSealed
<1>4. KeysWereMade'
  BY DEF IInv, TypeOK, KeysWereMade, Pods, Inits, Nothing, Blank, bao, grants, Goes, Holds,
    Notices, Misses, ReadSealed
<1>5. SharesAreIn'
  BY DEF IInv, TypeOK, SharesAreIn, Pods, Inits, ActivePods, Active, InitSteps, AuthSteps,
    bao, grants, Goes, Holds, Notices, Misses, ReadSealed
<1>6. Granted'
  BY DEF IInv, TypeOK, KeysWereMade, Granted, Pods, Inits, Nothing, Blank, ActivePods,
    Active, InitSteps, AuthSteps, Obeys, bao, grants, Goes, Holds, Notices, Misses,
    ReadSealed
<1> QED
  BY <1>1, <1>2, <1>3, <1>4, <1>5, <1>6 DEF IInv

(* What remains of a set of shares of which only some are submitted is small, *)
(* and Threshold shares of one key are never too few.                        *)
LEMMA SharesCount ==
    ASSUME NEW all \in SUBSET Shares, NEW key \in Inits, {key} \X (1 .. Threshold) \subseteq all
    PROVE  ~(Cardinality(all) < Threshold)
<1>1. IsFiniteSet(1 .. Threshold) /\ Cardinality(1 .. Threshold) = Threshold
  BY FS_Interval
<1>2. IsFiniteSet(Inits)
  BY FS_Interval DEF Inits
<1>3. IsFiniteSet(all)
  BY <1>1, <1>2, FS_Product, FS_Subset DEF Shares
<1>4. IsFiniteSet({key}) /\ Cardinality({key}) = 1
  BY FS_Singleton
<1>5. Cardinality({key} \X (1 .. Threshold)) = Threshold
  <2>1. Cardinality({key} \X (1 .. Threshold)) = Cardinality({key}) * Cardinality(1 .. Threshold)
    BY <1>1, <1>4, FS_Product
  <2> QED
    BY <1>1, <1>4, <2>1
<1>6. Cardinality(all) \in Nat
  BY <1>3, FS_CardinalityType
<1> QED
  BY <1>3, <1>5, <1>6, FS_Subset

(* A set of shares that is no longer small has just the size it needs. *)
LEMMA OneMoreShare ==
    ASSUME TypeOK, NEW x, ~(Cardinality(progress \cup {x}) < Threshold)
    PROVE  Cardinality(progress \cup {x}) = Threshold
<1>1. IsFiniteSet(Shares)
  <2>1. IsFiniteSet(1 .. Threshold) /\ IsFiniteSet(Inits)
    BY FS_Interval DEF Inits
  <2> QED
    BY <2>1, FS_Product DEF Shares
<1>2. IsFiniteSet(progress) /\ Cardinality(progress) \in Nat /\ Cardinality(progress) < Threshold
  BY <1>1, FS_Subset, FS_CardinalityType DEF TypeOK
<1> QED
  BY <1>2, FS_AddElement

(* The set that opens OpenBao is of the keys in the secret, and a share that *)
(* neither opens nor completes a set is in it.                               *)
LEMMA UnsealKeeps == ASSUME IInv, NEW p \in InitPods, Unseal(p) PROVE IInv'
<1> DEFINE all == progress \cup {<<held[p], share[p]>>}
           opens == \A s \in all : s[1] = keys
<1>1. /\ pc[p] = "unseal" /\ held[p] \in Inits /\ keys # Nothing
      /\ share[p] \in 1 .. Threshold /\ secret = held[p]
  BY DEF IInv, TypeOK, SubmittersHoldTheSecret, Unseal, Submit
<1>2. \/ ~sealed /\ UNCHANGED <<sealed, progress>>
      \/ sealed /\ Cardinality(all) < Threshold /\ progress' = all /\ UNCHANGED sealed
      \/ /\ sealed /\ ~(Cardinality(all) < Threshold) /\ Cardinality(all) = Threshold
         /\ progress' = {} /\ sealed' = ~opens
  BY OneMoreShare DEF IInv, Unseal, Submit
<1>3. opens => keys = held[p]
  <2>1. <<held[p], share[p]>> \in all
    OBVIOUS
  <2> QED
    BY <2>1
<1>4. /\ \/ pc' = [pc EXCEPT ![p] = "failed"] /\ unnoticed' = unnoticed \cup ActivePods
         \/ pc' = [pc EXCEPT ![p] = "unseal"] /\ share[p] < Threshold /\ UNCHANGED unnoticed
         \/ pc' = [pc EXCEPT ![p] = "done"] /\ UNCHANGED unnoticed
      /\ share' = IF pc'[p] = "unseal" THEN [share EXCEPT ![p] = @ + 1] ELSE share
      /\ pc'[p] = "failed" <=> sealed /\ Cardinality(all) = Threshold /\ ~opens
  BY DEF IInv, TypeOK, Unseal, Submit, Goes, Pods
<1>5. UNCHANGED <<keys, used, grants, secret, held>>
  BY DEF Unseal
<1>6. TypeOK'
  <2>1. progress' \subseteq Shares /\ Cardinality(progress') < Threshold /\ sealed' \in BOOLEAN
    <3>1. <<held[p], share[p]>> \in Shares
      BY <1>1 DEF Shares
    <3> QED
      BY <1>2, <3>1, NoShares DEF IInv, TypeOK
  <2>2. share' \in [InitPods -> 1 .. Threshold]
    BY <1>1, <1>4 DEF IInv, TypeOK, Pods
  <2> QED
    BY <1>1, <1>4, <1>5, <2>1, <2>2
      DEF IInv, TypeOK, Pods, InitSteps, AuthSteps, grants, ActivePods, Active
<1>7. OpenIsRecoverable'
  BY <1>1, <1>2, <1>3, <1>5 DEF IInv, TypeOK, OpenIsRecoverable, UnsealedIsRecoverable
<1>8. SubmittersHoldTheSecret'
  BY <1>1, <1>4, <1>5 DEF IInv, TypeOK, SubmittersHoldTheSecret, Pods
<1>9. KeysWereMade'
  BY <1>5 DEF IInv, KeysWereMade
<1>10. SharesAreIn'
  <2> SUFFICES ASSUME NEW q \in InitPods
               PROVE  /\ pc'[q] \in {"new", "status", "init", "lookup", "store", "fetch", "seal"} => share'[q] = 1
                      /\ pc'[q] = "unseal" /\ sealed' /\ q \notin unnoticed' =>
                           \A k \in 1 .. share'[q] - 1 : <<held'[q], k>> \in progress'
    BY DEF SharesAreIn
  <2>1. pc'[q] \in {"new", "status", "init", "lookup", "store", "fetch", "seal"} => share'[q] = 1
    BY <1>1, <1>4 DEF IInv, TypeOK, SharesAreIn, Pods
  <2>2. ASSUME pc'[q] = "unseal", sealed', q \notin unnoticed', NEW k \in 1 .. share'[q] - 1
        PROVE  <<held'[q], k>> \in progress'
    <3>1. pc[q] = "unseal" /\ q \notin unnoticed
      BY <1>1, <1>4, <2>2 DEF IInv, TypeOK, Pods
    <3>2. q \in ActivePods
      BY <3>1 DEF ActivePods, Active, Pods, InitSteps
    <3>3. sealed /\ progress' = all
      <4>1. pc'[p] # "failed"
        BY <1>4, <2>2, <3>2 DEF IInv, TypeOK, Pods
      <4>2. ~(sealed /\ Cardinality(all) = Threshold /\ ~opens)
        BY <1>4, <4>1
      <4> QED
        BY <1>2, <2>2, <4>2
    <3>4. k \in 1 .. share[q] - 1 \/ (q = p /\ k = share[p])
      BY <1>1, <1>4, <2>2 DEF IInv, TypeOK
    <3> QED
      BY <1>5, <3>1, <3>3, <3>4 DEF IInv, SharesAreIn
  <2> QED
    BY <2>1, <2>2
<1>11. Granted'
  BY <1>1, <1>4, <1>5 DEF IInv, TypeOK, Granted, Pods, grants, InitSteps, AuthSteps
<1> QED
  BY <1>6, <1>7, <1>8, <1>9, <1>10, <1>11 DEF IInv

(* A provisioning attempt starts with nothing granted. *)
LEMMA StartAuthKeeps == ASSUME IInv, NEW p \in AuthPods, StartAuth(p) PROVE IInv'
<1>1. TypeOK'
  BY DEF IInv, TypeOK, Pods, Inits, Nothing, Blank, InitSteps, AuthSteps, bao, grants, Goes,
    Holds, Notices, Misses, StartAuth
<1>2. OpenIsRecoverable'
  BY DEF IInv, TypeOK, OpenIsRecoverable, UnsealedIsRecoverable, Inits, Nothing, Pods, bao,
    grants, Goes, Holds, Notices, Misses, StartAuth
<1>3. SubmittersHoldTheSecret'
  BY DEF IInv, TypeOK, SubmittersHoldTheSecret, Pods, Inits, Nothing, Blank, InitSteps,
    AuthSteps, bao, grants, Goes, Holds, Notices, Misses, StartAuth
<1>4. KeysWereMade'
  BY DEF IInv, TypeOK, KeysWereMade, Pods, Inits, Nothing, Blank, bao, grants, Goes, Holds,
    Notices, Misses, StartAuth
<1>5. SharesAreIn'
  BY DEF IInv, TypeOK, SharesAreIn, Pods, Inits, ActivePods, Active, InitSteps, AuthSteps,
    bao, grants, Goes, Holds, Notices, Misses, StartAuth
<1>6. Granted'
  BY DEF IInv, TypeOK, KeysWereMade, Granted, Pods, Inits, Nothing, Blank, ActivePods,
    Active, InitSteps, AuthSteps, Obeys, bao, grants, Goes, Holds, Notices, Misses,
    StartAuth
<1> QED
  BY <1>1, <1>2, <1>3, <1>4, <1>5, <1>6 DEF IInv

(* Waiting changes nothing. *)
LEMMA SeesUnsealedKeeps == ASSUME IInv, NEW p \in AuthPods, SeesUnsealed(p) PROVE IInv'
<1>1. TypeOK'
  BY DEF IInv, TypeOK, Pods, Inits, Nothing, Blank, InitSteps, AuthSteps, bao, grants, Goes,
    Holds, Notices, Misses, SeesUnsealed
<1>2. OpenIsRecoverable'
  BY DEF IInv, TypeOK, OpenIsRecoverable, UnsealedIsRecoverable, Inits, Nothing, Pods, bao,
    grants, Goes, Holds, Notices, Misses, SeesUnsealed
<1>3. SubmittersHoldTheSecret'
  BY DEF IInv, TypeOK, SubmittersHoldTheSecret, Pods, Inits, Nothing, Blank, InitSteps,
    AuthSteps, bao, grants, Goes, Holds, Notices, Misses, SeesUnsealed
<1>4. KeysWereMade'
  BY DEF IInv, TypeOK, KeysWereMade, Pods, Inits, Nothing, Blank, bao, grants, Goes, Holds,
    Notices, Misses, SeesUnsealed
<1>5. SharesAreIn'
  BY DEF IInv, TypeOK, SharesAreIn, Pods, Inits, ActivePods, Active, InitSteps, AuthSteps,
    bao, grants, Goes, Holds, Notices, Misses, SeesUnsealed
<1>6. Granted'
  BY DEF IInv, TypeOK, KeysWereMade, Granted, Pods, Inits, Nothing, Blank, ActivePods,
    Active, InitSteps, AuthSteps, Obeys, bao, grants, Goes, Holds, Notices, Misses,
    SeesUnsealed
<1> QED
  BY <1>1, <1>2, <1>3, <1>4, <1>5, <1>6 DEF IInv

(* A token is held before anything is granted. *)
LEMMA FetchTokenKeeps == ASSUME IInv, NEW p \in AuthPods, FetchToken(p) PROVE IInv'
<1>1. TypeOK'
  BY DEF IInv, TypeOK, Pods, Inits, Nothing, Blank, InitSteps, AuthSteps, bao, grants, Goes,
    Holds, Notices, Misses, FetchToken
<1>2. OpenIsRecoverable'
  BY DEF IInv, TypeOK, OpenIsRecoverable, UnsealedIsRecoverable, Inits, Nothing, Pods, bao,
    grants, Goes, Holds, Notices, Misses, FetchToken
<1>3. SubmittersHoldTheSecret'
  BY DEF IInv, TypeOK, SubmittersHoldTheSecret, Pods, Inits, Nothing, Blank, InitSteps,
    AuthSteps, bao, grants, Goes, Holds, Notices, Misses, FetchToken
<1>4. KeysWereMade'
  BY DEF IInv, TypeOK, KeysWereMade, Pods, Inits, Nothing, Blank, bao, grants, Goes, Holds,
    Notices, Misses, FetchToken
<1>5. SharesAreIn'
  BY DEF IInv, TypeOK, SharesAreIn, Pods, Inits, ActivePods, Active, InitSteps, AuthSteps,
    bao, grants, Goes, Holds, Notices, Misses, FetchToken
<1>6. Granted'
  BY DEF IInv, TypeOK, KeysWereMade, Granted, Pods, Inits, Nothing, Blank, ActivePods,
    Active, InitSteps, AuthSteps, Obeys, bao, grants, Goes, Holds, Notices, Misses,
    FetchToken
<1> QED
  BY <1>1, <1>2, <1>3, <1>4, <1>5, <1>6 DEF IInv

(* The mount is that of the keys whose token enabled it. *)
LEMMA EnableAuthKeeps == ASSUME IInv, NEW p \in AuthPods, EnableAuth(p) PROVE IInv'
<1>1. TypeOK'
  BY DEF IInv, TypeOK, Pods, Inits, Nothing, Blank, InitSteps, AuthSteps, bao, grants, Goes,
    Holds, Notices, Misses, EnableAuth, Obeys
<1>2. OpenIsRecoverable'
  BY DEF IInv, TypeOK, OpenIsRecoverable, UnsealedIsRecoverable, Inits, Nothing, Pods, bao,
    grants, Goes, Holds, Notices, Misses, EnableAuth, Obeys
<1>3. SubmittersHoldTheSecret'
  BY DEF IInv, TypeOK, SubmittersHoldTheSecret, Pods, Inits, Nothing, Blank, InitSteps,
    AuthSteps, bao, grants, Goes, Holds, Notices, Misses, EnableAuth, Obeys
<1>4. KeysWereMade'
  BY DEF IInv, TypeOK, KeysWereMade, Pods, Inits, Nothing, Blank, bao, grants, Goes, Holds,
    Notices, Misses, EnableAuth, Obeys
<1>5. SharesAreIn'
  BY DEF IInv, TypeOK, SharesAreIn, Pods, Inits, ActivePods, Active, InitSteps, AuthSteps,
    bao, grants, Goes, Holds, Notices, Misses, EnableAuth, Obeys
<1>6. Granted'
  BY DEF IInv, TypeOK, KeysWereMade, Granted, Pods, Inits, Nothing, Blank, ActivePods,
    Active, InitSteps, AuthSteps, Obeys, bao, grants, Goes, Holds, Notices, Misses,
    EnableAuth
<1> QED
  BY <1>1, <1>2, <1>3, <1>4, <1>5, <1>6 DEF IInv

(* Only a token of OpenBao's keys goes on. *)
LEMMA WriteConfigKeeps == ASSUME IInv, NEW p \in AuthPods, WriteConfig(p) PROVE IInv'
<1>1. TypeOK'
  BY DEF IInv, TypeOK, Pods, Inits, Nothing, Blank, InitSteps, AuthSteps, bao, grants, Goes,
    Holds, Notices, Misses, WriteConfig, Obeys
<1>2. OpenIsRecoverable'
  BY DEF IInv, TypeOK, OpenIsRecoverable, UnsealedIsRecoverable, Inits, Nothing, Pods, bao,
    grants, Goes, Holds, Notices, Misses, WriteConfig, Obeys
<1>3. SubmittersHoldTheSecret'
  BY DEF IInv, TypeOK, SubmittersHoldTheSecret, Pods, Inits, Nothing, Blank, InitSteps,
    AuthSteps, bao, grants, Goes, Holds, Notices, Misses, WriteConfig, Obeys
<1>4. KeysWereMade'
  BY DEF IInv, TypeOK, KeysWereMade, Pods, Inits, Nothing, Blank, bao, grants, Goes, Holds,
    Notices, Misses, WriteConfig, Obeys
<1>5. SharesAreIn'
  BY DEF IInv, TypeOK, SharesAreIn, Pods, Inits, ActivePods, Active, InitSteps, AuthSteps,
    bao, grants, Goes, Holds, Notices, Misses, WriteConfig, Obeys
<1>6. Granted'
  BY DEF IInv, TypeOK, KeysWereMade, Granted, Pods, Inits, Nothing, Blank, ActivePods,
    Active, InitSteps, AuthSteps, Obeys, bao, grants, Goes, Holds, Notices, Misses,
    WriteConfig
<1> QED
  BY <1>1, <1>2, <1>3, <1>4, <1>5, <1>6 DEF IInv

(* The mount of secrets stays. *)
LEMMA EnableKvKeeps == ASSUME IInv, NEW p \in AuthPods, EnableKv(p) PROVE IInv'
<1>1. TypeOK'
  BY DEF IInv, TypeOK, Pods, Inits, Nothing, Blank, InitSteps, AuthSteps, bao, grants, Goes,
    Holds, Notices, Misses, EnableKv, Obeys
<1>2. OpenIsRecoverable'
  BY DEF IInv, TypeOK, OpenIsRecoverable, UnsealedIsRecoverable, Inits, Nothing, Pods, bao,
    grants, Goes, Holds, Notices, Misses, EnableKv, Obeys
<1>3. SubmittersHoldTheSecret'
  BY DEF IInv, TypeOK, SubmittersHoldTheSecret, Pods, Inits, Nothing, Blank, InitSteps,
    AuthSteps, bao, grants, Goes, Holds, Notices, Misses, EnableKv, Obeys
<1>4. KeysWereMade'
  BY DEF IInv, TypeOK, KeysWereMade, Pods, Inits, Nothing, Blank, bao, grants, Goes, Holds,
    Notices, Misses, EnableKv, Obeys
<1>5. SharesAreIn'
  BY DEF IInv, TypeOK, SharesAreIn, Pods, Inits, ActivePods, Active, InitSteps, AuthSteps,
    bao, grants, Goes, Holds, Notices, Misses, EnableKv, Obeys
<1>6. Granted'
  BY DEF IInv, TypeOK, KeysWereMade, Granted, Pods, Inits, Nothing, Blank, ActivePods,
    Active, InitSteps, AuthSteps, Obeys, bao, grants, Goes, Holds, Notices, Misses, EnableKv
<1> QED
  BY <1>1, <1>2, <1>3, <1>4, <1>5, <1>6 DEF IInv

(* A policy has the accessor, unless its writer missed a failure. *)
LEMMA WritePolicyKeeps == ASSUME IInv, NEW p \in AuthPods, WritePolicy(p) PROVE IInv'
<1>1. TypeOK'
  BY DEF IInv, TypeOK, Pods, Inits, Nothing, Blank, InitSteps, AuthSteps, bao, grants, Goes,
    Holds, Notices, Misses, WritePolicy, Obeys
<1>2. OpenIsRecoverable'
  BY DEF IInv, TypeOK, OpenIsRecoverable, UnsealedIsRecoverable, Inits, Nothing, Pods, bao,
    grants, Goes, Holds, Notices, Misses, WritePolicy, Obeys
<1>3. SubmittersHoldTheSecret'
  BY DEF IInv, TypeOK, SubmittersHoldTheSecret, Pods, Inits, Nothing, Blank, InitSteps,
    AuthSteps, bao, grants, Goes, Holds, Notices, Misses, WritePolicy, Obeys
<1>4. KeysWereMade'
  BY DEF IInv, TypeOK, KeysWereMade, Pods, Inits, Nothing, Blank, bao, grants, Goes, Holds,
    Notices, Misses, WritePolicy, Obeys
<1>5. SharesAreIn'
  BY DEF IInv, TypeOK, SharesAreIn, Pods, Inits, ActivePods, Active, InitSteps, AuthSteps,
    bao, grants, Goes, Holds, Notices, Misses, WritePolicy, Obeys
<1>6. Granted'
  BY DEF IInv, TypeOK, KeysWereMade, Granted, Pods, Inits, Nothing, Blank, ActivePods,
    Active, InitSteps, AuthSteps, Obeys, bao, grants, Goes, Holds, Notices, Misses,
    WritePolicy
<1> QED
  BY <1>1, <1>2, <1>3, <1>4, <1>5, <1>6 DEF IInv

(* The role is the last of the grants. *)
LEMMA WriteRoleKeeps == ASSUME IInv, NEW p \in AuthPods, WriteRole(p) PROVE IInv'
<1>1. TypeOK'
  BY DEF IInv, TypeOK, Pods, Inits, Nothing, Blank, InitSteps, AuthSteps, bao, grants, Goes,
    Holds, Notices, Misses, WriteRole, Obeys
<1>2. OpenIsRecoverable'
  BY DEF IInv, TypeOK, OpenIsRecoverable, UnsealedIsRecoverable, Inits, Nothing, Pods, bao,
    grants, Goes, Holds, Notices, Misses, WriteRole, Obeys
<1>3. SubmittersHoldTheSecret'
  BY DEF IInv, TypeOK, SubmittersHoldTheSecret, Pods, Inits, Nothing, Blank, InitSteps,
    AuthSteps, bao, grants, Goes, Holds, Notices, Misses, WriteRole, Obeys
<1>4. KeysWereMade'
  BY DEF IInv, TypeOK, KeysWereMade, Pods, Inits, Nothing, Blank, bao, grants, Goes, Holds,
    Notices, Misses, WriteRole, Obeys
<1>5. SharesAreIn'
  BY DEF IInv, TypeOK, SharesAreIn, Pods, Inits, ActivePods, Active, InitSteps, AuthSteps,
    bao, grants, Goes, Holds, Notices, Misses, WriteRole, Obeys
<1>6. Granted'
  BY DEF IInv, TypeOK, KeysWereMade, Granted, Pods, Inits, Nothing, Blank, ActivePods,
    Active, InitSteps, AuthSteps, Obeys, bao, grants, Goes, Holds, Notices, Misses,
    WriteRole
<1> QED
  BY <1>1, <1>2, <1>3, <1>4, <1>5, <1>6 DEF IInv

(* No keys, no secret, no attempt at first. *)
LEMMA InitIInv == Init => IInv
<1>1. Init => TypeOK
  <2> SUFFICES ASSUME Init PROVE TypeOK
    OBVIOUS
  <2>1. /\ progress \subseteq Shares /\ Cardinality(progress) < Threshold
        /\ keys = 0 /\ auth = 0 /\ policy = 0 /\ secret = 0 /\ used = 0
    BY NoShares DEF Init, Nothing
  <2>2. 1 \in 1 .. Threshold /\ 0 \in 0 .. MaxInits
    OBVIOUS
  <2> QED
    <3>1. /\ keys <= used /\ keys \in Inits \cup {Nothing} /\ auth \in Inits \cup {Nothing}
          /\ policy \in Inits \cup {Nothing, Blank} /\ secret \in Inits \cup {Nothing, Blank}
      BY <2>1 DEF Nothing
    <3>2. pc \in [Pods -> {"new"}] /\ held \in [Pods -> {Nothing}] /\ share \in [InitPods -> {1}]
      BY DEF Init
    <3>3. InitPods \subseteq Pods /\ AuthPods \subseteq Pods
      BY DEF Pods
    <3>4. \A p \in Pods : pc[p] = "new"
      BY <3>2
    <3> QED
      BY <2>1, <2>2, <3>1, <3>2, <3>3, <3>4 DEF Init, TypeOK, InitSteps, AuthSteps
<1>2. Init => OpenIsRecoverable /\ SubmittersHoldTheSecret /\ KeysWereMade /\ SharesAreIn /\ Granted
  BY DEF Init, OpenIsRecoverable, UnsealedIsRecoverable, SubmittersHoldTheSecret, KeysWereMade,
    SharesAreIn, Granted, Pods, Inits, Nothing
<1> QED
  BY <1>1, <1>2 DEF IInv

(* Every step of OpenBao and of the attempts keeps the invariant. *)
LEMMA NextKeeps == IInv /\ [Next]_vars => IInv'
<1> SUFFICES ASSUME IInv, [Next]_vars PROVE IInv'
  OBVIOUS
<1>1. CASE Restart \/ LoseData
  BY <1>1, RestartKeeps, LoseDataKeeps
<1>2. ASSUME NEW p \in InitPods, InitStep(p) PROVE IInv'
  BY <1>2, StartInitKeeps, ReadInitializedKeeps, OperatorInitKeeps, LookUpKeeps, StoreKeeps,
    FetchKeeps, ReadSealedKeeps, UnsealKeeps DEF InitStep
<1>3. ASSUME NEW p \in AuthPods, AuthStep(p) PROVE IInv'
  BY <1>3, StartAuthKeeps, SeesUnsealedKeeps, FetchTokenKeeps, EnableAuthKeeps,
    WriteConfigKeeps, EnableKvKeeps, WritePolicyKeeps, WriteRoleKeeps DEF AuthStep
<1>4. ASSUME NEW p \in Pods, Fails(p) PROVE IInv'
  BY <1>4, FailsKeeps
<1>5. CASE UNCHANGED vars
  BY <1>5 DEF vars, bao, grants, IInv, TypeOK, OpenIsRecoverable, UnsealedIsRecoverable,
    SubmittersHoldTheSecret, KeysWereMade, SharesAreIn, Granted, ActivePods, Active
<1> QED
  BY <1>1, <1>2, <1>3, <1>4, <1>5 DEF Next

(* The invariant holds for any attempts, keys and number of shares. *)
THEOREM Invariance == Spec => []IInv
  BY InitIInv, NextKeeps, PTL DEF Spec

(* OpenBao, the secret and the attempts keep to their types. *)
THEOREM TypeCorrect == Spec => []TypeOK
<1>1. IInv => TypeOK
  BY DEF IInv
<1> QED
  BY Invariance, <1>1, PTL

(* However many attempts overlap or fail and however often the data is lost, *)
(* OpenBao is open only with the keys that the secret has.                   *)
THEOREM Recoverable == Spec => []UnsealedIsRecoverable
<1>1. IInv => UnsealedIsRecoverable
  BY DEF IInv, OpenIsRecoverable
<1> QED
  BY Invariance, <1>1, PTL

(* A provisioning attempt that ended well has granted all it was to grant. *)
THEOREM Provisioned == Spec => []ProvisionedMeansAccess
<1>1. IInv => ProvisionedMeansAccess
  BY DEF IInv, Granted, ProvisionedMeansAccess
<1> QED
  BY Invariance, <1>1, PTL

(* An attempt to initialise that ends well leaves OpenBao open: the share it *)
(* submits last makes the set complete, whoever else submits beside it.      *)
THEOREM EndsOpen == Spec => InitDoneMeansUnsealed
<1> DEFINE A == \A p \in InitPods :
         pc[p] # "done" /\ pc'[p] = "done" /\ p \notin unnoticed' => ~sealed'
<1>1. IInv /\ [Next]_vars => [A]_vars
  <2> SUFFICES ASSUME IInv, Next, NEW p \in InitPods,
                      pc[p] # "done", pc'[p] = "done", p \notin unnoticed'
               PROVE  ~sealed'
    OBVIOUS
  <2>1. (ReadSealed(p) \/ Unseal(p)) /\ p \notin unnoticed
    <3>1. ASSUME NEW q \in Pods, Fails(q) PROVE pc'[p] # "done"
      BY <3>1 DEF Fails, IInv, TypeOK, Pods
    <3>2. ASSUME NEW q \in AuthPods, AuthStep(q) PROVE pc'[p] = pc[p]
      BY <3>2 DEF AuthStep, StartAuth, SeesUnsealed, FetchToken, EnableAuth, WriteConfig,
        EnableKv, WritePolicy, WriteRole, Goes, IInv, TypeOK, Pods
    <3>3. ASSUME NEW q \in InitPods, InitStep(q) PROVE ReadSealed(p) \/ Unseal(p)
      BY <3>3 DEF InitStep, StartInit, ReadInitialized, OperatorInit, LookUp, Store, Fetch,
        ReadSealed, Unseal, Submit, Goes, IInv, TypeOK, Pods
    <3>4. ReadSealed(p) \/ Unseal(p)
      BY <3>1, <3>2, <3>3 DEF Next, Restart, LoseData
    <3> QED
      BY <3>4 DEF ReadSealed, Unseal, Submit, Notices, Misses
  <2>2. CASE ReadSealed(p)
    BY <2>1, <2>2 DEF ReadSealed, Goes, Notices, Misses, bao, IInv, TypeOK, Pods
  <2>3. CASE Unseal(p)
    <3> DEFINE all == progress \cup {<<held[p], share[p]>>}
               opens == \A s \in all : s[1] = keys
    <3>1. /\ pc[p] = "unseal" /\ held[p] \in Inits /\ share[p] = Threshold
          /\ ~(sealed /\ Cardinality(all) = Threshold /\ ~opens)
          /\ sealed /\ ~(Cardinality(all) < Threshold) => sealed' = ~opens
          /\ ~sealed => ~sealed'
      BY <2>3 DEF Unseal, Submit, Goes, IInv, TypeOK, Pods
    <3>2. sealed => {held[p]} \X (1 .. Threshold) \subseteq all
      BY <2>1, <3>1 DEF IInv, TypeOK, SharesAreIn
    <3>3. all \subseteq Shares
      BY <3>1 DEF IInv, TypeOK, Shares
    <3> QED
      BY <3>1, <3>2, <3>3, SharesCount, OneMoreShare DEF IInv
  <2> QED
    BY <2>1, <2>2, <2>3
<1> QED
  BY Invariance, <1>1, PTL DEF Spec, InitDoneMeansUnsealed
=============================================================================
