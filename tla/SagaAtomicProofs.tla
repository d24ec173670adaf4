--------------------------- MODULE SagaAtomicProofs ---------------------------
(* Saga implements AtomicSaga, for any number of calls and procedures and any *)
(* retries and delays, where nothing happens that execute() cannot see.       *)
EXTENDS SagaProofs

(* Every call has an object of its own, mains neither time out nor reject     *)
(* after an effect, and fallbacks resolve.                                    *)
Plain ==
    /\ \A r, q \in Runs : InstanceOf[r] = InstanceOf[q] => r = q
    /\ \A p \in Procs : ~HasTimeout[p]
    /\ ~PartialRejects /\ ~FallbacksMayFail

(* A call that has begun iterates the list its own build() made. *)
OwnLists == \A r \in Runs : ListOf(r) = IF pc[r] = "idle" THEN <<>> ELSE Registered

(* The effects in place are the first positions of the list: those completed *)
(* and not undone, and the awaited one once it has its effect.               *)
FirstEffects == \A r \in Runs :
    Effects[r] = IF pc[r] = "awaiting" /\ Awaited(r) \in applied
                 THEN 1 .. Len(completed[r]) + 1
                 ELSE 1 .. Len(completed[r]) - Len(undone[r])

AtomicInv == IInv /\ TriesInv /\ OwnLists /\ FirstEffects

-----------------------------------------------------------------------------
(* The effects *)

(* build() on an object of one call finds an empty list. *)
LEMMA StepOwnLists == ASSUME Plain, TypeOK, OwnLists, Next PROVE OwnLists'
<1> USE SagaAssumption
<1>1. ASSUME NEW r \in Runs, Execute(r) PROVE OwnLists'
  <2>1. ListOf(r) = <<>> /\ <<>> \o Registered = Registered
    BY <1>1, RegisteredType DEF OwnLists, Execute
  <2>2. ListOf(r)' = Registered /\ pc'[r] # "idle"
    BY <1>1, <2>1 DEF Execute, ListOf, Iterate, StartAttempt, TypeOK
  <2>3. \A q \in Runs \ {r} : ListOf(q)' = ListOf(q) /\ pc'[q] = pc[q]
    BY <1>1 DEF Execute, ListOf, Iterate, StartAttempt, TypeOK, Plain
  <2> QED BY <2>2, <2>3 DEF OwnLists
<1>2. ASSUME UNCHANGED procedures, \A q \in Runs : pc'[q] = "idle" <=> pc[q] = "idle"
      PROVE  OwnLists'
  BY <1>2 DEF OwnLists, ListOf
<1>3. ASSUME NEW r \in Runs,
             MainResolves(r) \/ MainRejects(r) \/ TimeoutFires(r) \/ WakesUp(r)
               \/ FallbackResolves(r) \/ FallbackRejects(r)
      PROVE  OwnLists'
  BY <1>2, <1>3 DEF MainResolves, MainRejects, TimeoutFires, WakesUp, FallbackResolves,
    FallbackRejects, AttemptFails, RetryNow, RetryLater, GiveUp, Iterate, StartAttempt, TypeOK
<1>4. ASSUME NEW a \in running, MainEffect(a) \/ LateSettles(a) PROVE OwnLists'
  BY <1>2, <1>4 DEF MainEffect, LateSettles
<1>5. CASE AtRest
  BY <1>2, <1>5 DEF AtRest, vars
<1> QED BY <1>1, <1>3, <1>4, <1>5 DEF Next, RunStep

(* Where nothing is excused, only the awaited main runs. *)
LEMMA NothingExcused ==
    ASSUME Plain, IInv, NEW a \in running \cup applied
    PROVE  /\ a[1] \in Runs /\ ~Excused(a)
           /\ a \in running => IsAwaited(a)
<1> USE SagaAssumption
<1>1. a[1] \in Runs /\ a[2] \in Nat \ {0} /\ a[2] <= Len(ListOf(a[1]))
  BY DEF IInv, TypeOK, Attempts, PositionsListed
<1>2. ListOf(a[1]) \in Seq(Procs)
  BY <1>1 DEF IInv, TypeOK, ListOf
<1>3. ProcAt(a[1], a[2]) \in Procs
  BY <1>1, <1>2, ElementOfSeq DEF ProcAt
<1> QED BY <1>1, <1>3 DEF Plain, Excused, IInv, OverlapOnlyAfterTimeout

(* The effects are those of the completed attempts that are not undone and of *)
(* the awaited one, and each completed attempt is at its own position.        *)
LEMMA EffectsAreFirst == ASSUME Plain, IInv, TriesInv PROVE FirstEffects
<1> SUFFICES ASSUME NEW r \in Runs
             PROVE  Effects[r] = IF pc[r] = "awaiting" /\ Awaited(r) \in applied
                                 THEN 1 .. Len(completed[r]) + 1
                                 ELSE 1 .. Len(completed[r]) - Len(undone[r])
  BY DEF FirstEffects
<1> DEFINE c == completed[r]
           u == undone[r]
           Own == {a \in applied : a[1] = r}
           Newest == IF pc[r] = "awaiting" /\ Awaited(r) \in applied THEN {Awaited(r)} ELSE {}
<1>1. /\ c \in Seq(Attempts) /\ u \in Seq(Attempts) /\ Len(c) \in Nat /\ Len(u) \in Nat
      /\ Range(c) = {c[p] : p \in 1 .. Len(c)} /\ Range(u) = {u[k] : k \in 1 .. Len(u)}
  BY DEF IInv, TypeOK, Range
<1>2. Len(u) <= Len(c) /\ \A k \in 1 .. Len(u) : u[k] = c[Len(c) - k + 1]
  BY DEF IInv, CompensationOrder
<1>3. \A p \in 1 .. Len(c) : c[p] \in Own /\ c[p][2] = p
  BY <1>1 DEF TriesInv, TriesAreBoundedAndOrdered, IInv, EffectsAccounted
<1>4. Own = Range(c) \cup Newest
  <2>1. ASSUME NEW a \in Own PROVE a \in Range(c) \cup Newest
    BY NothingExcused DEF IInv, EffectsAccounted, IsAwaited
  <2>2. Newest \subseteq Own
    BY DEF Awaited
  <2> QED BY <1>1, <1>3, <2>1, <2>2
<1>5. Range(u) = {c[p] : p \in Len(c) - Len(u) + 1 .. Len(c)}
  <2> HIDE DEF c, u
  <2>1. \A k \in 1 .. Len(u) : Len(c) - k + 1 \in Len(c) - Len(u) + 1 .. Len(c)
    BY <1>1, <1>2
  <2>2. \A p \in Len(c) - Len(u) + 1 .. Len(c) :
          Len(c) - p + 1 \in 1 .. Len(u) /\ Len(c) - (Len(c) - p + 1) + 1 = p
    BY <1>1, <1>2
  <2>3. ASSUME NEW k \in 1 .. Len(u)
        PROVE  u[k] \in {c[p] : p \in Len(c) - Len(u) + 1 .. Len(c)}
    BY <1>2, <2>1
  <2>4. ASSUME NEW p \in Len(c) - Len(u) + 1 .. Len(c) PROVE c[p] \in Range(u)
    <3>1. Len(c) - p + 1 \in 1 .. Len(u) /\ u[Len(c) - p + 1] = c[p]
      BY <1>2, <2>2
    <3> QED BY <1>1, <3>1
  <2> QED BY <1>1, <2>3, <2>4
<1>6. pc[r] = "awaiting" => Awaited(r)[2] = Len(c) + 1 /\ Len(u) = 0
  BY DEF TriesInv, TriesInTurn, Awaited, IInv, CompensationCounts
<1>7. {c[p][2] : p \in 1 .. Len(c) - Len(u)} = 1 .. Len(c) - Len(u)
  <2> HIDE DEF c, u
  <2>1. \A p \in 1 .. Len(c) - Len(u) : p \in 1 .. Len(c) /\ c[p][2] = p
    BY <1>1, <1>2, <1>3
  <2> QED BY <2>1
<1>8. Range(c) \ Range(u) = {c[p] : p \in 1 .. Len(c) - Len(u)}
  <2> HIDE DEF c, u, Own
  <2>1. \A p, k \in 1 .. Len(c) : c[p] = c[k] => p = k
    BY <1>3
  <2>2. \A p \in 1 .. Len(c) :
          p \in Len(c) - Len(u) + 1 .. Len(c) <=> p \notin 1 .. Len(c) - Len(u)
    BY <1>1, <1>2
  <2>3. \A p \in 1 .. Len(c) - Len(u) : p \in 1 .. Len(c)
    BY <1>1, <1>2
  <2>4. \A p \in Len(c) - Len(u) + 1 .. Len(c) : p \in 1 .. Len(c)
    BY <1>1, <1>2
  <2>5. \A p \in 1 .. Len(c) : c[p] \in Range(u) <=> p \in Len(c) - Len(u) + 1 .. Len(c)
    BY <1>5, <2>1, <2>4
  <2> QED BY <1>1, <2>2, <2>3, <2>5
<1>9. CASE pc[r] = "awaiting" /\ Awaited(r) \in applied
  <2>1. Range(u) = {} /\ Net(r) = Range(c) \cup {Awaited(r)}
    BY <1>1, <1>4, <1>6, <1>9 DEF Net
  <2>2. Effects[r] = {c[p][2] : p \in 1 .. Len(c)} \cup {Len(c) + 1}
    BY <1>1, <1>6, <1>9, <2>1 DEF Effects
  <2>3. {c[p][2] : p \in 1 .. Len(c)} = 1 .. Len(c)
    BY <1>3
  <2>4. (1 .. Len(c)) \cup {Len(c) + 1} = 1 .. Len(c) + 1
    BY <1>1
  <2> QED BY <1>9, <2>2, <2>3, <2>4
<1>10. CASE ~(pc[r] = "awaiting" /\ Awaited(r) \in applied)
  <2>1. Net(r) = {c[p] : p \in 1 .. Len(c) - Len(u)}
    BY <1>4, <1>8, <1>10 DEF Net
  <2>2. Effects[r] = {c[p][2] : p \in 1 .. Len(c) - Len(u)}
    BY <2>1 DEF Effects
  <2> QED BY <1>7, <1>10, <2>2
<1> QED BY <1>9, <1>10

-----------------------------------------------------------------------------
(* The steps *)

(* A step leaves what is seen of the calls whose variables it leaves alone. *)
LEMMA OthersKeep ==
    ASSUME NEW q \in Runs, UNCHANGED <<undone[q], pc[q]>>,
           \A a : a[1] = q => (a \in applied' <=> a \in applied)
    PROVE  Effects'[q] = Effects[q] /\ Outcomes'[q] = Outcomes[q]
<1>1. Net(q)' = Net(q)
  BY DEF Net, Range
<1> QED BY <1>1 DEF Effects, Outcomes

(* What is seen of r changes, or nothing is. *)
LEMMA Moves ==
    ASSUME NEW r \in Runs,
           \A q \in Runs \ {r} : Effects'[q] = Effects[q] /\ Outcomes'[q] = Outcomes[q]
    PROVE  /\ Effects' = [Effects EXCEPT ![r] = Effects'[r]]
           /\ Outcomes' = [Outcomes EXCEPT ![r] = Outcomes'[r]]
           /\ Effects'[r] = Effects[r] => UNCHANGED Effects
           /\ Outcomes'[r] = Outcomes[r] => UNCHANGED Outcomes
BY DEF Effects, Outcomes

(* What remains to be undone is one of the positions. *)
LEMMA Remaining ==
    ASSUME NEW k \in Nat, NEW u \in Nat, u < k
    PROVE  /\ k - u \in Nat \ {0} /\ k - u <= k /\ k - (u + 1) = k - u - 1
           /\ k - u = 1 <=> ~(u + 1 < k)
OBVIOUS

(* What taking back the effect at n does to what is seen is the abstract step. *)
LEMMA TakesBack ==
    ASSUME NEW r \in Runs, NEW n \in 1 .. NumProcs,
           Effects[r] = 1 .. n, Effects' = [Effects EXCEPT ![r] = 1 .. n - 1],
           Outcomes[r] = "failing",
           Outcomes' = [Outcomes EXCEPT ![r] = IF n = 1 THEN "aborted" ELSE "failing"]
    PROVE  Promise!Backward(r)
BY DEF Promise!Backward

(* Every step of execute() is one of the abstract saga's, or none that it sees. *)
LEMMA StepIsAtomic ==
    ASSUME Plain, AtomicInv, AtomicInv', Next
    PROVE  [Promise!ANext]_(Promise!avars)
<1> USE SagaAssumption
<1>i. IInv /\ TriesInv /\ IInv' /\ TriesInv' /\ TypeOK /\ TypeOK'
  BY DEF AtomicInv, IInv
<1>t. /\ NumProcs \in Nat
      /\ \A r \in Runs : /\ Len(completed[r]) \in Nat /\ Len(undone[r]) \in Nat
                         /\ Len(undone'[r]) \in Nat /\ pos[r] \in Nat
                         /\ Len(undone[r]) <= Len(completed[r])
  BY <1>i DEF TypeOK, SagaAssumption, IInv, CompensationOrder
<1>e. \A r \in Runs : Effects[r] = IF pc[r] = "awaiting" /\ Awaited(r) \in applied
                                   THEN 1 .. Len(completed[r]) + 1
                                   ELSE 1 .. Len(completed[r]) - Len(undone[r])
  BY DEF AtomicInv, FirstEffects
<1>f. \A r \in Runs : Effects'[r] = IF pc'[r] = "awaiting" /\ Awaited(r)' \in applied'
                                   THEN 1 .. Len(completed'[r]) + 1
                                   ELSE 1 .. Len(completed'[r]) - Len(undone'[r])
  BY DEF AtomicInv, FirstEffects
<1>l. \A r \in Runs : pc[r] = "awaiting" =>
        /\ Len(ListOf(r)) = NumProcs /\ pos[r] = Len(completed[r]) + 1 /\ pos[r] <= NumProcs
        /\ Len(undone[r]) = 0
  <2>1. Len(Registered) = NumProcs
    BY DEF Registered, Procs, SagaAssumption
  <2> QED BY <1>i, <2>1 DEF AtomicInv, OwnLists, PositionsListed, IInv, TriesInv, TriesInTurn,
        CompensationCounts
(* A step that is seen of r alone, if at all.                                 *)
<1>o. ASSUME NEW r \in Runs, UNCHANGED applied,
             \A q \in Runs \ {r} : UNCHANGED <<undone[q], pc[q]>>
      PROVE  \A q \in Runs \ {r} : Effects'[q] = Effects[q] /\ Outcomes'[q] = Outcomes[q]
  BY <1>o, OthersKeep
<1>s. ASSUME NEW r \in Runs, UNCHANGED <<applied, undone>>,
             \A q \in Runs \ {r} : UNCHANGED pc[q], Outcomes'[r] = Outcomes[r]
      PROVE  UNCHANGED Promise!avars
  <2>1. Effects'[r] = Effects[r]
    BY <1>s DEF Effects, Net
  <2> QED BY <1>o, <1>s, <2>1, Moves DEF Promise!avars
<1>1. ASSUME NEW r \in Runs, Execute(r) PROVE [Promise!ANext]_(Promise!avars)
  <2>1. /\ UNCHANGED <<applied, undone, completed>> /\ pc[r] = "idle"
        /\ \A q \in Runs \ {r} : UNCHANGED pc[q]
    BY <1>1, <1>i DEF Execute, Iterate, StartAttempt, TypeOK
  <2>2. Outcomes[r] = "pending" /\ Effects'[r] = Effects[r]
    BY <2>1 DEF Outcomes, Effects, Net
  <2>3. ListOf(r) \o Registered = Registered
    BY <2>1, RegisteredType DEF AtomicInv, OwnLists
  <2>4. CASE pc'[r] = "awaiting"
    BY <2>1, <2>2, <2>4, <1>s DEF Outcomes
  <2>5. CASE 1 > Len(Registered) /\ pc'[r] = "returned"
    <3>1. 1 .. NumProcs = {} /\ Len(completed[r]) = 0
      BY <2>1, <2>5, <1>i, <1>t DEF Registered, Procs, TriesInv, TriesInTurn
    <3>2. Effects[r] = 1 .. NumProcs
      <4>1. Len(completed[r]) - Len(undone[r]) = 0
        BY <3>1, <1>t
      <4>2. Effects[r] = 1 .. 0
        BY <4>1, <1>e, <2>1
      <4> QED BY <3>1, <4>2
    <3>3. Outcomes'[r] = "committed"
      BY <2>5 DEF Outcomes
    <3>4. Promise!Commit(r)
      BY <2>1, <2>2, <3>2, <3>3, <1>o, Moves DEF Promise!Commit
    <3> QED BY <3>4 DEF Promise!ANext
  <2> QED BY <1>1, <1>i, <2>3, <2>4, <2>5 DEF Execute, Iterate, StartAttempt, TypeOK
<1>2. ASSUME NEW a \in running, MainEffect(a) PROVE [Promise!ANext]_(Promise!avars)
  <2> DEFINE r == a[1]
             n == Len(completed[r]) + 1
  <2>1. r \in Runs /\ pc[r] = "awaiting" /\ a = Awaited(r)
    BY <1>i, NothingExcused DEF IsAwaited
  <2>2. a \notin applied /\ applied' = applied \cup {a} /\ UNCHANGED <<pc, pos, attempt, completed, undone>>
    BY <1>2 DEF MainEffect
  <2>3. n \in 1 .. NumProcs /\ Effects[r] = 1 .. n - 1 /\ Effects'[r] = 1 .. n
    <3>1. n \in 1 .. NumProcs /\ Len(undone[r]) = 0 /\ Len(completed[r]) \in Nat
      BY <1>l, <1>t, <2>1
    <3>2. Effects[r] = 1 .. Len(completed[r]) - Len(undone[r])
      BY <1>e, <2>1, <2>2
    <3>3. Awaited(r)' = Awaited(r)
      BY <2>2 DEF Awaited
    <3>4. Effects'[r] = 1 .. n
      BY <1>f, <2>1, <2>2, <3>3
    <3> QED BY <3>1, <3>2, <3>4
  <2>4. \A q \in Runs \ {r} : Effects'[q] = Effects[q] /\ Outcomes'[q] = Outcomes[q]
    BY <2>2, OthersKeep
  <2>5. Outcomes[r] = "pending" /\ UNCHANGED Outcomes
    BY <2>1, <2>2 DEF Outcomes
  <2>6. Effects' = [Effects EXCEPT ![r] = 1 .. n]
    BY <2>1, <2>3, <2>4, Moves
  <2>7. Promise!Forward(r)
    BY <2>3, <2>5, <2>6 DEF Promise!Forward
  <2> QED BY <2>1, <2>7 DEF Promise!ANext
<1>3. ASSUME NEW r \in Runs, MainResolves(r) PROVE [Promise!ANext]_(Promise!avars)
  <2>1. /\ UNCHANGED <<applied, undone>> /\ pc[r] = "awaiting" /\ Awaited(r) \in applied
        /\ \A q \in Runs \ {r} : UNCHANGED pc[q]
    BY <1>3, <1>i DEF MainResolves, Iterate, StartAttempt, TypeOK
  <2>2. Outcomes[r] = "pending" /\ Effects'[r] = Effects[r]
    BY <2>1 DEF Outcomes, Effects, Net
  <2>3. CASE pc'[r] = "awaiting"
    BY <2>1, <2>2, <2>3, <1>s DEF Outcomes
  <2>4. CASE pos[r] + 1 > Len(ListOf(r)) /\ pc'[r] = "returned"
    <3>1. Len(completed[r]) + 1 = NumProcs
      BY <2>1, <2>4, <1>l, <1>t
    <3>2. Effects[r] = 1 .. NumProcs
      BY <2>1, <3>1, <1>e
    <3>3. Outcomes'[r] = "committed"
      BY <2>4 DEF Outcomes
    <3>4. Promise!Commit(r)
      BY <2>1, <2>2, <3>2, <3>3, <1>o, Moves DEF Promise!Commit
    <3> QED BY <3>4 DEF Promise!ANext
  <2> QED BY <1>3, <1>i, <2>3, <2>4 DEF MainResolves, Iterate, StartAttempt, TypeOK
<1>4. ASSUME NEW r \in Runs, MainRejects(r) PROVE [Promise!ANext]_(Promise!avars)
  <2>1. /\ UNCHANGED <<applied, undone, completed>> /\ pc[r] = "awaiting" /\ Awaited(r) \notin applied
        /\ \A q \in Runs \ {r} : UNCHANGED pc[q]
    BY <1>4, <1>i DEF MainRejects, AttemptFails, RetryNow, RetryLater, GiveUp, StartAttempt,
      TypeOK, Plain
  <2>2. Outcomes[r] = "pending" /\ Effects'[r] = Effects[r]
    BY <2>1 DEF Outcomes, Effects, Net
  <2>3. CASE pc'[r] \in {"awaiting", "sleeping"}
    BY <2>1, <2>2, <2>3, <1>s DEF Outcomes
  <2>4. CASE pc'[r] = IF completed[r] = <<>> THEN "threw" ELSE "compensating"
    <3>1. Effects[r] = 1 .. Len(completed[r])
      <4>1. Len(completed[r]) - Len(undone[r]) = Len(completed[r])
        <5>1. Len(undone[r]) = 0
          BY <2>1, <1>l
        <5>2. Len(completed[r]) \in Nat
          BY <1>t
        <5> QED BY <5>1, <5>2
      <4> QED BY <4>1, <2>1, <1>e
    <3>2. completed[r] = <<>> <=> Len(completed[r]) = 0
      BY <1>i, EmptySeq DEF TypeOK
    <3>3. Effects[r] = {} <=> completed[r] = <<>>
      <4>1. ASSUME NEW k \in Nat PROVE 1 .. k = {} <=> k = 0
        <5>1. k # 0 => 1 \in 1 .. k
          OBVIOUS
        <5> QED BY <5>1
      <4> QED BY <3>1, <3>2, <4>1, <1>t
    <3>4. Outcomes'[r] = IF Effects[r] = {} THEN "aborted" ELSE "failing"
      BY <2>4, <3>3 DEF Outcomes
    <3>5. Promise!GiveUp(r)
      BY <2>1, <2>2, <3>4, <1>o, Moves DEF Promise!GiveUp
    <3> QED BY <3>5 DEF Promise!ANext
  <2> QED BY <1>4, <1>i, <2>3, <2>4
        DEF MainRejects, AttemptFails, RetryNow, RetryLater, GiveUp, StartAttempt, TypeOK
<1>5. ASSUME NEW r \in Runs PROVE ~TimeoutFires(r)
  <2>1. pc[r] = "awaiting" => Current(r) \in Procs
    <3>1. ListOf(r) \in Seq(Procs)
      BY <1>i DEF TypeOK, ListOf
    <3>2. pc[r] = "awaiting" => pos[r] \in 1 .. Len(ListOf(r))
      BY <1>i DEF IInv, PositionsListed, TypeOK
    <3> QED BY <3>1, <3>2, ElementOfSeq DEF Current, ProcAt
  <2> QED BY <2>1 DEF TimeoutFires, Plain
<1>6. ASSUME NEW r \in Runs, WakesUp(r) PROVE [Promise!ANext]_(Promise!avars)
  <2>1. /\ UNCHANGED <<applied, undone>> /\ pc[r] = "sleeping" /\ pc'[r] = "awaiting"
        /\ \A q \in Runs \ {r} : UNCHANGED pc[q]
    BY <1>6, <1>i DEF WakesUp, StartAttempt, TypeOK
  <2> QED BY <2>1, <1>s DEF Outcomes
<1>7. ASSUME NEW r \in Runs, FallbackResolves(r) PROVE [Promise!ANext]_(Promise!avars)
  <2> DEFINE n == Len(completed[r]) - Len(undone[r])
  <2>1. /\ UNCHANGED <<applied, completed>> /\ pc[r] = "compensating"
        /\ Len(undone[r]) < Len(completed[r]) /\ Len(undone'[r]) = Len(undone[r]) + 1
        /\ pc'[r] = IF Len(undone[r]) + 1 < Len(completed[r]) THEN "compensating" ELSE "threw"
        /\ \A q \in Runs \ {r} : UNCHANGED <<undone[q], pc[q]>>
    <3>1. undone'[r] = Append(undone[r], ToCompensate(r)) /\ undone[r] \in Seq(Attempts)
      BY <1>7, <1>i DEF FallbackResolves, TypeOK
    <3>2. Len(undone'[r]) = Len(undone[r]) + 1
      BY <3>1, <1>i DEF TypeOK
    <3> QED BY <1>7, <1>i, <3>2 DEF FallbackResolves, TypeOK, IInv, CompensationCounts
  <2>2. n \in Nat \ {0} /\ n <= Len(completed[r]) /\ Len(completed[r]) - (Len(undone[r]) + 1) = n - 1
        /\ (n = 1 <=> ~(Len(undone[r]) + 1 < Len(completed[r])))
    <3>1. /\ Len(completed[r]) \in Nat /\ Len(undone[r]) \in Nat
          /\ Len(undone[r]) < Len(completed[r])
      BY <2>1, <1>t
    <3> QED BY <3>1, Remaining
  <2>3. Effects[r] = 1 .. n
    BY <2>1, <1>e
  <2>4. Effects'[r] = 1 .. n - 1
    <3>1. Effects'[r] = 1 .. Len(completed[r]) - (Len(undone[r]) + 1)
      BY <2>1, <1>f
    <3> QED BY <2>2, <3>1
  <2>5. Outcomes[r] = "failing" /\ Outcomes'[r] = IF n = 1 THEN "aborted" ELSE "failing"
    BY <2>1, <2>2 DEF Outcomes
  <2>6. Len(completed[r]) \in Nat /\ Len(completed[r]) <= NumProcs
    <3>1. Len(completed[r]) \in 1 .. Len(completed[r])
      BY <2>1, <1>t
    <3>2. completed[r][Len(completed[r])] \in {a \in applied : a[1] = r}
      BY <3>1, <1>i DEF IInv, EffectsAccounted, TypeOK, Range
    <3>3. Len(completed[r]) <= Len(ListOf(r))
      BY <3>1, <3>2, <1>i DEF TriesInv, TriesAreBoundedAndOrdered, IInv, PositionsListed
    <3>4. Len(ListOf(r)) = NumProcs
      BY <2>1 DEF AtomicInv, OwnLists, Registered, Procs, SagaAssumption
    <3> QED BY <1>t, <3>3, <3>4
  <2> HIDE DEF n
  <2>7. n \in 1 .. NumProcs
    BY <2>2, <2>6, <1>t
  <2>8. /\ Effects' = [Effects EXCEPT ![r] = 1 .. n - 1]
        /\ Outcomes' = [Outcomes EXCEPT ![r] = IF n = 1 THEN "aborted" ELSE "failing"]
    BY <2>1, <2>4, <2>5, <1>o, Moves
  <2>9. Promise!Backward(r)
    BY <2>3, <2>5, <2>7, <2>8, TakesBack
  <2> QED BY <2>9 DEF Promise!ANext
<1>8. ASSUME NEW a \in running, LateSettles(a) PROVE FALSE
  BY <1>8, <1>i, NothingExcused DEF LateSettles
<1>9. ASSUME AtRest PROVE UNCHANGED Promise!avars
  BY <1>9 DEF AtRest, vars, Promise!avars, Effects, Outcomes, Net
<1> QED BY <1>1, <1>2, <1>3, <1>4, <1>5, <1>6, <1>7, <1>8, <1>9
      DEF Next, RunStep, FallbackRejects, Plain
-----------------------------------------------------------------------------

(* execute() implements the abstract saga wherever it can see all that happens: *)
(* its effects come in order, and they stay together or go together.            *)
THEOREM Atomic == ASSUME Plain PROVE Spec => IsAtomic
<1>1. Spec => []OwnLists
  <2>1. Init => OwnLists
    BY SagaAssumption DEF Init, OwnLists, ListOf
  <2>2. IInv /\ OwnLists /\ [Next]_vars => OwnLists'
    BY StepOwnLists DEF IInv, vars, OwnLists, ListOf
  <2> QED BY Invariance, <2>1, <2>2, PTL DEF Spec
<1>2. IInv /\ TriesInv => FirstEffects
  BY EffectsAreFirst
<1>3. IInv /\ TriesInv /\ OwnLists /\ FirstEffects => AtomicInv
  BY DEF AtomicInv
<1>4. Init => Promise!AInit
  BY DEF Init, Promise!AInit, Effects, Outcomes, Net
<1>5. AtomicInv /\ AtomicInv' /\ [Next]_vars => [Promise!ANext]_(Promise!avars)
  <2>1. UNCHANGED vars => UNCHANGED Promise!avars
    BY DEF vars, Promise!avars, Effects, Outcomes, Net
  <2> QED BY <2>1, StepIsAtomic
<1> QED BY Invariance, TriesInvariance, <1>1, <1>2, <1>3, <1>4, <1>5, PTL
      DEF Spec, IsAtomic, Promise!ASpec

=============================================================================
