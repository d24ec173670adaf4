----------------------------- MODULE SagaProofs -----------------------------
(* Theorems about Saga, for any number of calls, objects and procedures and *)
(* any options.                                                             *)
EXTENDS Saga, SequenceTheorems, TLAPS

-----------------------------------------------------------------------------
(* The inductive invariant                                                  *)

(* What is read from the list stays on it, also when build() extends it.    *)
PositionsListed ==
    /\ \A a \in running \cup applied : a[2] <= Len(ListOf(a[1]))
    /\ \A r \in Runs : pc[r] \in {"awaiting", "sleeping"} => pos[r] <= Len(ListOf(r))

(* Fallbacks run in the compensating phase only, which ends in time.        *)
CompensationCounts == \A r \in Runs :
    /\ pc[r] \notin {"compensating", "threw"} => undone[r] = <<>>
    /\ pc[r] = "compensating" => Len(undone[r]) < Len(completed[r])

(* The k-th fallback belongs to the k-th last completed attempt.            *)
CompensationOrder == \A r \in Runs :
    /\ Len(undone[r]) <= Len(completed[r])
    /\ \A k \in 1 .. Len(undone[r]) :
         undone[r][k] = completed[r][Len(completed[r]) - k + 1]
    /\ pc[r] = "threw" /\ error[r] # "fallback" => Len(undone[r]) = Len(completed[r])

(* Every effect belongs to the attempt being awaited, to a completed one or *)
(* to one the orchestrator cannot know of.                                  *)
EffectsAccounted ==
    /\ \A a \in applied : \/ IsAwaited(a)
                          \/ a \in Range(completed[a[1]])
                          \/ Excused(a)
    /\ \A r \in Runs : Range(completed[r]) \subseteq {a \in applied : a[1] = r}

IInv == /\ TypeOK
        /\ PositionsListed
        /\ CompensationCounts
        /\ CompensationOrder
        /\ OverlapOnlyAfterTimeout
        /\ EffectsAccounted

-----------------------------------------------------------------------------
(* Type correctness                                                         *)

(* What a call registers is a list of procedures.                           *)
LEMMA RegisteredType == ASSUME SagaAssumption PROVE Registered \in Seq(Procs)
BY DEF SagaAssumption, Registered, Procs

(* The initial state satisfies the invariant.                               *)
LEMMA InitIInv == Init => IInv
BY SagaAssumption DEF Init, IInv, TypeOK, PositionsListed, CompensationCounts,
   CompensationOrder, OverlapOnlyAfterTimeout, EffectsAccounted, Range, Ended, Errors, ListOf

(* What the library's Reverse returns.                                      *)
LEMMA ReverseElement ==
    ASSUME NEW S, NEW s \in Seq(S), NEW k \in 1 .. Len(s)
    PROVE  /\ Reverse(s)[k] = s[Len(s) - k + 1]
           /\ Reverse(s)[k] \in S
<1>1. Reverse(s)[k] = s[Len(s) - k + 1]
  BY DEF Reverse
<1>2. Len(s) - k + 1 \in 1 .. Len(s)
  OBVIOUS
<1> QED BY <1>1, <1>2, ElementOfSeq

(* Appending adds one element to the range.                                 *)
LEMMA AppendRange ==
    ASSUME NEW S, NEW s \in Seq(S), NEW x \in S
    PROVE  Range(Append(s, x)) = Range(s) \cup {x}
<1>1. /\ DOMAIN s = 1 .. Len(s) /\ Len(s) \in Nat
      /\ Len(Append(s, x)) = Len(s) + 1
      /\ DOMAIN Append(s, x) = 1 .. Len(s) + 1
      /\ \A i \in 1 .. Len(s) : Append(s, x)[i] = s[i]
      /\ Append(s, x)[Len(s) + 1] = x
  BY AppendProperties, LenProperties
<1> QED BY <1>1 DEF Range

(* The part of TypeOK that every continuation rewrites.                     *)
PhaseType ==
    /\ pc \in [Runs -> {"idle", "awaiting", "sleeping", "compensating"} \cup Ended]
    /\ pos \in [Runs -> Nat \ {0}]
    /\ attempt \in [Runs -> Nat]
    /\ running \subseteq Attempts

(* Starting an attempt, going on with the iteration and failing an attempt  *)
(* keep the phase variables in their types.                                 *)
LEMMA StartAttemptType ==
    ASSUME PhaseType, NEW r \in Runs, NEW p \in Nat \ {0}, NEW n \in Nat,
           NEW still \in SUBSET Attempts, StartAttempt(r, p, n, still)
    PROVE  PhaseType'
<1>1. <<r, p, n>> \in Attempts
  BY DEF Attempts
<1> QED BY <1>1 DEF PhaseType, StartAttempt

LEMMA IterateType ==
    ASSUME PhaseType, NEW r \in Runs, NEW p \in Nat \ {0}, NEW list,
           NEW still \in SUBSET Attempts, Iterate(r, p, list, still)
    PROVE  PhaseType'
<1>1. CASE StartAttempt(r, p, 0, still)
  BY <1>1, StartAttemptType
<1>2. CASE /\ pc' = [pc EXCEPT ![r] = "returned"]
           /\ running' = still
           /\ UNCHANGED <<pos, attempt>>
  BY <1>2 DEF PhaseType, Ended
<1> QED BY <1>1, <1>2 DEF Iterate

LEMMA AttemptFailsType ==
    ASSUME PhaseType, error \in [Runs -> Errors], NEW r \in Runs,
           NEW why \in Errors, NEW still \in SUBSET Attempts, AttemptFails(r, why, still)
    PROVE  PhaseType' /\ error' \in [Runs -> Errors]
<1>1. error' \in [Runs -> Errors]
  BY DEF AttemptFails
<1>2. CASE RetryNow(r, still)
  <2>1. pos[r] \in Nat \ {0} /\ attempt[r] + 1 \in Nat
    BY DEF PhaseType
  <2>2. StartAttempt(r, pos[r], attempt[r] + 1, still)
    BY <1>2 DEF RetryNow
  <2> QED BY <1>1, <2>1, <2>2, StartAttemptType
<1>3. CASE RetryLater(r, still) \/ GiveUp(r, still)
  BY <1>1, <1>3 DEF PhaseType, RetryLater, GiveUp, Ended
<1> QED BY <1>2, <1>3 DEF AttemptFails

LEMMA StepType ==
    ASSUME TypeOK, CompensationCounts, Next
    PROVE  TypeOK'
<1> USE SagaAssumption
<1>a. PhaseType /\ running \in SUBSET Attempts
  BY DEF TypeOK, PhaseType
<1>1. ASSUME NEW r \in Runs, Execute(r) PROVE TypeOK'
  <2>1. ListOf(r) \o Registered \in Seq(Procs)
    BY RegisteredType DEF TypeOK, ListOf
  <2>2. procedures' \in [Instances -> Seq(Procs)]
    BY <1>1, <2>1 DEF Execute, TypeOK
  <2>3. PhaseType'
    BY <1>1, <1>a, IterateType DEF Execute
  <2> QED BY <1>1, <2>2, <2>3 DEF Execute, TypeOK, PhaseType
<1>2. ASSUME NEW r \in Runs, MainResolves(r) PROVE TypeOK'
  <2>1. pos[r] + 1 \in Nat \ {0} /\ running \ {Awaited(r)} \in SUBSET Attempts
    BY DEF TypeOK
  <2>2. PhaseType'
    BY <1>2, <1>a, <2>1, IterateType DEF MainResolves
  <2>3. Awaited(r) \in Attempts
    BY DEF TypeOK, Awaited, Attempts
  <2>4. completed' \in [Runs -> Seq(Attempts)]
    BY <1>2, <2>3 DEF MainResolves, TypeOK
  <2> QED BY <1>2, <2>2, <2>4 DEF MainResolves, TypeOK, PhaseType
<1>3. ASSUME NEW r \in Runs, MainRejects(r) PROVE TypeOK'
  <2>1. running \ {Awaited(r)} \in SUBSET Attempts /\ "rejected" \in Errors
    BY DEF TypeOK, Errors
  <2>2. PhaseType' /\ error' \in [Runs -> Errors]
    BY <1>3, <1>a, <2>1, AttemptFailsType DEF MainRejects, TypeOK
  <2> QED BY <1>3, <2>2 DEF MainRejects, AttemptFails, TypeOK, PhaseType
<1>4. ASSUME NEW r \in Runs, TimeoutFires(r) PROVE TypeOK'
  <2>1. PhaseType' /\ error' \in [Runs -> Errors]
    BY <1>4, <1>a, AttemptFailsType DEF TimeoutFires, TypeOK, Errors
  <2> QED BY <1>4, <2>1 DEF TimeoutFires, AttemptFails, TypeOK, PhaseType
<1>5. ASSUME NEW r \in Runs, WakesUp(r) PROVE TypeOK'
  <2>1. pos[r] \in Nat \ {0} /\ attempt[r] + 1 \in Nat
    BY DEF TypeOK
  <2>2. PhaseType'
    BY <1>5, <1>a, <2>1, StartAttemptType DEF WakesUp
  <2> QED BY <1>5, <2>2 DEF WakesUp, TypeOK, PhaseType
<1>6. ASSUME NEW r \in Runs, FallbackResolves(r) PROVE TypeOK'
  <2>1. ToCompensate(r) \in Attempts
    <3>1. completed[r] \in Seq(Attempts) /\ Len(undone[r]) + 1 \in 1 .. Len(completed[r])
      BY <1>6 DEF FallbackResolves, CompensationCounts, TypeOK
    <3> QED BY <3>1, ReverseElement DEF ToCompensate
  <2> QED BY <2>1, <1>6 DEF FallbackResolves, TypeOK, Ended
<1>7. ASSUME NEW r \in Runs, FallbackRejects(r) PROVE TypeOK'
  BY <1>7 DEF FallbackRejects, TypeOK, Ended, Errors
<1>8. ASSUME NEW a \in running, MainEffect(a) \/ LateSettles(a) PROVE TypeOK'
  BY <1>8 DEF MainEffect, LateSettles, TypeOK
<1>9. CASE AtRest
  BY <1>9 DEF AtRest, vars, TypeOK
<1> QED BY <1>1, <1>2, <1>3, <1>4, <1>5, <1>6, <1>7, <1>8, <1>9 DEF Next, RunStep

-----------------------------------------------------------------------------
(* Positions                                                                *)

(* A list is only ever extended at its end.                                 *)
ListsGrow == \A r \in Runs :
    /\ Len(ListOf(r)) <= Len(ListOf(r)')
    /\ \A p \in 1 .. Len(ListOf(r)) : ProcAt(r, p)' = ProcAt(r, p)

LEMMA StepListsGrow == ASSUME TypeOK, Next PROVE ListsGrow
<1> USE SagaAssumption
<1>1. CASE UNCHANGED procedures
  BY <1>1 DEF ListsGrow, ListOf, ProcAt, TypeOK
<1>2. ASSUME NEW r \in Runs, Execute(r) PROVE ListsGrow
  <2> SUFFICES ASSUME NEW q \in Runs
               PROVE  /\ Len(ListOf(q)) <= Len(ListOf(q)')
                      /\ \A p \in 1 .. Len(ListOf(q)) : ListOf(q)'[p] = ListOf(q)[p]
    BY DEF ListsGrow, ProcAt
  <2>1. ListOf(q) \in Seq(Procs) /\ Registered \in Seq(Procs)
    BY RegisteredType DEF TypeOK, ListOf
  <2>2. ListOf(q)' = ListOf(q) \/ ListOf(q)' = ListOf(q) \o Registered
    BY <1>2 DEF Execute, ListOf, TypeOK
  <2> QED BY <2>1, <2>2, ConcatProperties
<1>3. UNCHANGED procedures \/ \E r \in Runs : Execute(r)
  BY DEF Next, RunStep, MainResolves, MainRejects, TimeoutFires, AttemptFails, WakesUp,
     FallbackResolves, FallbackRejects, MainEffect, LateSettles, AtRest, vars
<1> QED BY <1>1, <1>2, <1>3

LEMMA StepPositionsListed ==
    ASSUME TypeOK, TypeOK', PositionsListed, Next
    PROVE  PositionsListed'
<1> USE SagaAssumption DEF PositionsListed
<1>l. ListsGrow /\ \A r \in Runs : Len(ListOf(r)) \in Nat /\ Len(ListOf(r)') \in Nat
  <2>1. \A r \in Runs : ListOf(r) \in Seq(Procs) /\ ListOf(r)' \in Seq(Procs)
    BY DEF TypeOK, ListOf
  <2> QED BY <2>1, StepListsGrow, LenProperties
<1>a. /\ running \cup applied \subseteq Attempts
      /\ \A a \in Attempts : a[1] \in Runs /\ a[2] \in Nat
      /\ \A r \in Runs : pos[r] \in Nat
  BY DEF TypeOK, Attempts
<1>m. \A a \in running \cup applied : a[2] <= Len(ListOf(a[1])')
  BY <1>l, <1>a DEF ListsGrow
<1>p. \A r \in Runs : pos[r] <= Len(ListOf(r)) => pos[r] <= Len(ListOf(r)')
  BY <1>l, <1>a DEF ListsGrow
<1>s. ASSUME NEW r \in Runs, NEW p \in Nat, NEW n \in Nat, NEW still \in SUBSET running,
             StartAttempt(r, p, n, still), p <= Len(ListOf(r)'), UNCHANGED applied
      PROVE  PositionsListed'
  <2>1. \A a \in running' \cup applied' : a = <<r, p, n>> \/ a \in running \cup applied
    BY <1>s DEF StartAttempt
  <2>2. \A q \in Runs : pos'[q] = IF q = r THEN p ELSE pos[q]
    BY <1>s DEF StartAttempt, TypeOK
  <2>3. \A q \in Runs : q # r => pc'[q] = pc[q]
    BY <1>s DEF StartAttempt, TypeOK
  <2> QED BY <1>s, <2>1, <2>2, <2>3, <1>m, <1>p
<1>e. ASSUME NEW r \in Runs, running' \subseteq running, UNCHANGED <<applied, pos>>,
             \A q \in Runs \ {r} : pc'[q] = pc[q],
             pc'[r] \in {"awaiting", "sleeping"} => pc[r] \in {"awaiting", "sleeping"}
      PROVE  PositionsListed'
  BY <1>e, <1>m, <1>p
<1>1. ASSUME NEW r \in Runs, Execute(r) PROVE PositionsListed'
  <2>1. ListOf(r)' = ListOf(r) \o Registered
    BY <1>1 DEF Execute, ListOf, TypeOK
  <2>2. CASE 1 <= Len(ListOf(r)') /\ StartAttempt(r, 1, 0, running)
    BY <1>1, <2>2, <1>s DEF Execute
  <2>3. CASE pc' = [pc EXCEPT ![r] = "returned"] /\ running' = running /\ UNCHANGED <<pos, attempt>>
    BY <1>1, <2>3, <1>e DEF Execute, TypeOK
  <2> QED BY <1>1, <2>1, <2>2, <2>3 DEF Execute, Iterate
<1>2. ASSUME NEW r \in Runs, MainResolves(r) PROVE PositionsListed'
  <2>1. UNCHANGED applied /\ ListOf(r)' = ListOf(r) /\ running \ {Awaited(r)} \in SUBSET running
    BY <1>2 DEF MainResolves, ListOf
  <2>2. CASE pos[r] + 1 <= Len(ListOf(r)) /\ StartAttempt(r, pos[r] + 1, 0, running \ {Awaited(r)})
    BY <2>1, <2>2, <1>s, <1>a
  <2>3. CASE pc' = [pc EXCEPT ![r] = "returned"] /\ running' = running \ {Awaited(r)} /\ UNCHANGED <<pos, attempt>>
    BY <2>1, <2>3, <1>e DEF TypeOK
  <2> QED BY <1>2, <2>2, <2>3 DEF MainResolves, Iterate
<1>f. ASSUME NEW r \in Runs, NEW why, NEW still \in SUBSET running,
             AttemptFails(r, why, still), pc[r] = "awaiting"
      PROVE  PositionsListed'
  <2>1. UNCHANGED <<applied, procedures>> /\ pos[r] <= Len(ListOf(r)')
    BY <1>f, <1>p DEF AttemptFails
  <2>2. CASE RetryNow(r, still)
    <3>1. StartAttempt(r, pos[r], attempt[r] + 1, still) /\ attempt[r] + 1 \in Nat
      BY <2>2 DEF RetryNow, TypeOK
    <3> QED BY <3>1, <2>1, <1>s, <1>a
  <2>3. CASE RetryLater(r, still) \/ GiveUp(r, still)
    BY <1>f, <2>1, <2>3, <1>e DEF RetryLater, GiveUp, TypeOK
  <2> QED BY <1>f, <2>2, <2>3 DEF AttemptFails
<1>3. ASSUME NEW r \in Runs, MainRejects(r) PROVE PositionsListed'
  BY <1>3, <1>f DEF MainRejects
<1>4. ASSUME NEW r \in Runs, TimeoutFires(r) PROVE PositionsListed'
  BY <1>4, <1>f DEF TimeoutFires
<1>5. ASSUME NEW r \in Runs, WakesUp(r) PROVE PositionsListed'
  <2>1. StartAttempt(r, pos[r], attempt[r] + 1, running) /\ attempt[r] + 1 \in Nat
    BY <1>5 DEF WakesUp, TypeOK
  <2> QED BY <1>5, <2>1, <1>s, <1>a, <1>p DEF WakesUp
<1>6. ASSUME NEW r \in Runs, FallbackResolves(r) \/ FallbackRejects(r) PROVE PositionsListed'
  BY <1>6, <1>e DEF FallbackResolves, FallbackRejects, TypeOK
<1>7. ASSUME NEW a \in running, MainEffect(a) \/ LateSettles(a) PROVE PositionsListed'
  BY <1>7, <1>m, <1>p DEF MainEffect, LateSettles
<1>8. CASE AtRest
  BY <1>8, <1>m, <1>p DEF AtRest, vars
<1> QED BY <1>1, <1>2, <1>3, <1>4, <1>5, <1>6, <1>7, <1>8 DEF Next, RunStep

-----------------------------------------------------------------------------
(* Compensation                                                             *)

(* Outside the compensating phase nothing is undone and no fallback is due. *)
LEMMA StepCompensation ==
    ASSUME TypeOK, TypeOK', CompensationCounts, CompensationOrder, Next
    PROVE  CompensationCounts' /\ CompensationOrder'
<1> DEFINE Counts(r) ==
            /\ pc[r] \notin {"compensating", "threw"} => undone[r] = <<>>
            /\ pc[r] = "compensating" => Len(undone[r]) < Len(completed[r])
           Order(r) ==
            /\ Len(undone[r]) <= Len(completed[r])
            /\ \A k \in 1 .. Len(undone[r]) :
                 undone[r][k] = completed[r][Len(completed[r]) - k + 1]
            /\ pc[r] = "threw" /\ error[r] # "fallback" => Len(undone[r]) = Len(completed[r])
<1> SUFFICES ASSUME NEW q \in Runs PROVE Counts(q)' /\ Order(q)'
  BY DEF CompensationCounts, CompensationOrder
<1>i. Counts(q) /\ Order(q)
  BY DEF CompensationCounts, CompensationOrder
<1>t. /\ completed[q] \in Seq(Attempts) /\ undone[q] \in Seq(Attempts)
      /\ Len(completed[q]) \in Nat /\ Len(undone[q]) \in Nat
  BY DEF TypeOK
<1>u. ASSUME UNCHANGED <<pc[q], completed[q], undone[q], error[q]>>
      PROVE  Counts(q)' /\ Order(q)'
  BY <1>u, <1>i
(* A step in a phase in which nothing is undone, to another such phase.     *)
<1>p. ASSUME undone[q] = <<>>, UNCHANGED undone[q],
             pc'[q] \in {"awaiting", "sleeping", "returned"},
             completed'[q] \in Seq(Attempts)
      PROVE  Counts(q)' /\ Order(q)'
  <2>1. Len(undone'[q]) = 0 /\ Len(completed'[q]) \in Nat
    BY <1>p
  <2> QED BY <2>1, <1>p
<1>1. ASSUME NEW r \in Runs, Execute(r) PROVE Counts(q)' /\ Order(q)'
  <2>1. CASE q = r
    <3>1. undone[q] = <<>>
      BY <1>1, <1>i, <2>1 DEF Execute
    <3>2. pc'[q] \in {"awaiting", "returned"}
      BY <1>1, <2>1 DEF Execute, Iterate, StartAttempt, TypeOK
    <3> QED BY <1>1, <1>t, <3>1, <3>2, <1>p DEF Execute
  <2>2. CASE q # r
    BY <1>1, <2>2, <1>u DEF Execute, Iterate, StartAttempt, TypeOK
  <2> QED BY <2>1, <2>2
<1>2. ASSUME NEW r \in Runs, MainResolves(r) PROVE Counts(q)' /\ Order(q)'
  <2>1. CASE q = r
    <3>1. undone[q] = <<>> /\ UNCHANGED undone[q]
      BY <1>2, <1>i, <2>1 DEF MainResolves
    <3>2. pc'[q] \in {"awaiting", "returned"}
      BY <1>2, <2>1 DEF MainResolves, Iterate, StartAttempt, TypeOK
    <3>3. completed'[q] \in Seq(Attempts)
      BY DEF TypeOK
    <3> QED BY <3>1, <3>2, <3>3, <1>p
  <2>2. CASE q # r
    BY <1>2, <2>2, <1>u DEF MainResolves, Iterate, StartAttempt, TypeOK
  <2> QED BY <2>1, <2>2
<1>f. ASSUME NEW r \in Runs, NEW why \in {"rejected", "timedOut"}, NEW still,
             AttemptFails(r, why, still), pc[r] = "awaiting"
      PROVE  Counts(q)' /\ Order(q)'
  <2>1. CASE q = r
    <3>1. undone[q] = <<>> /\ UNCHANGED <<undone, completed>>
      BY <1>f, <1>i, <2>1 DEF AttemptFails
    <3>2. CASE RetryNow(r, still) \/ RetryLater(r, still)
      <4>1. pc'[q] \in {"awaiting", "sleeping"}
        BY <2>1, <3>2 DEF RetryNow, RetryLater, StartAttempt, TypeOK
      <4> QED BY <4>1, <3>1, <1>t, <1>p
    <3>3. CASE GiveUp(r, still)
      <4>1. pc'[q] = IF completed[q] = <<>> THEN "threw" ELSE "compensating"
        BY <2>1, <3>3 DEF GiveUp, TypeOK
      <4>2. Len(undone'[q]) = 0 /\ completed'[q] = completed[q]
        BY <3>1
      <4>3. completed[q] = <<>> <=> Len(completed[q]) = 0
        BY <1>t, EmptySeq
      <4> QED BY <4>1, <4>2, <4>3, <1>t
    <3> QED BY <1>f, <3>2, <3>3 DEF AttemptFails
  <2>2. CASE q # r
    BY <1>f, <2>2, <1>u
    DEF AttemptFails, RetryNow, RetryLater, GiveUp, StartAttempt, TypeOK
  <2> QED BY <2>1, <2>2
<1>3. ASSUME NEW r \in Runs, MainRejects(r) PROVE Counts(q)' /\ Order(q)'
  BY <1>3, <1>f DEF MainRejects
<1>4. ASSUME NEW r \in Runs, TimeoutFires(r) PROVE Counts(q)' /\ Order(q)'
  BY <1>4, <1>f DEF TimeoutFires
<1>5. ASSUME NEW r \in Runs, WakesUp(r) PROVE Counts(q)' /\ Order(q)'
  <2>1. CASE q = r
    <3>1. undone[q] = <<>> /\ UNCHANGED <<undone, completed>> /\ pc'[q] = "awaiting"
      BY <1>5, <1>i, <2>1 DEF WakesUp, StartAttempt, TypeOK
    <3> QED BY <3>1, <1>t, <1>p
  <2>2. CASE q # r
    BY <1>5, <2>2, <1>u DEF WakesUp, StartAttempt, TypeOK
  <2> QED BY <2>1, <2>2
<1>6. ASSUME NEW r \in Runs, FallbackResolves(r) PROVE Counts(q)' /\ Order(q)'
  <2>1. CASE q = r
    <3> DEFINE n == Len(undone[q])
               c == completed[q]
    <3>1. pc[q] = "compensating" /\ n < Len(c) /\ n \in Nat /\ Len(c) \in Nat
      BY <1>6, <1>i, <1>t, <2>1 DEF FallbackResolves
    <3>2. ToCompensate(r) = c[Len(c) - (n + 1) + 1]
      <4>1. c \in Seq(Attempts) /\ n + 1 \in 1 .. Len(c)
        BY <3>1, <1>t
      <4>2. Reverse(c)[n + 1] = c[Len(c) - (n + 1) + 1]
        <5> HIDE DEF c, n
        <5> QED BY <4>1, ReverseElement
      <4> QED BY <2>1, <4>2 DEF ToCompensate
    <3>3. /\ undone'[q] = Append(undone[q], ToCompensate(r))
          /\ completed'[q] = c
          /\ pc'[q] = IF n + 1 < Len(c) THEN "compensating" ELSE "threw"
      BY <1>6, <2>1 DEF FallbackResolves, TypeOK
    <3>4. undone'[q] \in Seq(Attempts)
      BY DEF TypeOK
    <3>5. /\ Len(undone'[q]) = n + 1
          /\ undone'[q][n + 1] = ToCompensate(r)
          /\ \A k \in 1 .. n : undone'[q][k] = undone[q][k]
      BY <3>3, <1>t
    <3>6. \A k \in 1 .. n + 1 : undone'[q][k] = c[Len(c) - k + 1]
      <4> SUFFICES ASSUME NEW k \in 1 .. n + 1 PROVE undone'[q][k] = c[Len(c) - k + 1]
        OBVIOUS
      <4>1. CASE k = n + 1
        BY <4>1, <3>2, <3>5
      <4>2. CASE k \in 1 .. n
        BY <4>2, <3>5, <1>i
      <4> QED BY <4>1, <4>2, <3>1
    <3> QED BY <3>1, <3>3, <3>5, <3>6
  <2>2. CASE q # r
    BY <1>6, <2>2, <1>u DEF FallbackResolves, TypeOK
  <2> QED BY <2>1, <2>2
<1>7. ASSUME NEW r \in Runs, FallbackRejects(r) PROVE Counts(q)' /\ Order(q)'
  <2>1. CASE q = r
    BY <1>7, <2>1, <1>i DEF FallbackRejects, TypeOK
  <2>2. CASE q # r
    BY <1>7, <2>2, <1>u DEF FallbackRejects, TypeOK
  <2> QED BY <2>1, <2>2
<1>8. ASSUME NEW a \in running, MainEffect(a) \/ LateSettles(a)
      PROVE  Counts(q)' /\ Order(q)'
  BY <1>8, <1>u DEF MainEffect, LateSettles
<1>9. CASE AtRest
  BY <1>9, <1>u DEF AtRest, vars
<1> QED BY <1>1, <1>2, <1>3, <1>4, <1>5, <1>6, <1>7, <1>8, <1>9 DEF Next, RunStep

-----------------------------------------------------------------------------
(* Mains and their effects                                                  *)

(* The procedure of an attempt does not change when the list is extended.   *)
LEMMA StepExcuses ==
    ASSUME TypeOK, PositionsListed, Next, NEW a \in running \cup applied
    PROVE  /\ a[1] \in Runs
           /\ ProcAt(a[1], a[2])' = ProcAt(a[1], a[2])
           /\ Excused(a)' = Excused(a)
<1>1. a \in Attempts /\ a[1] \in Runs /\ a[2] \in Nat \ {0}
  BY DEF TypeOK, Attempts
<1>2. a[2] <= Len(ListOf(a[1]))
  BY DEF PositionsListed
<1>3. Len(ListOf(a[1])) \in Nat
  BY <1>1, SagaAssumption DEF TypeOK, ListOf
<1>4. a[2] \in 1 .. Len(ListOf(a[1]))
  BY <1>1, <1>2, <1>3
<1>5. ProcAt(a[1], a[2])' = ProcAt(a[1], a[2])
  BY <1>1, <1>4, StepListsGrow DEF ListsGrow
<1> QED BY <1>1, <1>5 DEF Excused

LEMMA StepOverlap ==
    ASSUME TypeOK, PositionsListed, OverlapOnlyAfterTimeout, Next
    PROVE  OverlapOnlyAfterTimeout'
<1> SUFFICES ASSUME NEW a \in running'
             PROVE  IsAwaited(a)' \/ HasTimeout[ProcAt(a[1], a[2])']
  BY DEF OverlapOnlyAfterTimeout
<1>a. ASSUME a \in running, HasTimeout[ProcAt(a[1], a[2])]
      PROVE  HasTimeout[ProcAt(a[1], a[2])']
  BY <1>a, StepExcuses
<1>b. a \in running => IsAwaited(a) \/ HasTimeout[ProcAt(a[1], a[2])]
  BY DEF OverlapOnlyAfterTimeout
<1>o. a \in running => a[1] \in Runs
  BY StepExcuses
<1>s. ASSUME NEW r \in Runs, NEW p, NEW n, NEW still,
             StartAttempt(r, p, n, still), a \notin still
      PROVE  IsAwaited(a)'
  BY <1>s DEF StartAttempt, IsAwaited, Awaited, TypeOK
(* A main that runs on although its call, r, has left it behind.            *)
<1>k. ASSUME NEW r \in Runs, a \in running,
             \A q \in Runs \ {r} : UNCHANGED <<pc[q], pos[q], attempt[q]>>,
             IsAwaited(a) /\ a[1] = r => HasTimeout[ProcAt(a[1], a[2])]
      PROVE  IsAwaited(a)' \/ HasTimeout[ProcAt(a[1], a[2])']
  BY <1>k, <1>a, <1>b, <1>o DEF IsAwaited, Awaited
<1>1. ASSUME NEW r \in Runs, Execute(r)
      PROVE  IsAwaited(a)' \/ HasTimeout[ProcAt(a[1], a[2])']
  <2>1. CASE a \in running
    BY <1>1, <2>1, <1>k DEF Execute, Iterate, StartAttempt, TypeOK, IsAwaited
  <2>2. CASE a \notin running
    BY <1>1, <2>2, <1>s DEF Execute, Iterate
  <2> QED BY <2>1, <2>2
<1>2. ASSUME NEW r \in Runs, MainResolves(r)
      PROVE  IsAwaited(a)' \/ HasTimeout[ProcAt(a[1], a[2])']
  <2>1. CASE a \in running \ {Awaited(r)}
    <3>1. ~(IsAwaited(a) /\ a[1] = r)
      BY <2>1 DEF IsAwaited
    <3>2. \A q \in Runs \ {r} : UNCHANGED <<pc[q], pos[q], attempt[q]>>
      BY <1>2 DEF MainResolves, Iterate, StartAttempt, TypeOK
    <3> QED BY <2>1, <3>1, <3>2, <1>k
  <2>2. CASE a \notin running \ {Awaited(r)}
    BY <1>2, <2>2, <1>s DEF MainResolves, Iterate
  <2> QED BY <2>1, <2>2
<1>f. ASSUME NEW r \in Runs, NEW why, NEW still \in SUBSET running,
             AttemptFails(r, why, still),
             a \in still /\ IsAwaited(a) /\ a[1] = r => HasTimeout[ProcAt(a[1], a[2])]
      PROVE  IsAwaited(a)' \/ HasTimeout[ProcAt(a[1], a[2])']
  <2>1. CASE a \in still
    <3>1. \A q \in Runs \ {r} : UNCHANGED <<pc[q], pos[q], attempt[q]>>
      BY <1>f DEF AttemptFails, RetryNow, RetryLater, GiveUp, StartAttempt, TypeOK
    <3> QED BY <1>f, <2>1, <3>1, <1>k
  <2>2. CASE a \notin still
    <3>1. CASE RetryNow(r, still)
      BY <2>2, <3>1, <1>s DEF RetryNow
    <3>2. CASE RetryLater(r, still) \/ GiveUp(r, still)
      BY <2>2, <3>2 DEF RetryLater, GiveUp
    <3> QED BY <1>f, <3>1, <3>2 DEF AttemptFails
  <2> QED BY <2>1, <2>2
<1>3. ASSUME NEW r \in Runs, MainRejects(r)
      PROVE  IsAwaited(a)' \/ HasTimeout[ProcAt(a[1], a[2])']
  <2>1. ~(a \in running \ {Awaited(r)} /\ IsAwaited(a) /\ a[1] = r)
    BY DEF IsAwaited
  <2> QED BY <1>3, <2>1, <1>f DEF MainRejects
<1>4. ASSUME NEW r \in Runs, TimeoutFires(r)
      PROVE  IsAwaited(a)' \/ HasTimeout[ProcAt(a[1], a[2])']
  <2>1. IsAwaited(a) /\ a[1] = r => HasTimeout[ProcAt(a[1], a[2])]
    BY <1>4 DEF TimeoutFires, IsAwaited, Awaited, Current
  <2> QED BY <1>4, <2>1, <1>f DEF TimeoutFires
<1>5. ASSUME NEW r \in Runs, WakesUp(r)
      PROVE  IsAwaited(a)' \/ HasTimeout[ProcAt(a[1], a[2])']
  <2>1. CASE a \in running
    BY <1>5, <2>1, <1>k DEF WakesUp, StartAttempt, TypeOK, IsAwaited
  <2>2. CASE a \notin running
    BY <1>5, <2>2, <1>s DEF WakesUp
  <2> QED BY <2>1, <2>2
<1>6. ASSUME NEW r \in Runs, FallbackResolves(r) \/ FallbackRejects(r)
      PROVE  IsAwaited(a)' \/ HasTimeout[ProcAt(a[1], a[2])']
  BY <1>6, <1>k DEF FallbackResolves, FallbackRejects, TypeOK, IsAwaited
<1>7. ASSUME UNCHANGED <<pc, pos, attempt>>, running' \subseteq running
      PROVE  IsAwaited(a)' \/ HasTimeout[ProcAt(a[1], a[2])']
  BY <1>7, <1>a, <1>b DEF IsAwaited, Awaited
<1>8. ASSUME NEW b \in running, MainEffect(b) \/ LateSettles(b)
      PROVE  IsAwaited(a)' \/ HasTimeout[ProcAt(a[1], a[2])']
  BY <1>8, <1>7 DEF MainEffect, LateSettles
<1>9. CASE AtRest
  BY <1>9, <1>7 DEF AtRest, vars
<1> QED BY <1>1, <1>2, <1>3, <1>4, <1>5, <1>6, <1>8, <1>9 DEF Next, RunStep

(* Every effect stays accounted for.                                        *)
LEMMA StepEffects ==
    ASSUME IInv, TypeOK', Next
    PROVE  EffectsAccounted'
<1> USE SagaAssumption
<1>i. /\ TypeOK /\ PositionsListed /\ OverlapOnlyAfterTimeout
      /\ \A a \in applied : IsAwaited(a) \/ a \in Range(completed[a[1]]) \/ Excused(a)
      /\ \A r \in Runs : Range(completed[r]) \subseteq {a \in applied : a[1] = r}
  BY DEF IInv, EffectsAccounted
<1>x. \A a \in running \cup applied : a[1] \in Runs /\ (Excused(a) => Excused(a)')
  BY <1>i, StepExcuses
(* A step of r that leaves effects and completed attempts as they are and   *)
(* stops waiting for an attempt only if its effect is excused.              *)
<1>k. ASSUME NEW r \in Runs, UNCHANGED <<completed, applied>>,
             \A q \in Runs \ {r} : UNCHANGED <<pc[q], pos[q], attempt[q]>>,
             \A a \in applied : IsAwaited(a) /\ a[1] = r => Excused(a)
      PROVE  EffectsAccounted'
  <2>1. ASSUME NEW a \in applied
        PROVE  IsAwaited(a)' \/ a \in Range(completed[a[1]]) \/ Excused(a)'
    <3>1. CASE IsAwaited(a) /\ a[1] # r
      BY <1>k, <1>x, <3>1 DEF IsAwaited, Awaited
    <3>2. CASE ~IsAwaited(a) \/ a[1] = r
      BY <1>i, <1>k, <1>x, <3>2
    <3> QED BY <3>1, <3>2
  <2> QED BY <1>i, <1>k, <2>1 DEF EffectsAccounted
<1>1. ASSUME NEW r \in Runs, Execute(r) PROVE EffectsAccounted'
  BY <1>1, <1>i, <1>k DEF Execute, Iterate, StartAttempt, TypeOK, IsAwaited
<1>2. ASSUME NEW r \in Runs, MainResolves(r) PROVE EffectsAccounted'
  <2>1. /\ Awaited(r) \in applied /\ applied' = applied
        /\ completed' = [completed EXCEPT ![r] = Append(@, Awaited(r))]
        /\ completed[r] \in Seq(Attempts) /\ Awaited(r) \in Attempts
    BY <1>2, <1>i DEF MainResolves, TypeOK
  <2>2. Range(completed'[r]) = Range(completed[r]) \cup {Awaited(r)}
    <3>1. completed'[r] = Append(completed[r], Awaited(r))
      BY <2>1, <1>i DEF TypeOK
    <3> QED BY <2>1, <3>1, AppendRange
  <2>3. \A q \in Runs \ {r} : UNCHANGED <<pc[q], pos[q], attempt[q], completed[q]>>
    BY <1>2, <1>i DEF MainResolves, Iterate, StartAttempt, TypeOK
  <2>4. ASSUME NEW a \in applied
        PROVE  IsAwaited(a)' \/ a \in Range(completed'[a[1]]) \/ Excused(a)'
    <3>1. CASE a[1] = r
      <4>1. IsAwaited(a) => a = Awaited(r)
        BY <3>1 DEF IsAwaited
      <4> QED BY <1>i, <1>x, <2>2, <3>1, <4>1
    <3>2. CASE a[1] # r
      BY <1>i, <1>x, <2>3, <3>2 DEF IsAwaited, Awaited
    <3> QED BY <3>1, <3>2
  <2>5. \A q \in Runs : Range(completed'[q]) \subseteq {a \in applied : a[1] = q}
    <3>1. Awaited(r)[1] = r
      BY DEF Awaited
    <3>2. Range(completed'[r]) \subseteq {a \in applied : a[1] = r}
      BY <1>i, <2>1, <2>2, <3>1
    <3>3. \A q \in Runs \ {r} : Range(completed'[q]) = Range(completed[q])
      BY <2>3
    <3> QED BY <1>i, <3>2, <3>3
  <2> QED BY <2>1, <2>4, <2>5 DEF EffectsAccounted
<1>f. ASSUME NEW r \in Runs, NEW why, NEW still, AttemptFails(r, why, still),
             \A a \in applied : IsAwaited(a) /\ a[1] = r => Excused(a)
      PROVE  EffectsAccounted'
  <2>1. /\ UNCHANGED <<completed, applied>>
        /\ \A q \in Runs \ {r} : UNCHANGED <<pc[q], pos[q], attempt[q]>>
    BY <1>f, <1>i DEF AttemptFails, RetryNow, RetryLater, GiveUp, StartAttempt, TypeOK
  <2> QED BY <1>f, <2>1, <1>k
<1>3. ASSUME NEW r \in Runs, MainRejects(r) PROVE EffectsAccounted'
  <2>1. \A a \in applied : IsAwaited(a) /\ a[1] = r => Excused(a)
    BY <1>3 DEF MainRejects, IsAwaited, Excused
  <2> QED BY <1>3, <2>1, <1>f DEF MainRejects
<1>4. ASSUME NEW r \in Runs, TimeoutFires(r) PROVE EffectsAccounted'
  <2>1. \A a \in applied : IsAwaited(a) /\ a[1] = r => Excused(a)
    BY <1>4 DEF TimeoutFires, IsAwaited, Awaited, Current, Excused
  <2> QED BY <1>4, <2>1, <1>f DEF TimeoutFires
<1>5. ASSUME NEW r \in Runs, WakesUp(r) PROVE EffectsAccounted'
  BY <1>5, <1>i, <1>k DEF WakesUp, StartAttempt, TypeOK, IsAwaited
<1>6. ASSUME NEW r \in Runs, FallbackResolves(r) \/ FallbackRejects(r)
      PROVE  EffectsAccounted'
  BY <1>6, <1>i, <1>k DEF FallbackResolves, FallbackRejects, TypeOK, IsAwaited
<1>u. ASSUME UNCHANGED <<pc, pos, attempt, completed>>,
             \A a \in applied' : a \in applied \/ IsAwaited(a) \/ Excused(a)',
             applied \subseteq applied'
      PROVE  EffectsAccounted'
  BY <1>u, <1>i, <1>x DEF EffectsAccounted, IsAwaited, Awaited
<1>7. ASSUME NEW b \in running, MainEffect(b) PROVE EffectsAccounted'
  <2>1. IsAwaited(b) \/ Excused(b)
    BY <1>i DEF OverlapOnlyAfterTimeout, Excused
  <2> QED BY <1>7, <1>u, <1>x, <2>1 DEF MainEffect
<1>8. ASSUME NEW b \in running, LateSettles(b) PROVE EffectsAccounted'
  BY <1>8, <1>u DEF LateSettles
<1>9. CASE AtRest
  BY <1>9, <1>u DEF AtRest, vars
<1> QED BY <1>1, <1>2, <1>3, <1>4, <1>5, <1>6, <1>7, <1>8, <1>9 DEF Next, RunStep

-----------------------------------------------------------------------------
(* Tries                                                                    *)

(* A call that waits, for a main or for a delay, is at the position behind  *)
(* its completed ones and has tries left while it sleeps.                   *)
TriesInTurn == \A r \in Runs :
    /\ pc[r] = "idle" => completed[r] = <<>>
    /\ pc[r] \in {"awaiting", "sleeping"} =>
         pos[r] = Len(completed[r]) + 1 /\ attempt[r] <= Retries[Current(r)]
    /\ pc[r] = "sleeping" => attempt[r] < Retries[Current(r)]

TriesInv == TriesInTurn /\ TriesAreBoundedAndOrdered

(* Every step leaves the tries bounded and in order.                        *)
LEMMA StepTries ==
    ASSUME IInv, TypeOK', TriesInv, Next
    PROVE  TriesInv'
<1> USE SagaAssumption
<1>i. TypeOK /\ PositionsListed /\ TriesInTurn /\ TriesAreBoundedAndOrdered
  BY DEF IInv, TriesInv
<1>t. \A r \in Runs : /\ completed[r] \in Seq(Attempts) /\ Len(completed[r]) \in Nat
                      /\ completed'[r] \in Seq(Attempts) /\ Len(completed'[r]) \in Nat
                      /\ pos[r] \in Nat \ {0} /\ attempt[r] \in Nat
  BY <1>i DEF TypeOK
<1>x. \A a \in running \cup applied :
        a \in Attempts /\ a[1] \in Runs /\ ProcAt(a[1], a[2])' = ProcAt(a[1], a[2])
  BY <1>i, StepExcuses DEF TypeOK
<1>c. ASSUME NEW r \in Runs, pc[r] \in {"awaiting", "sleeping"}
      PROVE  ListOf(r)'[pos[r]] = Current(r) /\ Retries[Current(r)] \in Nat
  <2>1. pos[r] \in 1 .. Len(ListOf(r)) /\ ListOf(r) \in Seq(Procs)
    BY <1>c, <1>i, <1>t DEF PositionsListed, TypeOK, ListOf
  <2>2. ListOf(r)'[pos[r]] = ListOf(r)[pos[r]]
    BY <2>1, <1>i, StepListsGrow DEF ListsGrow, ProcAt
  <2> QED BY <2>1, <2>2 DEF Current, ProcAt
(* What a step of r has to keep to.                                         *)
<1>g. ASSUME NEW r \in Runs,
             \A q \in Runs \ {r} : UNCHANGED <<pc[q], pos[q], attempt[q], completed[q]>>,
             \A a \in running' \cup applied' :
                \/ a \in running \cup applied
                \/ a = <<r, pos'[r], attempt'[r]>> /\ pc'[r] = "awaiting",
             applied \subseteq applied', Len(completed[r]) <= Len(completed'[r]),
             \A p \in 1 .. Len(completed'[r]) :
                completed'[r][p][2] = p /\ completed'[r][p] \in applied',
             pc'[r] # "idle",
             pc'[r] \in {"awaiting", "sleeping"} =>
                /\ pos'[r] = Len(completed'[r]) + 1
                /\ attempt'[r] <= Retries[ListOf(r)'[pos'[r]]],
             pc'[r] = "sleeping" => attempt'[r] < Retries[ListOf(r)'[pos'[r]]]
      PROVE  TriesInv'
  <2>1. TriesInTurn'
    <3> SUFFICES ASSUME NEW q \in Runs
                 PROVE  /\ pc'[q] = "idle" => completed'[q] = <<>>
                        /\ pc'[q] \in {"awaiting", "sleeping"} =>
                             /\ pos'[q] = Len(completed'[q]) + 1
                             /\ attempt'[q] <= Retries[ListOf(q)'[pos'[q]]]
                        /\ pc'[q] = "sleeping" => attempt'[q] < Retries[ListOf(q)'[pos'[q]]]
      BY DEF TriesInTurn, Current, ProcAt
    <3>1. CASE q = r
      BY <3>1, <1>g
    <3>2. CASE q # r
      <4>1. UNCHANGED <<pc[q], pos[q], attempt[q], completed[q]>>
        BY <3>2, <1>g
      <4> QED BY <4>1, <1>c, <1>i DEF TriesInTurn
    <3> QED BY <3>1, <3>2
  <2>2. ASSUME NEW a \in running' \cup applied'
        PROVE  a[3] <= Retries[ProcAt(a[1], a[2])'] /\ a[2] <= Len(completed'[a[1]]) + 1
    <3>1. CASE a \in running \cup applied
      <4>1. a[3] <= Retries[ProcAt(a[1], a[2])] /\ a[2] <= Len(completed[a[1]]) + 1
        BY <3>1, <1>i DEF TriesAreBoundedAndOrdered
      <4>2. Len(completed[a[1]]) <= Len(completed'[a[1]])
        <5>1. a[1] \in Runs
          BY <3>1, <1>x
        <5>2. CASE a[1] = r
          BY <5>2, <1>g
        <5>3. CASE a[1] # r
          BY <5>1, <5>3, <1>g, <1>t
        <5> QED BY <5>2, <5>3
      <4>3. a[2] \in Nat
        BY <3>1, <1>x DEF Attempts
      <4> QED BY <3>1, <4>1, <4>2, <4>3, <1>x, <1>t
    <3>2. CASE a = <<r, pos'[r], attempt'[r]>> /\ pc'[r] = "awaiting"
      <4>1. a[1] = r /\ a[2] = pos'[r] /\ a[3] = attempt'[r]
        BY <3>2
      <4> QED BY <3>2, <4>1, <1>g, <1>t DEF ProcAt
    <3> QED BY <1>g, <3>1, <3>2
  <2>3. ASSUME NEW q \in Runs, NEW p \in 1 .. Len(completed'[q])
        PROVE  completed'[q][p][2] = p /\ completed'[q][p] \in applied'
    <3>1. CASE q = r
      BY <2>3, <3>1, <1>g
    <3>2. CASE q # r
      <4>1. completed'[q] = completed[q]
        BY <3>2, <1>g
      <4> QED BY <2>3, <4>1, <1>g, <1>i DEF TriesAreBoundedAndOrdered
    <3> QED BY <3>1, <3>2
  <2> QED BY <2>1, <2>2, <2>3 DEF TriesInv, TriesAreBoundedAndOrdered
<1>o. \A r \in Runs : \A p \in 1 .. Len(completed[r]) :
        completed[r][p][2] = p /\ completed[r][p] \in applied
  BY <1>i DEF TriesAreBoundedAndOrdered
<1>1. ASSUME NEW r \in Runs, Execute(r) PROVE TriesInv'
  <2>1. completed[r] = <<>> /\ Len(completed[r]) = 0 /\ UNCHANGED <<completed, applied>>
    BY <1>1, <1>i DEF Execute, TriesInTurn
  <2>2. \A q \in Runs \ {r} : UNCHANGED <<pc[q], pos[q], attempt[q], completed[q]>>
    BY <1>1, <1>i DEF Execute, Iterate, StartAttempt, TypeOK
  <2>3. CASE 1 <= Len(ListOf(r) \o Registered) /\ StartAttempt(r, 1, 0, running)
    <3>1. pc'[r] = "awaiting" /\ pos'[r] = 1 /\ attempt'[r] = 0 /\ running' = running \cup {<<r, 1, 0>>}
      BY <2>3, <1>i DEF StartAttempt, TypeOK
    <3>2. ListOf(r)' = ListOf(r) \o Registered /\ ListOf(r)' \in Seq(Procs)
      BY <1>1, <1>i DEF Execute, ListOf, TypeOK
    <3>3. Retries[ListOf(r)'[1]] \in Nat
      BY <2>3, <3>2, ElementOfSeq
    <3> QED BY <2>1, <2>2, <3>1, <3>3, <1>g
  <2>4. CASE pc' = [pc EXCEPT ![r] = "returned"] /\ running' = running
    <3>1. pc'[r] = "returned"
      BY <2>4, <1>i DEF TypeOK
    <3> QED BY <2>1, <2>2, <2>4, <3>1, <1>g
  <2> QED BY <1>1, <2>3, <2>4 DEF Execute, Iterate
<1>2. ASSUME NEW r \in Runs, MainResolves(r) PROVE TriesInv'
  <2> DEFINE c == completed[r]
  <2>1. /\ Awaited(r) \in applied /\ Awaited(r) \in Attempts /\ pos[r] = Len(c) + 1
        /\ completed'[r] = Append(c, Awaited(r)) /\ UNCHANGED <<applied, procedures>>
    BY <1>2, <1>i DEF MainResolves, TriesInTurn, TypeOK
  <2>2. \A q \in Runs \ {r} : UNCHANGED <<pc[q], pos[q], attempt[q], completed[q]>>
    BY <1>2, <1>i DEF MainResolves, Iterate, StartAttempt, TypeOK
  <2>3. /\ Len(completed'[r]) = Len(c) + 1 /\ completed'[r][Len(c) + 1] = Awaited(r)
        /\ \A p \in 1 .. Len(c) : completed'[r][p] = c[p]
    BY <2>1, <1>t, AppendProperties
  <2>4. \A p \in 1 .. Len(completed'[r]) : completed'[r][p][2] = p /\ completed'[r][p] \in applied'
    <3> SUFFICES ASSUME NEW p \in 1 .. Len(completed'[r])
                 PROVE  completed'[r][p][2] = p /\ completed'[r][p] \in applied'
      OBVIOUS
    <3>1. CASE p = Len(c) + 1
      BY <3>1, <2>1, <2>3 DEF Awaited
    <3>2. CASE p \in 1 .. Len(c)
      BY <3>2, <2>1, <2>3, <1>o
    <3> QED BY <3>1, <3>2, <2>3, <1>t
  <2>l. Len(c) <= Len(completed'[r]) /\ applied \subseteq applied'
    BY <2>1, <2>3, <1>t
  <2>5. CASE pos[r] + 1 <= Len(ListOf(r)) /\ StartAttempt(r, pos[r] + 1, 0, running \ {Awaited(r)})
    <3>1. /\ pc'[r] = "awaiting" /\ pos'[r] = pos[r] + 1 /\ attempt'[r] = 0
          /\ running' \subseteq running \cup {<<r, pos'[r], attempt'[r]>>}
      BY <2>5, <1>i DEF StartAttempt, TypeOK
    <3>2. ListOf(r)' = ListOf(r) /\ ListOf(r) \in Seq(Procs)
      BY <2>1, <1>i DEF ListOf, TypeOK
    <3>3. Retries[ListOf(r)'[pos'[r]]] \in Nat
      BY <2>5, <3>1, <3>2, <1>t, ElementOfSeq
    <3>4. pos'[r] = Len(completed'[r]) + 1 /\ attempt'[r] <= Retries[ListOf(r)'[pos'[r]]]
      BY <2>1, <2>3, <3>1, <3>3
    <3>5. \A a \in running' \cup applied' :
            a \in running \cup applied \/ a = <<r, pos'[r], attempt'[r]>>
      BY <2>1, <3>1
    <3> QED BY <2>2, <2>4, <2>l, <3>1, <3>4, <3>5, <1>g
  <2>6. CASE pc' = [pc EXCEPT ![r] = "returned"] /\ running' = running \ {Awaited(r)}
    <3>1. pc'[r] = "returned"
      BY <2>6, <1>i DEF TypeOK
    <3>2. running' \cup applied' \subseteq running \cup applied
      BY <2>1, <2>6
    <3> QED BY <2>2, <2>4, <2>l, <3>1, <3>2, <1>g
  <2> QED BY <1>2, <2>5, <2>6 DEF MainResolves, Iterate
<1>f. ASSUME NEW r \in Runs, NEW why, NEW still \in SUBSET running,
             AttemptFails(r, why, still), pc[r] = "awaiting"
      PROVE  TriesInv'
  <2>1. /\ UNCHANGED <<completed, applied, procedures>>
        /\ \A q \in Runs \ {r} : UNCHANGED <<pc[q], pos[q], attempt[q], completed[q]>>
    BY <1>f, <1>i DEF AttemptFails, RetryNow, RetryLater, GiveUp, StartAttempt, TypeOK
  <2>2. /\ pos[r] = Len(completed[r]) + 1 /\ ListOf(r)'[pos[r]] = Current(r)
        /\ Retries[Current(r)] \in Nat
    BY <1>f, <1>c, <1>i DEF TriesInTurn
  <2>3. CASE RetryNow(r, still)
    <3>1. /\ pc'[r] = "awaiting" /\ pos'[r] = pos[r] /\ attempt'[r] = attempt[r] + 1
          /\ attempt[r] < Retries[Current(r)] /\ running' = still \cup {<<r, pos'[r], attempt'[r]>>}
      BY <2>3, <1>i DEF RetryNow, StartAttempt, TypeOK
    <3> QED BY <2>1, <2>2, <3>1, <1>o, <1>g, <1>t
  <2>4. CASE RetryLater(r, still)
    <3>1. /\ pc'[r] = "sleeping" /\ UNCHANGED <<pos, attempt>> /\ running' = still
          /\ attempt[r] < Retries[Current(r)]
      BY <2>4, <1>i DEF RetryLater, TypeOK
    <3> QED BY <2>1, <2>2, <3>1, <1>o, <1>g, <1>t
  <2>5. CASE GiveUp(r, still)
    <3>1. pc'[r] \in {"threw", "compensating"} /\ running' = still
      BY <2>5, <1>i DEF GiveUp, TypeOK
    <3> QED BY <2>1, <3>1, <1>o, <1>g, <1>t
  <2> QED BY <1>f, <2>3, <2>4, <2>5 DEF AttemptFails
<1>3. ASSUME NEW r \in Runs, MainRejects(r) PROVE TriesInv'
  BY <1>3, <1>f DEF MainRejects
<1>4. ASSUME NEW r \in Runs, TimeoutFires(r) PROVE TriesInv'
  BY <1>4, <1>f DEF TimeoutFires
<1>5. ASSUME NEW r \in Runs, WakesUp(r) PROVE TriesInv'
  <2>1. /\ UNCHANGED <<completed, applied>>
        /\ \A q \in Runs \ {r} : UNCHANGED <<pc[q], pos[q], attempt[q], completed[q]>>
    BY <1>5, <1>i DEF WakesUp, StartAttempt, TypeOK
  <2>2. /\ pc'[r] = "awaiting" /\ pos'[r] = pos[r] /\ attempt'[r] = attempt[r] + 1
        /\ running' = running \cup {<<r, pos'[r], attempt'[r]>>}
    BY <1>5, <1>i DEF WakesUp, StartAttempt, TypeOK
  <2>3. /\ pos[r] = Len(completed[r]) + 1 /\ ListOf(r)'[pos[r]] = Current(r)
        /\ attempt[r] < Retries[Current(r)] /\ Retries[Current(r)] \in Nat
    BY <1>5, <1>c, <1>i DEF TriesInTurn, WakesUp
  <2>4. /\ pos'[r] = Len(completed'[r]) + 1 /\ attempt'[r] <= Retries[ListOf(r)'[pos'[r]]]
        /\ Len(completed[r]) <= Len(completed'[r])
    BY <2>1, <2>2, <2>3, <1>t
  <2>5. \A a \in running' \cup applied' :
          a \in running \cup applied \/ a = <<r, pos'[r], attempt'[r]>>
    BY <2>1, <2>2
  <2> QED BY <2>1, <2>2, <2>4, <2>5, <1>o, <1>g
<1>6. ASSUME NEW r \in Runs, FallbackResolves(r) \/ FallbackRejects(r) PROVE TriesInv'
  <2>1. /\ UNCHANGED <<completed, applied, running>> /\ pc'[r] \in {"threw", "compensating"}
        /\ \A q \in Runs \ {r} : UNCHANGED <<pc[q], pos[q], attempt[q], completed[q]>>
    BY <1>6, <1>i DEF FallbackResolves, FallbackRejects, TypeOK
  <2> QED BY <2>1, <1>o, <1>g, <1>t
<1>u. ASSUME UNCHANGED <<procedures, pc, pos, attempt, completed>>,
             running' \cup applied' \subseteq running \cup applied, applied \subseteq applied'
      PROVE  TriesInv'
  BY <1>u, <1>i DEF TriesInv, TriesInTurn, TriesAreBoundedAndOrdered, Current, ProcAt, ListOf
<1>7. ASSUME NEW a \in running, MainEffect(a) \/ LateSettles(a) PROVE TriesInv'
  BY <1>7, <1>u DEF MainEffect, LateSettles
<1>8. CASE AtRest
  BY <1>8, <1>u DEF AtRest, vars
<1> QED BY <1>1, <1>2, <1>3, <1>4, <1>5, <1>6, <1>7, <1>8 DEF Next, RunStep

-----------------------------------------------------------------------------
(* Theorems                                                                 *)

LEMMA NextIInv == IInv /\ [Next]_vars => IInv'
<1> SUFFICES ASSUME IInv, [Next]_vars PROVE IInv'
  OBVIOUS
<1>1. CASE Next
  <2>1. TypeOK'
    BY <1>1, StepType DEF IInv
  <2> QED BY <1>1, <2>1, StepPositionsListed, StepCompensation, StepOverlap, StepEffects DEF IInv
<1>2. CASE UNCHANGED vars
  BY <1>2 DEF vars, IInv, TypeOK, PositionsListed, CompensationCounts, CompensationOrder,
     OverlapOnlyAfterTimeout, EffectsAccounted, ListOf, ProcAt, IsAwaited, Awaited, Excused
<1> QED BY <1>1, <1>2

(* The invariant holds throughout.                                          *)
THEOREM Invariance == Spec => []IInv
BY InitIInv, NextIInv, PTL DEF Spec

(* Every variable of execute() keeps its type.                              *)
THEOREM TypeCorrect == Spec => []TypeOK
<1>1. IInv => TypeOK
  BY DEF IInv
<1> QED BY <1>1, Invariance, PTL

(* Only a timeout lets a main run on beside what its call does next.        *)
THEOREM Overlap == Spec => []OverlapOnlyAfterTimeout
<1>1. IInv => OverlapOnlyAfterTimeout
  BY DEF IInv
<1> QED BY <1>1, Invariance, PTL

(* Fallbacks run in reverse, and all of them before the error is rethrown.  *)
THEOREM Compensation == Spec => []CompensatesInReverse
<1>1. IInv => CompensatesInReverse
  <2> SUFFICES ASSUME IInv, NEW r \in Runs
               PROVE  /\ Len(undone[r]) <= Len(completed[r])
                      /\ undone[r] = SubSeq(Reverse(completed[r]), 1, Len(undone[r]))
                      /\ undone[r] # <<>> => pc[r] \in {"compensating", "threw"}
                      /\ pc[r] = "threw" /\ error[r] # "fallback"
                           => Len(undone[r]) = Len(completed[r])
    BY DEF CompensatesInReverse
  <2> DEFINE u == undone[r]
             c == completed[r]
  <2>1. u \in Seq(Attempts) /\ c \in Seq(Attempts) /\ Len(u) \in Nat /\ Len(c) \in Nat
    BY DEF IInv, TypeOK
  <2>2. Len(u) <= Len(c) /\ \A k \in 1 .. Len(u) : u[k] = c[Len(c) - k + 1]
    BY DEF IInv, CompensationOrder
  <2>3. u = SubSeq(Reverse(c), 1, Len(u))
    <3> HIDE DEF u, c
    <3>1. Reverse(c) = [i \in 1 .. Len(c) |-> c[Len(c) - i + 1]]
      BY DEF Reverse
    <3>2. \A i \in 1 .. Len(c) : Len(c) - i + 1 \in 1 .. Len(c)
      BY <2>1
    <3>3. Reverse(c) \in Seq(Attempts) /\ Len(Reverse(c)) = Len(c)
      BY <2>1, <3>1, <3>2, ElementOfSeq
    <3>4. /\ SubSeq(Reverse(c), 1, Len(u)) \in Seq(Attempts)
          /\ Len(SubSeq(Reverse(c), 1, Len(u))) = Len(u)
          /\ \A k \in 1 .. Len(u) : SubSeq(Reverse(c), 1, Len(u))[k] = Reverse(c)[k]
      BY <2>1, <2>2, <3>3, SubSeqProperties
    <3>5. \A k \in 1 .. Len(u) : Reverse(c)[k] = u[k]
      BY <2>1, <2>2, <3>1
    <3> QED BY <2>1, <3>4, <3>5, SeqEqual
  <2> QED BY <2>2, <2>3 DEF IInv, CompensationOrder, CompensationCounts
<1> QED BY <1>1, Invariance, PTL

(* A call ends with all of its effects or with none, except for the effects *)
(* the orchestrator cannot know of.                                         *)
THEOREM Atomicity == Spec => []AllOrNothing
<1>1. IInv => AllOrNothing
  <2> SUFFICES ASSUME IInv, NEW r \in Runs
               PROVE  /\ pc[r] = "returned" =>
                           /\ Range(completed[r]) \subseteq Net(r)
                           /\ \A a \in Net(r) \ Range(completed[r]) : Excused(a)
                      /\ pc[r] = "threw" /\ error[r] # "fallback" =>
                           \A a \in Net(r) : Excused(a)
    BY DEF AllOrNothing
  <2>1. \A a \in applied : a[1] = r /\ pc[r] # "awaiting" =>
            a \in Range(completed[r]) \/ Excused(a)
    BY DEF IInv, EffectsAccounted, IsAwaited
  <2>2. ASSUME pc[r] = "returned"
        PROVE  Range(completed[r]) \subseteq Net(r)
    <3>1. Range(undone[r]) = {}
      BY <2>2 DEF IInv, CompensationCounts, Range
    <3>2. Range(completed[r]) \subseteq {a \in applied : a[1] = r}
      BY DEF IInv, EffectsAccounted
    <3> QED BY <3>1, <3>2 DEF Net
  <2>3. ASSUME pc[r] = "threw", error[r] # "fallback"
        PROVE  Range(completed[r]) \subseteq Range(undone[r])
    <3> DEFINE u == undone[r]
               c == completed[r]
    <3>1. /\ Len(u) = Len(c) /\ Len(c) \in Nat
          /\ \A k \in 1 .. Len(u) : u[k] = c[Len(c) - k + 1]
          /\ DOMAIN u = 1 .. Len(u) /\ DOMAIN c = 1 .. Len(c)
      BY <2>3 DEF IInv, TypeOK, CompensationOrder
    <3> SUFFICES ASSUME NEW i \in 1 .. Len(c) PROVE c[i] \in Range(u)
      BY <3>1 DEF Range
    <3>2. Len(c) - i + 1 \in 1 .. Len(u) /\ u[Len(c) - i + 1] = c[i]
      <4> HIDE DEF u, c
      <4> QED BY <3>1
    <3> QED BY <3>1, <3>2 DEF Range
  <2> QED BY <2>1, <2>2, <2>3 DEF Net
<1> QED BY <1>1, Invariance, PTL

(* What the tries rest on holds throughout.                                 *)
LEMMA TriesInvariance == Spec => []TriesInv
<1>1. Init => TriesInv
  BY DEF Init, TriesInv, TriesInTurn, TriesAreBoundedAndOrdered
<1>2. IInv /\ IInv' /\ TriesInv /\ [Next]_vars => TriesInv'
  <2>1. IInv /\ IInv' /\ TriesInv /\ Next => TriesInv'
    BY StepTries DEF IInv
  <2>2. TriesInv /\ UNCHANGED vars => TriesInv'
    BY DEF vars, TriesInv, TriesInTurn, TriesAreBoundedAndOrdered, Current, ProcAt, ListOf
  <2> QED BY <2>1, <2>2
<1> QED BY Invariance, <1>1, <1>2, PTL DEF Spec

(* No procedure is tried too often, or before those ahead of it have their  *)
(* effects.                                                                 *)
THEOREM Tries == Spec => []TriesAreBoundedAndOrdered
<1>1. TriesInv => TriesAreBoundedAndOrdered
  BY DEF TriesInv
<1> QED BY TriesInvariance, <1>1, PTL

=============================================================================
