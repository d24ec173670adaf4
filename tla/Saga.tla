-------------------------------- MODULE Saga --------------------------------
(* ProcedureOrchestrator.execute(): procedures run in order, each with      *)
(* retries, a delay between them and a timeout per attempt; when one gives  *)
(* up, the fallbacks of the completed ones run in reverse order.            *)
(*                                                                          *)
(* The code between two awaits runs without interruption, so an action is   *)
(* what happens from the settling of the awaited promise to the next await. *)
(* A main use case is external: it takes its effect at some moment of its   *)
(* execution, then settles, or hangs.                                       *)
EXTENDS Naturals, Sequences, SequencesExt

CONSTANTS
    Runs,              \* the calls of execute()
    Instances,         \* the orchestrator objects the container hands out
    InstanceOf,        \* the object each call is made on
    NumProcs,          \* how many procedures build() registers
    Retries,           \* options.retries of each procedure
    HasTimeout,        \* whether options.timeoutMs is set (and not 0)
    HasDelay,          \* whether options.retryDelayMs is set (and not 0)
    PartialRejects,    \* a main may take its effect and then reject
    FallbacksMayFail   \* a fallback may reject

Procs == 1 .. NumProcs

ASSUME SagaAssumption ==
    /\ NumProcs \in Nat
    /\ InstanceOf \in [Runs -> Instances]
    /\ Retries \in [Procs -> Nat]
    /\ HasTimeout \in [Procs -> BOOLEAN]
    /\ HasDelay \in [Procs -> BOOLEAN]
    /\ PartialRejects \in BOOLEAN
    /\ FallbacksMayFail \in BOOLEAN

VARIABLES
    procedures,  \* procedures[i]: the list this.procedures of object i
    pc,          \* where each call of execute() stands
    pos,         \* the list position the for..of iteration is at
    attempt,     \* the retry counter of the procedure at pos
    completed,   \* the winning attempts so far; their patches are the context
    undone,      \* the attempts whose fallback has resolved
    error,       \* what the call holds in lastErr, or throws
    running,     \* the attempts whose main has not settled
    applied      \* the attempts whose main has taken its effect

vars == <<procedures, pc, pos, attempt, completed, undone, error, running, applied>>

Ended == {"returned", "threw"}
Errors == {"none", "rejected", "timedOut", "fallback"}

(* An attempt is a call, a list position and a retry number.                *)
Attempts == Runs \X (Nat \ {0}) \X Nat

TypeOK ==
    /\ procedures \in [Instances -> Seq(Procs)]
    /\ pc \in [Runs -> {"idle", "awaiting", "sleeping", "compensating"} \cup Ended]
    /\ pos \in [Runs -> Nat \ {0}]
    /\ attempt \in [Runs -> Nat]
    /\ completed \in [Runs -> Seq(Attempts)]
    /\ undone \in [Runs -> Seq(Attempts)]
    /\ error \in [Runs -> Errors]
    /\ running \subseteq Attempts
    /\ applied \subseteq Attempts

ListOf(r) == procedures[InstanceOf[r]]
ProcAt(r, p) == ListOf(r)[p]
Current(r) == ProcAt(r, pos[r])
Awaited(r) == <<r, pos[r], attempt[r]>>
IsAwaited(a) == pc[a[1]] = "awaiting" /\ a = Awaited(a[1])

(* build() as its subclasses write it: one push per procedure.              *)
Registered == [i \in Procs |-> i]

(* Mutant: the list is read from index 0.                                   *)
InitAtZero ==
    /\ procedures = [i \in Instances |-> <<>>]
    /\ pc = [r \in Runs |-> "idle"]
    /\ pos = [r \in Runs |-> 0]
    /\ attempt = [r \in Runs |-> 0]
    /\ completed = [r \in Runs |-> <<>>]
    /\ undone = [r \in Runs |-> <<>>]
    /\ error = [r \in Runs |-> "none"]
    /\ running = {}
    /\ applied = {}

Init ==
    /\ procedures = [i \in Instances |-> <<>>]
    /\ pc = [r \in Runs |-> "idle"]
    /\ pos = [r \in Runs |-> 1]
    /\ attempt = [r \in Runs |-> 0]
    /\ completed = [r \in Runs |-> <<>>]
    /\ undone = [r \in Runs |-> <<>>]
    /\ error = [r \in Runs |-> "none"]
    /\ running = {}
    /\ applied = {}

-----------------------------------------------------------------------------
(* The pieces of code that continuations share. `still` is what runs on     *)
(* when the continuation is reached.                                        *)

StartAttempt(r, p, n, still) ==
    /\ pc' = [pc EXCEPT ![r] = "awaiting"]
    /\ pos' = [pos EXCEPT ![r] = p]
    /\ attempt' = [attempt EXCEPT ![r] = n]
    /\ running' = still \cup {<<r, p, n>>}

(* The for..of iteration asks the live list for the element at p.           *)
Iterate(r, p, list, still) ==
    \/ /\ p <= Len(list)
       /\ StartAttempt(r, p, 0, still)
    \/ /\ p > Len(list)
       /\ pc' = [pc EXCEPT ![r] = "returned"]
       /\ running' = still
       /\ UNCHANGED <<pos, attempt>>

RetryLater(r, still) ==
    /\ attempt[r] < Retries[Current(r)] /\ HasDelay[Current(r)]
    /\ pc' = [pc EXCEPT ![r] = "sleeping"]
    /\ running' = still
    /\ UNCHANGED <<pos, attempt>>

(* Mutant: one retry too many.                                              *)
RetryOnceMore(r, still) ==
    /\ attempt[r] <= Retries[Current(r)] /\ ~HasDelay[Current(r)]
    /\ StartAttempt(r, pos[r], attempt[r] + 1, still)

RetryNow(r, still) ==
    /\ attempt[r] < Retries[Current(r)] /\ ~HasDelay[Current(r)]
    /\ StartAttempt(r, pos[r], attempt[r] + 1, still)

(* Mutant: the error is thrown before any fallback runs.                    *)
ThrowAtOnce(r, still) ==
    /\ attempt[r] >= Retries[Current(r)]
    /\ pc' = [pc EXCEPT ![r] = "threw"]
    /\ running' = still
    /\ UNCHANGED <<pos, attempt>>

(* No attempt is left: the first fallback starts, or the error is thrown.   *)
GiveUp(r, still) ==
    /\ attempt[r] >= Retries[Current(r)]
    /\ pc' = [pc EXCEPT ![r] = IF completed[r] = <<>> THEN "threw" ELSE "compensating"]
    /\ running' = still
    /\ UNCHANGED <<pos, attempt>>

AttemptFails(r, why, still) ==
    /\ error' = [error EXCEPT ![r] = why]
    /\ RetryLater(r, still) \/ RetryNow(r, still) \/ GiveUp(r, still)
    /\ UNCHANGED <<procedures, completed, undone, applied>>

(* Mutant: completed is not reversed.                                       *)
ToCompensateInOrder(r) == completed[r][Len(undone[r]) + 1]

(* The attempt whose fallback the loop over completed.reverse() runs now.   *)
ToCompensate(r) == Reverse(completed[r])[Len(undone[r]) + 1]

-----------------------------------------------------------------------------

Execute(r) ==
    LET list == ListOf(r) \o Registered IN
    /\ pc[r] = "idle"
    /\ procedures' = [procedures EXCEPT ![InstanceOf[r]] = list]
    /\ Iterate(r, 1, list, running)
    /\ UNCHANGED <<completed, undone, error, applied>>

(* A main takes its effect, whether or not its saga still waits for it.     *)
MainEffect(a) ==
    /\ a \in running \ applied
    /\ applied' = applied \cup {a}
    /\ UNCHANGED <<procedures, pc, pos, attempt, completed, undone, error, running>>

(* The awaited main resolves: its patch is merged, the iteration goes on.   *)
MainResolves(r) ==
    /\ pc[r] = "awaiting" /\ Awaited(r) \in running \cap applied
    /\ completed' = [completed EXCEPT ![r] = Append(@, Awaited(r))]
    /\ Iterate(r, pos[r] + 1, ListOf(r), running \ {Awaited(r)})
    /\ UNCHANGED <<procedures, undone, error, applied>>

MainRejects(r) ==
    /\ pc[r] = "awaiting" /\ Awaited(r) \in running
    /\ PartialRejects \/ Awaited(r) \notin applied
    /\ AttemptFails(r, "rejected", running \ {Awaited(r)})

(* Mutant: a timer also runs for a procedure without timeoutMs.             *)
TimeoutAlwaysFires(r) ==
    /\ pc[r] = "awaiting"
    /\ AttemptFails(r, "timedOut", running)

(* The timer wins the race; nothing stops the main.                         *)
TimeoutFires(r) ==
    /\ pc[r] = "awaiting" /\ HasTimeout[Current(r)]
    /\ AttemptFails(r, "timedOut", running)

(* A main nobody waits for any more settles; the race swallows the result.  *)
LateSettles(a) ==
    /\ a \in running /\ ~IsAwaited(a)
    /\ running' = running \ {a}
    /\ UNCHANGED <<procedures, pc, pos, attempt, completed, undone, error, applied>>

(* Mutant: the retry after the delay does not count.                        *)
WakesUpUncounted(r) ==
    /\ pc[r] = "sleeping"
    /\ StartAttempt(r, pos[r], attempt[r], running)
    /\ UNCHANGED <<procedures, completed, undone, error, applied>>

WakesUp(r) ==
    /\ pc[r] = "sleeping"
    /\ StartAttempt(r, pos[r], attempt[r] + 1, running)
    /\ UNCHANGED <<procedures, completed, undone, error, applied>>

FallbackResolves(r) ==
    /\ pc[r] = "compensating"
    /\ undone' = [undone EXCEPT ![r] = Append(@, ToCompensate(r))]
    /\ pc' = [pc EXCEPT ![r] = IF Len(undone[r]) + 1 < Len(completed[r])
                               THEN "compensating" ELSE "threw"]
    /\ UNCHANGED <<procedures, pos, attempt, completed, error, running, applied>>

(* Mutant: the loop ends at a rejecting fallback, but lastErr is thrown.    *)
FallbackRejectsSilently(r) ==
    /\ pc[r] = "compensating" /\ FallbacksMayFail
    /\ pc' = [pc EXCEPT ![r] = "threw"]
    /\ UNCHANGED <<procedures, pos, attempt, completed, undone, error, running, applied>>

(* The rejection leaves execute() in place of lastErr, from inside the loop.*)
FallbackRejects(r) ==
    /\ pc[r] = "compensating" /\ FallbacksMayFail
    /\ error' = [error EXCEPT ![r] = "fallback"]
    /\ pc' = [pc EXCEPT ![r] = "threw"]
    /\ UNCHANGED <<procedures, pos, attempt, completed, undone, running, applied>>

(* Every call has ended and every main has settled.                         *)
AtRest ==
    /\ running = {} /\ \A r \in Runs : pc[r] \in Ended
    /\ UNCHANGED vars

RunStep(r) ==
    \/ Execute(r) \/ MainResolves(r) \/ MainRejects(r) \/ TimeoutFires(r)
    \/ WakesUp(r) \/ FallbackResolves(r) \/ FallbackRejects(r)

Next ==
    \/ \E r \in Runs : RunStep(r)
    \/ \E a \in running : MainEffect(a) \/ LateSettles(a)
    \/ AtRest

Spec == Init /\ [][Next]_vars

(* Timers fire. Nothing bounds a use case: a main or a fallback may hang.    *)
Fairness == \A r \in Runs : WF_vars(TimeoutFires(r)) /\ WF_vars(WakesUp(r))

FairSpec == Spec /\ Fairness

-----------------------------------------------------------------------------
(* Safety                                                                   *)

(* Fallbacks run latest first and, unless one of them fails, all of them    *)
(* have run by the time the procedure's own error is rethrown: undone is    *)
(* always an initial part of completed reversed, and the whole of it when   *)
(* execute() throws anything but a fallback's error (lines 97-101).         *)
CompensatesInReverse == \A r \in Runs :
    /\ Len(undone[r]) <= Len(completed[r])
    /\ undone[r] = SubSeq(Reverse(completed[r]), 1, Len(undone[r]))
    /\ undone[r] # <<>> => pc[r] \in {"compensating", "threw"}
    /\ pc[r] = "threw" /\ error[r] # "fallback" => Len(undone[r]) = Len(completed[r])

(* The effects a call has in the world and has not taken back.              *)
Net(r) == {a \in applied : a[1] = r} \ Range(undone[r])

(* An effect the orchestrator cannot know of: of an attempt it timed out,   *)
(* or that rejected after taking it.                                        *)
Excused(a) == HasTimeout[ProcAt(a[1], a[2])] \/ PartialRejects

(* A call that returned has one counted effect per element of the list it   *)
(* iterated; a call that rethrew a procedure's error has none; anything     *)
(* beyond that comes from an attempt that timed out or rejected halfway.    *)
AllOrNothing == \A r \in Runs :
    /\ pc[r] = "returned" =>
         /\ Range(completed[r]) \subseteq Net(r)
         /\ \A a \in Net(r) \ Range(completed[r]) : Excused(a)
    /\ pc[r] = "threw" /\ error[r] # "fallback" => \A a \in Net(r) : Excused(a)

(* Two mains of one call overlap, or a main overlaps with compensation or   *)
(* outlives its call, only when a timeout made the call stop waiting.       *)
OverlapOnlyAfterTimeout == \A a \in running :
    IsAwaited(a) \/ HasTimeout[ProcAt(a[1], a[2])]

(* No procedure is tried more than retries + 1 times, and none before each  *)
(* earlier position of the list has a winning attempt with its effect.      *)
TriesAreBoundedAndOrdered ==
    /\ \A a \in running \cup applied :
         /\ a[3] <= Retries[ProcAt(a[1], a[2])]
         /\ a[2] <= Len(completed[a[1]]) + 1
    /\ \A r \in Runs : \A p \in 1 .. Len(completed[r]) :
         completed[r][p][2] = p /\ completed[r][p] \in applied

-----------------------------------------------------------------------------
(* What the documentation says                                              *)

(* The class comment says registered procedures run in order against a      *)
(* shared context (ProcedureOrchestrator.ts:39-43): one registration, one   *)
(* run. It fails when execute() is called twice on one object.              *)
RunsEachProcedureOnce == \A r \in Runs :
    \A i, j \in 1 .. Len(completed[r]) : ProcAt(r, i) = ProcAt(r, j) => i = j

-----------------------------------------------------------------------------
(* Liveness                                                                 *)

(* What execute() awaits without a timeout: a main without timeoutMs, and   *)
(* every fallback (line 99).                                                *)
WaitsUntimed(r) ==
    \/ pc[r] = "awaiting" /\ ~HasTimeout[Current(r)]
    \/ pc[r] = "compensating"

(* A call that started ends, unless it waits for ever on one of those. In   *)
(* particular a main with a timeout may hang without harm (withTimeout,     *)
(* lines 26-37), and retries and delays come to an end.                     *)
EveryCallEnds == \A r \in Runs :
    \/ <>[](pc[r] = "idle")
    \/ <>(pc[r] \in Ended)
    \/ <>[]WaitsUntimed(r)

-----------------------------------------------------------------------------
(* Refinement. With one call per object, no timeouts, mains that reject     *)
(* only without an effect and fallbacks that resolve, execute() is atomic.  *)

Effects == [r \in Runs |-> {a[2] : a \in Net(r)}]
Outcomes == [r \in Runs |->
    CASE pc[r] = "returned" -> "committed"
      [] pc[r] = "threw" -> "aborted"
      [] pc[r] = "compensating" -> "failing"
      [] OTHER -> "pending"]

Promise == INSTANCE AtomicSaga WITH net <- Effects, outcome <- Outcomes

(* Every behaviour of execute() is one of the abstract saga's.              *)
IsAtomic == Promise!ASpec

=============================================================================
