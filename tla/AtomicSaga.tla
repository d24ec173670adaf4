----------------------------- MODULE AtomicSaga -----------------------------
(* What an orchestrated saga promises its caller: the effects of its        *)
(* procedures appear in order, they are taken back in the opposite order    *)
(* once it fails, and the call ends with all of them or with none.          *)
EXTENDS Naturals

CONSTANTS
    Runs,       \* the calls of execute()
    NumProcs    \* the procedures a saga registers

VARIABLES
    net,        \* net[r]: the procedures whose effect is in place
    outcome     \* outcome[r]: "pending", "failing", "committed" or "aborted"

avars == <<net, outcome>>

AInit == /\ net = [r \in Runs |-> {}]
         /\ outcome = [r \in Runs |-> "pending"]

(* The next procedure of a saga that has not failed takes its effect.       *)
Forward(r) == \E n \in 1 .. NumProcs :
    /\ outcome[r] = "pending"
    /\ net[r] = 1 .. n - 1
    /\ net' = [net EXCEPT ![r] = 1 .. n]
    /\ UNCHANGED outcome

(* The latest effect is taken back; the call reports the failure with the   *)
(* step that takes back the first one.                                      *)
Backward(r) == \E n \in 1 .. NumProcs :
    /\ outcome[r] = "failing"
    /\ net[r] = 1 .. n
    /\ net' = [net EXCEPT ![r] = 1 .. n - 1]
    /\ outcome' = [outcome EXCEPT ![r] = IF n = 1 THEN "aborted" ELSE "failing"]

Commit(r) == /\ outcome[r] = "pending"
             /\ net[r] = 1 .. NumProcs
             /\ outcome' = [outcome EXCEPT ![r] = "committed"]
             /\ UNCHANGED net

(* The saga fails: for good when nothing is in place, otherwise it turns to *)
(* taking its effects back.                                                 *)
GiveUp(r) == /\ outcome[r] = "pending"
             /\ outcome' = [outcome EXCEPT ![r] =
                              IF net[r] = {} THEN "aborted" ELSE "failing"]
             /\ UNCHANGED net

ANext == \E r \in Runs : Forward(r) \/ Backward(r) \/ Commit(r) \/ GiveUp(r)

ASpec == AInit /\ [][ANext]_avars

=============================================================================
