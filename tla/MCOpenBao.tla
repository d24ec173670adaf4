----------------------------- MODULE MCOpenBao ------------------------------
(* Three attempts to initialise and two to provision; data lost once.       *)
EXTENDS OpenBao, TLC

CONSTANTS init1, init2, init3, auth1, auth2

ThreeInitPods == {init1, init2, init3}
TwoAuthPods == {auth1, auth2}
PodsAlike == Permutations(ThreeInitPods) \cup Permutations(TwoAuthPods)

=============================================================================
