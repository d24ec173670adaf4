---------------------------- MODULE MCRequests ----------------------------
EXTENDS Requests, TLC

CONSTANTS before, call1, call2, request1, ann, bob, secret1, secret2

SomeCalls == {before, call1, call2}
TwoUsers == {ann, bob}
TwoPasswords == {secret1, secret2}
AroundFive == {0, 5, 6}
SomeRequests == {request1}
AuthThenAudit == <<"auth", "audit">>
Alike == Permutations({call1, call2})
=============================================================================
