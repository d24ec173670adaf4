------------------------------- MODULE MCSaga -------------------------------
(* Small sagas for TLC: two or three procedures, two calls.                 *)
EXTENDS Saga

CONSTANTS q1, q2, shared

TwoCalls == {q1, q2}
OwnObjects == [r \in Runs |-> r]
SharedObject == [r \in Runs |-> shared]

RetriesOf3 == <<1, 0, 2>>
RetriesOf2 == <<0, 1>>
NeverTimed3 == <<FALSE, FALSE, FALSE>>
NeverTimed2 == <<FALSE, FALSE>>
SecondTimed2 == <<FALSE, TRUE>>
ThirdDelayed3 == <<FALSE, FALSE, TRUE>>
SecondDelayed2 == <<FALSE, TRUE>>
NeverDelayed2 == <<FALSE, FALSE>>

=============================================================================
