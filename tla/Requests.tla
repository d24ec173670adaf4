------------------------------ MODULE Requests ------------------------------
(* The request path, the Authentik client whose tokens it checks and the     *)
(* secrets its handlers read, side by side.  The client's calls are made by  *)
(* handlers too: by others, once the drivers listen.                         *)
EXTENDS RequestPath

vars == <<clientVars, secretsVars, pathVars>>

Init == ClientInit /\ SecretsInit /\ PathInit

(* nothing is left to answer, to sign in or to log out *)
Quiet ==
    /\ \/ login = "failed"
       \/ (\A c \in Calls : At(c, "ended")) /\ (\A r \in Requests : In(r, "ended"))
    /\ UNCHANGED vars

Next ==
    \/ Listening /\ ClientNext /\ UNCHANGED <<secretsVars, pathVars>>
    \/ (Login \/ LeaseExpires) /\ UNCHANGED <<clientVars, pathVars>>
    \/ PathNext
    \/ Quiet

Spec == Init /\ [][Next]_vars

TypeOK ==
    /\ ClientTypeOK /\ PathTypeOK
    /\ login \in {"none", "failed", "done"} /\ lease \in {"none", "live", "expired"}
=============================================================================
