--------------------------- MODULE SecretsClient ---------------------------
(* OpenBaoClient and its plugin: one login() as the server starts, then      *)
(* get() and put() of handlers with the token of that login.  The token is   *)
(* issued for an hour and nothing renews it.                                 *)

VARIABLES
    login,   \* OpenBaoPlugin.onStart(): "none", "failed" or "done"
    lease    \* external: the token's

secretsVars == <<login, lease>>
SecretsInit == login = "none" /\ lease = "none"

Login ==
    /\ login = "none"
    /\ \/ login' = "done" /\ lease' = "live"
       \/ login' = "failed" /\ lease' = "none"
LeaseExpires == lease = "live" /\ lease' = "expired" /\ UNCHANGED login

(* get() and put(): a 403 rejects; a value, a 404 and a 204 resolve *)
Answer == IF lease = "live" THEN "ok" ELSE "error"
=============================================================================
