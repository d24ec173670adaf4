------------------------------ MODULE OpenBao -------------------------------
(* The jobs that initialise, unseal and provision OpenBao: attempts of      *)
(* init.sh and k8s-auth-provision.sh, at most one command at a time each,   *)
(* but beside each other, beside restarts and beside the loss of the data.  *)
(* The scripts run under `set -e` without pipefail: a command that fails at *)
(* the head of a pipeline, in an `if` or before `|| true` fails unnoticed.  *)
EXTENDS Naturals, FiniteSets

CONSTANTS
    InitPods,   \* attempts of the job openbao-init
    AuthPods,   \* attempts of the job openbao-k8s-auth-provision
    MaxInits,   \* bound: times OpenBao starts from no data
    Threshold   \* -key-threshold

ASSUME OpenBaoAssumption ==
    /\ InitPods \cap AuthPods = {}
    /\ MaxInits \in Nat \ {0} /\ Threshold \in Nat \ {0}

Pods == InitPods \cup AuthPods
Nothing == 0
Blank == MaxInits + 1           \* written, with nothing in it
Inits == 1 .. MaxInits          \* each `bao operator init` makes its own keys
Shares == Inits \X (1 .. Threshold)

VARIABLES
    keys,       \* the keys OpenBao is initialised with, Nothing if it is not
    used,       \* the last Inits used
    sealed, progress,
    auth, kv, policy, role,   \* the mounts, the accessor in the policy, the role
    secret,     \* the keys in the secret openbao-init
    pc,
    held,       \* /tmp/init.json, or the token in BAO_TOKEN
    share,      \* the unseal loop's index
    unnoticed   \* history: pods that missed a failure or a change of state

bao == <<keys, used, sealed, progress>>
grants == <<auth, kv, policy, role>>
vars == <<bao, grants, secret, pc, held, share, unnoticed>>

InitSteps == {"status", "init", "lookup", "store", "fetch", "seal", "unseal"}
AuthSteps == {"unsealed", "token", "auth", "config", "kv", "policy", "role"}
Active(p) == pc[p] \in InitSteps \cup AuthSteps

TypeOK ==
    /\ keys \in Inits \cup {Nothing} /\ used \in 0 .. MaxInits /\ keys <= used
    /\ sealed \in BOOLEAN /\ progress \subseteq Shares /\ Cardinality(progress) < Threshold
    /\ auth \in Inits \cup {Nothing} /\ kv \in BOOLEAN /\ role \in BOOLEAN
    /\ policy \in Inits \cup {Nothing, Blank} /\ secret \in Inits \cup {Nothing, Blank}
    /\ pc \in [Pods -> InitSteps \cup AuthSteps \cup {"new", "done", "refused", "failed"}]
    /\ \A p \in InitPods : pc[p] \notin AuthSteps
    /\ \A p \in AuthPods : pc[p] \notin InitSteps \cup {"refused"}
    /\ held \in [Pods -> Inits \cup {Nothing, Blank}]
    /\ share \in [InitPods -> 1 .. Threshold]
    /\ unnoticed \subseteq Pods

Init ==
    /\ keys = Nothing /\ used = 0 /\ sealed = TRUE /\ progress = {}
    /\ auth = Nothing /\ kv = FALSE /\ policy = Nothing /\ role = FALSE
    /\ secret = Nothing
    /\ pc = [p \in Pods |-> "new"] /\ held = [p \in Pods |-> Nothing]
    /\ share = [p \in InitPods |-> 1]
    /\ unnoticed = {}

-----------------------------------------------------------------------------
(* OpenBao and the cluster                                                  *)

ActivePods == {p \in Pods : Active(p)}

(* OpenBao's pod restarts: it comes up sealed.                              *)
Restart ==
    /\ keys # Nothing
    /\ sealed' = TRUE /\ progress' = {}
    /\ unnoticed' = unnoticed \cup ActivePods
    /\ UNCHANGED <<keys, used, grants, secret, pc, held, share>>

(* Its volume is lost; the secret is not.                                   *)
LoseData ==
    /\ keys # Nothing /\ used < MaxInits
    /\ keys' = Nothing /\ sealed' = TRUE /\ progress' = {}
    /\ auth' = Nothing /\ kv' = FALSE /\ policy' = Nothing /\ role' = FALSE
    /\ unnoticed' = unnoticed \cup ActivePods
    /\ UNCHANGED <<used, secret, pc, held, share>>

(* A command that `set -e` sees fail ends the pod, and so does an eviction. *)
Fails(p) ==
    /\ Active(p)
    /\ pc' = [pc EXCEPT ![p] = "failed"]
    /\ UNCHANGED <<bao, grants, secret, held, share, unnoticed>>

-----------------------------------------------------------------------------
(* init.sh                                                                  *)

Goes(p, to) == pc' = [pc EXCEPT ![p] = to]
Holds(p, what) == held' = [held EXCEPT ![p] = what]
Notices == UNCHANGED unnoticed
Misses(p) == unnoticed' = unnoticed \cup {p}

(* The health endpoint answers.                                             *)
StartInit(p) ==
    /\ pc[p] = "new" /\ Goes(p, "status")
    /\ Notices /\ UNCHANGED <<bao, grants, secret, held, share>>

(* A status that cannot be read counts as not initialised.                  *)
ReadInitialized(p) ==
    /\ pc[p] = "status"
    /\ \/ Goes(p, IF keys = Nothing THEN "init" ELSE "fetch") /\ Notices
       \/ Goes(p, "init") /\ Misses(p)
    /\ UNCHANGED <<bao, grants, secret, held, share>>

(* `bao operator init | tr`: refused where there are keys; and its output   *)
(* may be lost, with or without effect.                                     *)
OperatorInit(p) ==
    /\ pc[p] = "init" /\ Goes(p, "lookup")
    /\ \/ /\ keys = Nothing /\ used < MaxInits
          /\ used' = used + 1 /\ keys' = used + 1
          /\ \/ Holds(p, used + 1) /\ Notices
             \/ Holds(p, Nothing) /\ Misses(p)
       \/ Holds(p, Nothing) /\ Misses(p) /\ UNCHANGED <<keys, used>>
    /\ UNCHANGED <<sealed, progress, grants, secret, share>>

(* A lookup that fails counts as no secret.                                 *)
LookUp(p) ==
    /\ pc[p] = "lookup"
    /\ \/ Goes(p, IF secret = Nothing THEN "store" ELSE "refused") /\ Notices
       \/ Goes(p, "store") /\ Misses(p)
    /\ UNCHANGED <<bao, grants, secret, held, share>>

(* Mutant: the exit status of the POST is ignored.                          *)
StoreUnchecked(p) ==
    /\ pc[p] = "store"
    /\ secret' = IF secret # Nothing THEN secret ELSE IF held[p] = Nothing THEN Blank ELSE held[p]
    /\ Goes(p, "seal")
    /\ Notices /\ UNCHANGED <<bao, grants, held, share>>

(* The API server creates the secret or answers 409; what it has created    *)
(* stays if its answer is lost.                                             *)
Store(p) ==
    /\ pc[p] = "store" /\ secret = Nothing
    /\ secret' = IF held[p] = Nothing THEN Blank ELSE held[p]
    /\ \E to \in {"seal", "failed"} : Goes(p, to)
    /\ Notices /\ UNCHANGED <<bao, grants, held, share>>

(* `wget | grep | cut | base64 -d`: empty if any of it fails.               *)
Fetch(p) ==
    /\ pc[p] = "fetch" /\ Goes(p, "seal")
    /\ \/ Holds(p, secret) /\ Notices
       \/ Holds(p, Nothing) /\ Misses(p)
    /\ UNCHANGED <<bao, grants, secret, share>>

(* A status that cannot be read counts as unsealed.                         *)
ReadSealed(p) ==
    /\ pc[p] = "seal"
    /\ \/ Goes(p, IF sealed THEN "unseal" ELSE "done") /\ Notices
       \/ Goes(p, "done") /\ Misses(p)
    /\ UNCHANGED <<bao, grants, secret, held, share>>

(* `bao operator unseal`: the share that completes a set opens OpenBao or,  *)
(* where the set is not of its keys, is refused and the set discarded.      *)
Submit(p) ==
    LET all == progress \cup {<<held[p], share[p]>>}
        opens == \A s \in all : s[1] = keys
    IN  /\ held[p] \in Inits /\ keys # Nothing
        /\ IF ~sealed THEN UNCHANGED <<sealed, progress>>
           ELSE IF Cardinality(all) < Threshold THEN progress' = all /\ UNCHANGED sealed
           ELSE progress' = {} /\ sealed' = ~opens
        /\ Goes(p, IF sealed /\ Cardinality(all) = Threshold /\ ~opens THEN "failed"
                   ELSE IF share[p] < Threshold THEN "unseal" ELSE "done")
        /\ unnoticed' = IF pc'[p] = "failed" THEN unnoticed \cup ActivePods ELSE unnoticed
        /\ share' = IF pc'[p] = "unseal" THEN [share EXCEPT ![p] = @ + 1] ELSE share

(* Mutant: the loop has one iteration too few.                              *)
UnsealOneShort(p) ==
    /\ pc[p] = "unseal" /\ held[p] \in Inits /\ keys # Nothing
    /\ Goes(p, IF share[p] < Threshold - 1 THEN "unseal" ELSE "done")
    /\ share' = [share EXCEPT ![p] = IF @ < Threshold THEN @ + 1 ELSE @]
    /\ progress' = IF sealed THEN progress \cup {<<held[p], share[p]>>} ELSE progress
    /\ Notices /\ UNCHANGED <<keys, used, sealed, grants, secret, held>>

(* Mutant: and this one has one too many.                                   *)
UnsealOneMore(p) ==
    /\ pc[p] = "unseal" /\ held[p] \in Inits /\ keys # Nothing
    /\ Goes(p, IF share[p] <= Threshold THEN "unseal" ELSE "done")
    /\ share' = [share EXCEPT ![p] = IF @ <= Threshold THEN @ + 1 ELSE @]
    /\ Notices /\ UNCHANGED <<bao, grants, secret, held>>

Unseal(p) ==
    /\ pc[p] = "unseal" /\ Submit(p)
    /\ UNCHANGED <<keys, used, grants, secret, held>>

InitStep(p) ==
    \/ StartInit(p) \/ ReadInitialized(p) \/ OperatorInit(p) \/ LookUp(p)
    \/ Store(p) \/ Fetch(p) \/ ReadSealed(p) \/ Unseal(p)

-----------------------------------------------------------------------------
(* k8s-auth-provision.sh                                                    *)

(* OpenBao obeys a token of its own keys, unsealed.                         *)
Obeys(p) == ~sealed /\ keys # Nothing /\ held[p] = keys

(* Hooks of lower weight are over before the job is created.                *)
StartAuth(p) ==
    /\ pc[p] = "new" /\ \E q \in InitPods : pc[q] = "done"
    /\ Goes(p, "unsealed")
    /\ Notices /\ UNCHANGED <<bao, grants, secret, held, share>>

(* `until bao status`: it succeeds only unsealed.                           *)
SeesUnsealed(p) ==
    /\ pc[p] = "unsealed" /\ ~sealed
    /\ Goes(p, "token")
    /\ Notices /\ UNCHANGED <<bao, grants, secret, held, share>>

FetchToken(p) ==
    /\ pc[p] = "token" /\ Goes(p, "auth")
    /\ \/ Holds(p, secret) /\ Notices
       \/ Holds(p, Nothing) /\ Misses(p)
    /\ UNCHANGED <<bao, grants, secret, share>>

(* `bao auth enable kubernetes || true`                                     *)
EnableAuth(p) ==
    /\ pc[p] = "auth" /\ Goes(p, "config")
    /\ \/ Obeys(p) /\ auth' = keys /\ Notices
       \/ UNCHANGED auth /\ Misses(p)
    /\ UNCHANGED <<bao, kv, policy, role, secret, held, share>>

WriteConfig(p) ==
    /\ pc[p] = "config" /\ Obeys(p) /\ auth # Nothing
    /\ Goes(p, "kv")
    /\ Notices /\ UNCHANGED <<bao, grants, secret, held, share>>

(* `bao secrets enable || true`                                             *)
EnableKv(p) ==
    /\ pc[p] = "kv" /\ Goes(p, "policy")
    /\ \/ Obeys(p) /\ kv' = TRUE /\ Notices
       \/ UNCHANGED kv /\ Misses(p)
    /\ UNCHANGED <<bao, auth, policy, role, secret, held, share>>

(* Mutant: the accessor of the first install, hardcoded.                    *)
WritePolicyFixed(p) ==
    /\ pc[p] = "policy" /\ Obeys(p) /\ Goes(p, "role")
    /\ policy' = 1
    /\ Notices /\ UNCHANGED <<bao, auth, kv, role, secret, held, share>>

(* The policy names the mount's accessor, or none if the pipeline that      *)
(* reads it failed: sed takes the empty string as well.                     *)
WritePolicy(p) ==
    /\ pc[p] = "policy" /\ Obeys(p) /\ Goes(p, "role")
    /\ \/ policy' = auth /\ Notices
       \/ policy' = Blank /\ Misses(p)
    /\ UNCHANGED <<bao, auth, kv, role, secret, held, share>>

WriteRole(p) ==
    /\ pc[p] = "role" /\ Obeys(p) /\ Goes(p, "done")
    /\ role' = TRUE
    /\ Notices /\ UNCHANGED <<bao, auth, kv, policy, secret, held, share>>

AuthStep(p) ==
    \/ StartAuth(p) \/ SeesUnsealed(p) \/ FetchToken(p) \/ EnableAuth(p) \/ WriteConfig(p)
    \/ EnableKv(p) \/ WritePolicy(p) \/ WriteRole(p)

-----------------------------------------------------------------------------

Next ==
    \/ Restart \/ LoseData
    \/ \E p \in InitPods : InitStep(p)
    \/ \E p \in AuthPods : AuthStep(p)
    \/ \E p \in Pods : Fails(p)

Spec == Init /\ [][Next]_vars

-----------------------------------------------------------------------------
(* Properties                                                               *)

(* OpenBao is open only if its next restart can be undone: the secret has   *)
(* the keys it is initialised with (init.sh:20-53), whatever attempts fail  *)
(* or overlap and whatever failure goes unnoticed.                          *)
UnsealedIsRecoverable == keys # Nothing /\ ~sealed => secret = keys

(* An attempt of the init job that ends well leaves OpenBao open, unless a  *)
(* failure, a restart or a refused share escaped it (init.sh:46-53).        *)
InitDoneMeansUnsealed ==
    [][\A p \in InitPods :
         pc[p] # "done" /\ pc'[p] = "done" /\ p \notin unnoticed' => ~sealed']_vars

(* Once an attempt of the provisioning job has ended well with nothing      *)
(* missed, and while the data lasts, servers log in and the policy covers   *)
(* their paths (k8s-auth-provision.sh:21-70), unless a later one missed a   *)
(* failure.                                                                 *)
ProvisionedMeansAccess ==
    (\E p \in AuthPods : pc[p] = "done" /\ p \notin unnoticed /\ held[p] = keys) =>
        /\ role /\ kv /\ auth = keys
        /\ policy = auth \/ \E p \in AuthPods : p \in unnoticed

(* What a refusing attempt says, that OpenBao reports itself uninitialised  *)
(* and awaits a review (init.sh:28), is true when it says it.               *)
RefusalLeavesItUninitialised ==
    [][\A p \in InitPods : pc[p] # "refused" /\ pc'[p] = "refused" => keys = Nothing]_vars

=============================================================================
