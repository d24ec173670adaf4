-------------------------- MODULE AuthentikClient --------------------------
(***************************************************************************)
(* AuthentikClient: signIn(), logout() and enroll()/createUser(), each a    *)
(* sequence of requests, called by handlers that run side by side.  What     *)
(* Authentik keeps (accounts, login sessions, tokens) is external.  Either    *)
(* side of a request may be lost: it fails before Authentik acts or after.   *)
(***************************************************************************)
EXTENDS Naturals, FiniteSets

CONSTANTS
    Calls,        \* calls of the client; a call names the session and the token it makes
    Earlier,      \* the call of a user who signed in before
    Emails, Passwords,
    Known,        \* Known: the account of that user
    FlowLengths,  \* how many requests the flow may want after the password
    Forged,       \* a token Authentik has never issued
    None,
    MaxFaults     \* bound: requests that fail or whose answer is lost

ASSUME AuthentikAssumption ==
    /\ Earlier \in Calls /\ Known \in Emails
    /\ Passwords # {} /\ Passwords \cap {"absent", "unusable"} = {}
    /\ FlowLengths \subseteq Nat /\ MaxFaults \in Nat
    /\ Forged \notin Calls /\ None \notin Calls \cup Emails

VARIABLES
    accounts,  \* external: each account's password
    sessions,  \* external: the login sessions
    tokens,    \* external: the access tokens
    jar,       \* the session cookie in the jar of each call
    call,      \* where each call stands
    creator,   \* history: the call that created an account
    faults

authentik == <<accounts, sessions, tokens>>
clientVars == <<authentik, jar, call, creator, faults>>

Password == CHOOSE p \in Passwords : TRUE
NoSession == [stage |-> "none", named |-> None, left |-> 0]
NoToken == [user |-> None, live |-> FALSE, expired |-> FALSE]
Called(op, at, e, p, t) ==
    [op |-> op, at |-> at, email |-> e, password |-> p, token |-> t,
     tries |-> 0, code |-> None, victims |-> {}, result |-> "none"]
Idle == Called("none", "idle", None, None, None)

ClientInit ==
    /\ accounts = [e \in Emails |-> IF e = Known THEN Password ELSE "absent"]
    /\ sessions = [c \in Calls |-> IF c = Earlier THEN [stage |-> "redirect", named |-> Known, left |-> 0]
                                   ELSE NoSession]
    /\ tokens = [c \in Calls |-> IF c = Earlier THEN [user |-> Known, live |-> TRUE, expired |-> FALSE]
                                 ELSE NoToken]
    /\ jar = [c \in Calls |-> IF c = Earlier THEN c ELSE None]
    /\ call = [c \in Calls |-> IF c = Earlier
                 THEN [Called("signIn", "ended", Known, Password, None) EXCEPT !.code = Known, !.result = "ok"]
                 ELSE Idle]
    /\ creator = [e \in Emails |-> None] /\ faults = 0

-----------------------------------------------------------------------------
(* The steps of a call *)

At(c, where) == call[c].at = where
Go(c, where) == call' = [call EXCEPT ![c].at = where]
End(c, result) == call' = [call EXCEPT ![c].at = "ended", ![c].result = result]
(* the request has been carried out, and its answer comes back or is lost *)
Answered(c, then) == \/ then /\ UNCHANGED faults
                     \/ faults < MaxFaults /\ faults' = faults + 1 /\ End(c, "failed")

Begin(c, op, e, p, t, first) ==
    /\ At(c, "idle")
    /\ call' = [call EXCEPT ![c] = Called(op, first, e, p, t)]
    /\ UNCHANGED <<authentik, jar, creator, faults>>
SignIn(c, e, p) == Begin(c, "signIn", e, p, None, "identify")
Logout(c, t) == Begin(c, "logout", None, None, t, "introspect")
Enroll(c, e, p) == Begin(c, "enroll", e, p, None, "create")

(* fetch rejects, or the answer is no 2xx, and Authentik has done nothing;    *)
(* terminateUserSessions() logs it and returns                               *)
Unavailable(c) ==
    /\ call[c].at \notin {"idle", "ended"} /\ faults < MaxFaults
    /\ faults' = faults + 1
    /\ End(c, IF call[c].at \in {"list", "delete"} THEN "ok" ELSE "failed")
    /\ UNCHANGED <<authentik, jar, creator>>

-----------------------------------------------------------------------------
(* runAuthenticationFlow(): one cookie jar for each signIn() *)

(* Mutant: one jar for the client. *)
SharedJar(c) == CHOOSE d \in Calls \ {Earlier} : TRUE
JarOf(c) == c
SessionOf(c) == IF jar[JarOf(c)] = None THEN c ELSE jar[JarOf(c)]

(* the flow executor: the session after a request, by the stage it was at *)
Opened(s) == IF s.stage = "none" THEN [s EXCEPT !.stage = "identification"] ELSE s
Identified(s, e) ==
    IF s.stage # "identification" THEN {s}
    ELSE {[s EXCEPT !.stage = "password", !.named = e]} \cup (IF accounts[e] = "absent" THEN {s} ELSE {})
Proved(s, p) ==
    IF s.stage = "password" /\ accounts[s.named] = p
    THEN {[s EXCEPT !.stage = IF n = 0 THEN "redirect" ELSE "further", !.left = n] : n \in FlowLengths}
    ELSE {s}
Reviewed(s) ==
    IF s.stage # "further" THEN s
    ELSE [s EXCEPT !.left = @ - 1, !.stage = IF s.left = 1 THEN "redirect" ELSE "further"]

(* one flowStep(): the session moves, and the client looks at the challenge *)
FlowStep(c, after, refused, where) ==
    /\ sessions' = [sessions EXCEPT ![SessionOf(c)] = after]
    /\ IF refused THEN End(c, "refused") ELSE Go(c, where)
    /\ UNCHANGED <<accounts, tokens, creator, faults>>

Identify(c) ==
    /\ At(c, "identify")
    /\ LET after == Opened(sessions[SessionOf(c)])
       IN FlowStep(c, after, after.stage # "identification", "name")
    /\ jar' = [jar EXCEPT ![JarOf(c)] = SessionOf(c)]
Name(c) ==
    /\ At(c, "name")
    /\ \E after \in Identified(sessions[SessionOf(c)], call[c].email) :
         FlowStep(c, after, after.stage # "password", "prove")
    /\ UNCHANGED jar
(* Mutant: one attempt less. *)
FourMore == 4
FlowTries == 5
(* Mutant: the loop has no bound. *)
AskedForEver(c, after, tries) ==
    /\ sessions' = [sessions EXCEPT ![SessionOf(c)] = after]
    /\ call' = [call EXCEPT ![c].tries = tries,
                 ![c].at = IF after.stage = "redirect" THEN "authorize" ELSE "advance"]
    /\ UNCHANGED <<accounts, tokens, jar, creator, faults>>
(* the loop: the challenge after the password, and after each GET that asks again *)
Challenged(c, after, tries) ==
    /\ sessions' = [sessions EXCEPT ![SessionOf(c)] = after]
    /\ LET passed == after.stage = "redirect"
           over == ~passed /\ tries = FlowTries
       IN call' = [call EXCEPT ![c].tries = tries, ![c].result = IF over THEN "refused" ELSE @,
                     ![c].at = IF passed THEN "authorize" ELSE IF over THEN "ended" ELSE "advance"]
    /\ UNCHANGED <<accounts, tokens, jar, creator, faults>>
Prove(c) ==
    /\ At(c, "prove")
    /\ \E after \in Proved(sessions[SessionOf(c)], call[c].password) :
         IF after.stage = "password" THEN FlowStep(c, after, TRUE, "ended") /\ UNCHANGED jar
         ELSE Challenged(c, after, 0)
Advance(c) == At(c, "advance") /\ Challenged(c, Reviewed(sessions[SessionOf(c)]), call[c].tries + 1)
(* a request of the flow has been carried out, and its answer is lost: the    *)
(* session is where the request has put it, a new one's cookie in no jar      *)
FlowAnswerLost(c) ==
    /\ faults < MaxFaults /\ faults' = faults + 1
    /\ LET s == sessions[SessionOf(c)]
           Moved(after) == sessions' = [sessions EXCEPT ![SessionOf(c)] = after]
       IN \/ At(c, "identify") /\ Moved(Opened(s))
          \/ At(c, "name") /\ \E after \in Identified(s, call[c].email) : Moved(after)
          \/ At(c, "prove") /\ \E after \in Proved(s, call[c].password) : Moved(after)
          \/ At(c, "advance") /\ Moved(Reviewed(s))
    /\ End(c, "failed")
    /\ UNCHANGED <<accounts, tokens, jar, creator>>

(* exchangeAuthorizationCode() *)
Authorize(c) ==
    /\ At(c, "authorize")
    /\ IF sessions[SessionOf(c)].stage = "redirect"
       THEN call' = [call EXCEPT ![c].at = "mint", ![c].code = sessions[SessionOf(c)].named]
       ELSE End(c, "refused")
    /\ UNCHANGED <<authentik, jar, creator, faults>>
Mint(c) ==
    /\ At(c, "mint")
    /\ tokens' = [tokens EXCEPT ![c] = [user |-> call[c].code, live |-> TRUE, expired |-> FALSE]]
    /\ Answered(c, End(c, "ok"))
    /\ UNCHANGED <<accounts, sessions, jar, creator>>

-----------------------------------------------------------------------------
(* logout() *)

Active(t) == t \in Calls /\ tokens[t].live /\ ~tokens[t].expired
Introspect(c) ==
    /\ At(c, "introspect")
    /\ IF Active(call[c].token) THEN Go(c, "revoke") ELSE End(c, "invalid")
    /\ UNCHANGED <<authentik, jar, creator, faults>>

Revoke(c) ==
    /\ At(c, "revoke")
    /\ tokens' = [tokens EXCEPT ![call[c].token].live = FALSE]
    /\ Answered(c, Go(c, "list"))
    /\ UNCHANGED <<accounts, sessions, jar, creator>>

(* terminateUserSessions(): the service account may or may not list sessions *)
SessionsOf(e) == {s \in Calls : sessions[s].stage = "redirect" /\ sessions[s].named = e}
List(c) ==
    /\ At(c, "list")
    /\ \/ call' = [call EXCEPT ![c].at = "delete", ![c].victims = SessionsOf(tokens[call[c].token].user)]
       \/ End(c, "ok")
    /\ UNCHANGED <<authentik, jar, creator, faults>>
(* one DELETE that rejects ends logout() while the others are under way *)
Delete(c) ==
    /\ call[c].at \in {"delete", "ended"}
    /\ \E s \in call[c].victims :
         /\ sessions' = [sessions EXCEPT ![s] = NoSession]
         /\ call' = [call EXCEPT ![c].victims = @ \ {s}]
    /\ UNCHANGED <<accounts, tokens, jar, creator, faults>>
(* a DELETE that is answered 403 or 404 is one that has ended *)
LeaveSessions(c) == At(c, "delete") /\ End(c, "ok") /\ UNCHANGED <<authentik, jar, creator, faults>>

-----------------------------------------------------------------------------
(* createUser(), which enroll() calls *)

(* Mutant: an existing user is taken for one an earlier attempt has created. *)
CreateOrAdopt(c) ==
    /\ At(c, "create")
    /\ IF accounts[call[c].email] = "absent"
       THEN /\ accounts' = [accounts EXCEPT ![call[c].email] = "unusable"]
            /\ creator' = [creator EXCEPT ![call[c].email] = c]
       ELSE UNCHANGED <<accounts, creator>>
    /\ Answered(c, Go(c, "secure"))
    /\ UNCHANGED <<sessions, tokens, jar>>
Create(c) ==
    /\ At(c, "create")
    /\ IF accounts[call[c].email] # "absent"
       THEN End(c, "refused") /\ UNCHANGED <<accounts, creator, faults>>
       ELSE /\ accounts' = [accounts EXCEPT ![call[c].email] = "unusable"]
            /\ creator' = [creator EXCEPT ![call[c].email] = c]
            /\ Answered(c, Go(c, "secure"))
    /\ UNCHANGED <<sessions, tokens, jar>>
Secure(c) ==
    /\ At(c, "secure")
    /\ accounts' = [accounts EXCEPT ![call[c].email] = call[c].password]
    /\ Answered(c, End(c, "ok"))
    /\ UNCHANGED <<sessions, tokens, jar, creator>>

(* time *)
Expire(t) ==
    /\ tokens[t].user # None /\ ~tokens[t].expired
    /\ tokens' = [tokens EXCEPT ![t].expired = TRUE]
    /\ UNCHANGED <<accounts, sessions, jar, call, creator, faults>>

(* the caller of logout() has a token it was given *)
Handed == {t \in Calls : call[t].op = "signIn" /\ call[t].result = "ok"}

Step(c) ==
    \/ \E e \in Emails, p \in Passwords : SignIn(c, e, p) \/ Enroll(c, e, p)
    \/ \E t \in Handed \cup {Forged} : Logout(c, t)
    \/ Identify(c) \/ Name(c) \/ Prove(c) \/ Advance(c) \/ FlowAnswerLost(c)
    \/ Authorize(c) \/ Mint(c)
    \/ Introspect(c) \/ Revoke(c) \/ List(c) \/ Delete(c) \/ LeaveSessions(c)
    \/ Create(c) \/ Secure(c)
    \/ Unavailable(c)
ClientNext == (\E c \in Calls : Step(c)) \/ (\E t \in Calls : Expire(t))

-----------------------------------------------------------------------------
Stages == {"none", "identification", "password", "further", "redirect"}
Operations == {"none", "signIn", "logout", "enroll"}
Places == {"idle", "identify", "name", "prove", "advance", "authorize", "mint",
           "introspect", "revoke", "list", "delete", "create", "secure", "ended"}
Results == {"none", "ok", "refused", "invalid", "failed"}
OrNone(S) == S \cup {None}
SessionType == [stage : Stages, named : OrNone(Emails), left : Nat]
TokenType == [user : OrNone(Emails), live : BOOLEAN, expired : BOOLEAN]
CallType == [op : Operations, at : Places, email : OrNone(Emails), password : OrNone(Passwords),
             token : OrNone(Calls \cup {Forged}), tries : 0 .. FlowTries, code : OrNone(Emails),
             victims : SUBSET Calls, result : Results]

ClientTypeOK ==
    /\ accounts \in [Emails -> Passwords \cup {"absent", "unusable"}]
    /\ sessions \in [Calls -> SessionType] /\ tokens \in [Calls -> TokenType]
    /\ jar \in [Calls -> OrNone(Calls)] /\ call \in [Calls -> CallType]
    /\ creator \in [Emails -> OrNone(Calls)] /\ faults \in 0 .. MaxFaults

(* The tokens signIn() hands out are those of the user whose password that   *)
(* very call gave: two sign-ins at once share no cookie, session or code.    *)
TokenIsForItsCaller ==
    \A c \in Handed : tokens[c].user = call[c].email /\ accounts[call[c].email] = call[c].password

(* signIn() fails with a 400 only where there is a cause: a wrong password,  *)
(* an account that was still to be created, a flow that wants more than five *)
(* requests, or a logout of that user which ended the session meanwhile.     *)
RefusedForCause ==
    \A c \in Calls : call[c].op = "signIn" /\ call[c].result = "refused" =>
        \/ accounts[call[c].email] # call[c].password
        \/ creator[call[c].email] # None
        \/ call[c].tries + sessions[c].left > 5
        \/ sessions[c] = NoSession /\ \E d \in Calls : call[d].op = "logout" /\ c \notin call[d].victims

(* A password is set once, by the call that created the account and while it *)
(* runs, and enroll() resolves only with that.  An account left without one  *)
(* stays so: every later enroll() of the address is refused.                 *)
SecuredByItsCreator ==
    /\ \A e \in Emails :
         accounts[e] # "absent" /\ accounts'[e] # accounts[e] =>
           /\ accounts[e] = "unusable" /\ creator[e] # None /\ At(creator[e], "secure")
           /\ accounts'[e] = call[creator[e]].password
    /\ \A c \in Calls :
         call[c].op = "enroll" /\ call[c].result = "none" /\ call'[c].result = "ok" =>
           creator[call[c].email] = c /\ accounts'[call[c].email] = call[c].password
OnlyItsCreatorSecures == [][SecuredByItsCreator]_clientVars
=============================================================================
