--------------------------- MODULE RequestsProofs ---------------------------
(* Theorems about Requests, for any calls, accounts, requests, interceptors  *)
(* and number of faults.                                                     *)
EXTENDS Requests, TLAPS

-----------------------------------------------------------------------------
(* The inductive invariant *)

SigningIn == {"identify", "name", "prove", "advance", "authorize", "mint"}
LoggingOut == {"introspect", "revoke", "list", "delete"}
Enrolling == {"create", "secure"}

(* A call is at a place of its own operation, and ended with its result.     *)
CallsKeepToTheirCode == \A c \in Calls :
    /\ At(c, "idle") => call[c].op = "none"
    /\ call[c].at \in SigningIn => call[c].op = "signIn"
    /\ call[c].at \in LoggingOut => call[c].op = "logout"
    /\ call[c].at \in Enrolling => call[c].op = "enroll"
    /\ call[c].op \in {"signIn", "enroll"} => call[c].email \in Emails /\ call[c].password \in Passwords
    /\ call[c].at \in {"revoke", "list", "delete"} => call[c].token \in Calls
    /\ At(c, "ended") <=> call[c].result # "none"
    /\ At(c, "advance") => call[c].tries < FlowTries

(* The account of a sign-in exists with the password the call was given.     *)
Proven(c) == /\ call[c].op = "signIn"
             /\ accounts[call[c].email] = call[c].password

(* A call uses the session it made, and that session has got as far as the   *)
(* call's own name and password have brought it.                             *)
SessionsAreEarned == \A c \in Calls :
    /\ jar[c] \in {None, c}
    /\ sessions[c].stage # "none" => call[c].op = "signIn"
    /\ sessions[c].stage \in {"password", "further", "redirect"} => sessions[c].named = call[c].email
    /\ sessions[c].stage \in {"further", "redirect"} => Proven(c)
    /\ sessions[c].stage = "further" => sessions[c].left > 0

(* A code is that of the call's own session, a token that of its own code.   *)
CodesAreEarned == \A c \in Calls :
    /\ call[c].code # None => call[c].code = call[c].email /\ Proven(c)
    /\ At(c, "mint") => call[c].code # None
    /\ tokens[c].user # None => tokens[c].user = call[c].code
    /\ c \in Handed => tokens[c].user # None

(* Between createUser()'s two requests the account has no password, and the  *)
(* call that created it is the only one about to set it.                     *)
CreatorsAreAlone == \A c \in Calls :
    At(c, "secure") => creator[call[c].email] = c /\ accounts[call[c].email] = "unusable"

ClientIInv ==
    /\ ClientTypeOK /\ CallsKeepToTheirCode /\ SessionsAreEarned
    /\ CodesAreEarned /\ CreatorsAreAlone

(* A driver that listens has put every interceptor around its routers.       *)
RoutersAreGuarded == \A d \in Drivers : guards[d] \in {None, Len(Chain)}

(* A request comes with a token somebody was handed.  An interceptor has let *)
(* it by or is still before it, and none is when a handler has it.           *)
RequestsAreGuarded == \A r \in Requests :
    /\ request[r].token \in Handed \cup {Forged, None}
    /\ request[r].at = "intercept" => request[r].left \cup request[r].accepted = DOMAIN Chain
    /\ request[r].at \in {"handle", "secrets"} \/ request[r].outcome \in {"ok", "error"} =>
         request[r].accepted = DOMAIN Chain
    /\ request[r].at \in {"idle", "intercept"} => request[r].span = "none"
    /\ request[r].at \in {"handle", "secrets"} =>
         request[r].span = IF tracer THEN "open" ELSE "none"

IInv == ClientIInv /\ TypeOK /\ RoutersAreGuarded /\ RequestsAreGuarded /\ AnsweredOnce

-----------------------------------------------------------------------------
(* The client *)

(* the assumption on the constants, for every proof below *)
USE AuthentikAssumption DEF AuthentikAssumption

(* What every step of the client comes to: the invariant, tokens that stay  *)
(* handed out, and passwords set by none but the creator of the account.    *)
Kept == ClientIInv' /\ Handed \subseteq Handed' /\ SecuredByItsCreator

(* The fields of a call that Begin sets and nothing changes after it. *)
Moves(c) ==
    /\ call' \in [Calls -> CallType]
    /\ \A d \in Calls \ {c} : call'[d] = call[d]
    /\ call'[c].op = call[c].op /\ call'[c].email = call[c].email
    /\ call'[c].password = call[c].password /\ call'[c].token = call[c].token

(* Going on and ending change where a call is and how it ended, no more. *)
LEMMA GoMoves ==
    ASSUME ClientIInv, NEW c \in Calls, NEW where \in Places, Go(c, where)
    PROVE  /\ Moves(c) /\ call'[c].at = where
           /\ call'[c].tries = call[c].tries /\ call'[c].code = call[c].code
           /\ call'[c].victims = call[c].victims /\ call'[c].result = call[c].result
<1> DEFINE moved == [call[c] EXCEPT !.at = where]
<1>1. call \in [Calls -> CallType] /\ call[c] \in CallType
  BY DEF ClientIInv, ClientTypeOK
<1>2. moved \in CallType
  BY <1>1 DEF CallType
<1>3. call' = [call EXCEPT ![c] = moved]
  BY DEF Go
<1>4. call'[c] = moved /\ call' \in [Calls -> CallType] /\ \A d \in Calls \ {c} : call'[d] = call[d]
  BY <1>1, <1>2, <1>3
<1>5. /\ moved.at = where /\ moved.op = call[c].op /\ moved.email = call[c].email
      /\ moved.password = call[c].password /\ moved.token = call[c].token /\ moved.tries = call[c].tries
      /\ moved.code = call[c].code /\ moved.victims = call[c].victims /\ moved.result = call[c].result
  BY <1>1 DEF CallType
<1> QED
  BY <1>4, <1>5 DEF Moves

(* An ending call keeps what it was called with. *)
LEMMA EndMoves ==
    ASSUME ClientIInv, NEW c \in Calls, NEW result \in Results, End(c, result)
    PROVE  /\ Moves(c) /\ call'[c].at = "ended" /\ call'[c].result = result
           /\ call'[c].tries = call[c].tries /\ call'[c].code = call[c].code
           /\ call'[c].victims = call[c].victims
<1> DEFINE moved == [call[c] EXCEPT !.at = "ended", !.result = result]
<1>1. call \in [Calls -> CallType] /\ call[c] \in CallType /\ "ended" \in Places
  BY DEF ClientIInv, ClientTypeOK, Places
<1>2. moved \in CallType
  BY <1>1 DEF CallType
<1>3. call' = [call EXCEPT ![c] = moved]
  BY DEF End
<1>4. call'[c] = moved /\ call' \in [Calls -> CallType] /\ \A d \in Calls \ {c} : call'[d] = call[d]
  BY <1>1, <1>2, <1>3
<1>5. /\ moved.at = "ended" /\ moved.op = call[c].op /\ moved.email = call[c].email
      /\ moved.password = call[c].password /\ moved.token = call[c].token /\ moved.tries = call[c].tries
      /\ moved.code = call[c].code /\ moved.victims = call[c].victims /\ moved.result = result
  BY <1>1 DEF CallType
<1> QED
  BY <1>4, <1>5 DEF Moves

(* The client starts with one user signed in. *)
LEMMA InitClient == ClientInit => ClientIInv
<1> SUFFICES ASSUME ClientInit PROVE ClientIInv
  OBVIOUS
<1>1. Password \in Passwords /\ Password \notin {"absent", "unusable"}
  BY DEF Password
<1>2. ClientTypeOK
  <2>1. NoSession \in SessionType /\ [stage |-> "redirect", named |-> Known, left |-> 0] \in SessionType
    BY DEF NoSession, SessionType, Stages, OrNone
  <2>2. NoToken \in TokenType /\ [user |-> Known, live |-> TRUE, expired |-> FALSE] \in TokenType
    BY DEF NoToken, TokenType, OrNone
  <2>3. Idle \in CallType
    BY DEF Idle, Called, CallType, Operations, Places, Results, OrNone, FlowTries
  <2>4. [Called("signIn", "ended", Known, Password, None) EXCEPT !.code = Known, !.result = "ok"] \in CallType
    <3>1. Called("signIn", "ended", Known, Password, None) \in CallType
      BY <1>1 DEF Called, CallType, Operations, Places, Results, OrNone, FlowTries
    <3>2. Known \in OrNone(Emails) /\ "ok" \in Results
      BY DEF OrNone, Results
    <3> QED
      BY <3>1, <3>2 DEF CallType
  <2> QED
    BY <1>1, <2>1, <2>2, <2>3, <2>4 DEF ClientInit, ClientTypeOK, OrNone
<1>3. CallsKeepToTheirCode
  BY <1>1 DEF ClientInit, CallsKeepToTheirCode, SigningIn, LoggingOut, Enrolling, Idle, Called, At
<1>4. SessionsAreEarned
  BY <1>1 DEF ClientInit, SessionsAreEarned, NoSession, Idle, Called, At, Proven
<1>5. CodesAreEarned
  BY <1>1 DEF ClientInit, CodesAreEarned, NoToken, Idle, Called, At, Proven, Handed
<1>6. CreatorsAreAlone
  BY <1>1 DEF ClientInit, CreatorsAreAlone, Idle, Called, At
<1> QED
  BY <1>2, <1>3, <1>4, <1>5, <1>6 DEF ClientIInv

(* Beginning a call *)
LEMMA BeginKeeps ==
    ASSUME ClientIInv, NEW c \in Calls,
           \/ \E e \in Emails, p \in Passwords : SignIn(c, e, p) \/ Enroll(c, e, p)
           \/ \E t \in Handed \cup {Forged} : Logout(c, t)
    PROVE  Kept
<1>1. PICK op \in {"signIn", "logout", "enroll"}, e \in OrNone(Emails), p \in OrNone(Passwords),
           t \in OrNone(Calls \cup {Forged}), first \in {"identify", "introspect", "create"} :
         /\ Begin(c, op, e, p, t, first)
         /\ op = "signIn" <=> first = "identify"
         /\ op = "logout" <=> first = "introspect"
         /\ op # "logout" => e \in Emails /\ p \in Passwords
  BY DEF SignIn, Enroll, Logout, Handed, OrNone
<1>2. ClientTypeOK'
  <2>1. Called(op, first, e, p, t) \in CallType
    BY DEF Called, CallType, Operations, Places, Results, OrNone, FlowTries
  <2> QED
    BY <1>1, <2>1 DEF ClientIInv, ClientTypeOK, Begin, authentik
<1>3. CallsKeepToTheirCode'
  BY <1>1 DEF ClientIInv, ClientTypeOK, Begin, Called, CallsKeepToTheirCode, SigningIn,
     LoggingOut, Enrolling, At
<1>4. SessionsAreEarned'
  BY <1>1 DEF ClientIInv, ClientTypeOK, Begin, Called, authentik, CallsKeepToTheirCode,
     SessionsAreEarned, Proven, At
<1>5. CodesAreEarned'
  BY <1>1 DEF ClientIInv, ClientTypeOK, Begin, Called, authentik, CallsKeepToTheirCode,
     CodesAreEarned, Proven, At, Handed
<1>6. CreatorsAreAlone'
  BY <1>1 DEF ClientIInv, ClientTypeOK, Begin, Called, authentik, CreatorsAreAlone, At
<1>7. Handed \subseteq Handed' /\ SecuredByItsCreator
  BY <1>1 DEF ClientIInv, ClientTypeOK, Begin, Called, authentik, CallsKeepToTheirCode, Handed,
     SecuredByItsCreator, At
<1> QED
  BY <1>2, <1>3, <1>4, <1>5, <1>6, <1>7 DEF Kept, ClientIInv

(* A request that fails *)
LEMMA UnavailableKeeps ==
    ASSUME ClientIInv, NEW c \in Calls, Unavailable(c)
    PROVE  Kept
<1>1. /\ Moves(c) /\ call'[c].at = "ended" /\ call'[c].result \in {"ok", "failed"}
      /\ call'[c].code = call[c].code
      /\ call'[c].result = "ok" => call[c].at \in {"list", "delete"}
      /\ faults' \in 0 .. MaxFaults /\ call[c].at \notin {"idle", "ended"}
      /\ UNCHANGED <<accounts, sessions, tokens, jar, creator>>
  <2>1. PICK result \in {"ok", "failed"} :
          End(c, result) /\ (result = "ok" => call[c].at \in {"list", "delete"})
    BY DEF Unavailable
  <2>2. result \in Results
    BY DEF Results
  <2>3. faults' \in 0 .. MaxFaults /\ call[c].at \notin {"idle", "ended"}
    BY DEF Unavailable, ClientIInv, ClientTypeOK
  <2> QED
    BY <2>1, <2>2, <2>3, EndMoves DEF Unavailable, authentik
<1>2. ClientTypeOK'
  BY <1>1 DEF ClientIInv, ClientTypeOK, Moves
<1>3. CallsKeepToTheirCode'
  BY <1>1 DEF ClientIInv, Moves, CallsKeepToTheirCode, At, SigningIn, LoggingOut, Enrolling
<1>4. SessionsAreEarned'
  BY <1>1 DEF ClientIInv, Moves, CallsKeepToTheirCode, SessionsAreEarned, Proven, At,
     SigningIn, LoggingOut, Enrolling
<1>5. CodesAreEarned'
  BY <1>1 DEF ClientIInv, Moves, CallsKeepToTheirCode, SessionsAreEarned, CodesAreEarned,
     Proven, Handed, At, SigningIn, LoggingOut, Enrolling
<1>6. CreatorsAreAlone'
  BY <1>1 DEF ClientIInv, Moves, CallsKeepToTheirCode, CreatorsAreAlone, At, SigningIn,
     LoggingOut, Enrolling
<1>7. Handed \subseteq Handed' /\ SecuredByItsCreator
  BY <1>1 DEF ClientIInv, Moves, CallsKeepToTheirCode, CreatorsAreAlone, Handed,
     SecuredByItsCreator, At, SigningIn, LoggingOut, Enrolling
<1> QED
  BY <1>2, <1>3, <1>4, <1>5, <1>6, <1>7 DEF Kept, ClientIInv

(* The first request of logout() *)
LEMMA IntrospectKeeps ==
    ASSUME ClientIInv, NEW c \in Calls, Introspect(c)
    PROVE  Kept
<1>1. /\ Moves(c) /\ call[c].at = "introspect"
      /\ \/ call'[c].at = "revoke" /\ call'[c].token \in Calls /\ call'[c].result = call[c].result
         \/ call'[c].at = "ended" /\ call'[c].result = "invalid"
      /\ call'[c].code = call[c].code
      /\ UNCHANGED <<accounts, sessions, tokens, jar, creator, faults>>
  <2>1. CASE Active(call[c].token)
    BY <2>1, GoMoves DEF Introspect, Active, Places, At, authentik, Moves
  <2>2. CASE ~Active(call[c].token)
    BY <2>2, EndMoves DEF Introspect, Results, At, authentik
  <2> QED
    BY <2>1, <2>2
<1>2. ClientTypeOK'
  BY <1>1 DEF ClientIInv, ClientTypeOK, Moves
<1>3. CallsKeepToTheirCode'
  BY <1>1 DEF ClientIInv, Moves, CallsKeepToTheirCode, At, SigningIn, LoggingOut, Enrolling
<1>4. SessionsAreEarned'
  BY <1>1 DEF ClientIInv, Moves, CallsKeepToTheirCode, SessionsAreEarned, Proven, At,
     SigningIn, LoggingOut, Enrolling
<1>5. CodesAreEarned'
  BY <1>1 DEF ClientIInv, Moves, CallsKeepToTheirCode, SessionsAreEarned, CodesAreEarned,
     Proven, Handed, At, SigningIn, LoggingOut, Enrolling
<1>6. CreatorsAreAlone'
  BY <1>1 DEF ClientIInv, Moves, CallsKeepToTheirCode, CreatorsAreAlone, At, SigningIn,
     LoggingOut, Enrolling
<1>7. Handed \subseteq Handed' /\ SecuredByItsCreator
  BY <1>1 DEF ClientIInv, Moves, CallsKeepToTheirCode, CreatorsAreAlone, Handed,
     SecuredByItsCreator, At, SigningIn, LoggingOut, Enrolling
<1> QED
  BY <1>2, <1>3, <1>4, <1>5, <1>6, <1>7 DEF Kept, ClientIInv

(* The end of terminateUserSessions() *)
LEMMA LeaveKeeps ==
    ASSUME ClientIInv, NEW c \in Calls, LeaveSessions(c)
    PROVE  Kept
<1>1. /\ Moves(c) /\ call[c].at = "delete" /\ call'[c].at = "ended" /\ call'[c].result = "ok"
      /\ call'[c].code = call[c].code
      /\ UNCHANGED <<accounts, sessions, tokens, jar, creator, faults>>
  BY EndMoves DEF LeaveSessions, Results, At, authentik
<1>2. ClientTypeOK'
  BY <1>1 DEF ClientIInv, ClientTypeOK, Moves
<1>3. CallsKeepToTheirCode'
  BY <1>1 DEF ClientIInv, Moves, CallsKeepToTheirCode, At, SigningIn, LoggingOut, Enrolling
<1>4. SessionsAreEarned'
  BY <1>1 DEF ClientIInv, Moves, CallsKeepToTheirCode, SessionsAreEarned, Proven, At,
     SigningIn, LoggingOut, Enrolling
<1>5. CodesAreEarned'
  BY <1>1 DEF ClientIInv, Moves, CallsKeepToTheirCode, SessionsAreEarned, CodesAreEarned,
     Proven, Handed, At, SigningIn, LoggingOut, Enrolling
<1>6. CreatorsAreAlone'
  BY <1>1 DEF ClientIInv, Moves, CallsKeepToTheirCode, CreatorsAreAlone, At, SigningIn,
     LoggingOut, Enrolling
<1>7. Handed \subseteq Handed' /\ SecuredByItsCreator
  BY <1>1 DEF ClientIInv, Moves, CallsKeepToTheirCode, CreatorsAreAlone, Handed,
     SecuredByItsCreator, At, SigningIn, LoggingOut, Enrolling
<1> QED
  BY <1>2, <1>3, <1>4, <1>5, <1>6, <1>7 DEF Kept, ClientIInv

(* What the loop does to the call, whatever the challenge. *)
LEMMA ChallengedMoves ==
    ASSUME ClientIInv, NEW c \in Calls, SessionOf(c) = c,
           NEW after \in SessionType, NEW tries \in 0 .. FlowTries, Challenged(c, after, tries)
    PROVE  /\ Moves(c) /\ call'[c].tries = tries /\ call'[c].code = call[c].code
           /\ \/ call'[c].at = "authorize" /\ call'[c].result = call[c].result
              \/ call'[c].at = "advance" /\ call'[c].result = call[c].result /\ tries < FlowTries
              \/ call'[c].at = "ended" /\ call'[c].result = "refused"
           /\ sessions' = [sessions EXCEPT ![c] = after]
           /\ UNCHANGED <<accounts, tokens, jar, creator, faults>>
<1> DEFINE passed == after.stage = "redirect"
           over == ~passed /\ tries = FlowTries
           moved == [call[c] EXCEPT !.tries = tries, !.result = IF over THEN "refused" ELSE @,
                       !.at = IF passed THEN "authorize" ELSE IF over THEN "ended" ELSE "advance"]
<1>1. /\ call \in [Calls -> CallType] /\ call[c] \in CallType
      /\ {"authorize", "ended", "advance"} \subseteq Places /\ "refused" \in Results
  BY DEF ClientIInv, ClientTypeOK, Places, Results
<1>2. moved \in CallType
  BY <1>1 DEF CallType
<1>3. call' = [call EXCEPT ![c] = moved]
  BY DEF Challenged
<1>4. /\ call'[c] = moved /\ call' \in [Calls -> CallType]
      /\ \A d \in Calls \ {c} : call'[d] = call[d]
  BY <1>1, <1>2, <1>3
<1>5. /\ moved.op = call[c].op /\ moved.email = call[c].email
      /\ moved.password = call[c].password /\ moved.token = call[c].token
      /\ moved.tries = tries /\ moved.code = call[c].code
      /\ moved.result = (IF over THEN "refused" ELSE call[c].result)
      /\ moved.at = IF passed THEN "authorize" ELSE IF over THEN "ended" ELSE "advance"
  BY <1>1 DEF CallType
<1>6. tries < FlowTries \/ tries = FlowTries
  BY DEF FlowTries
<1> QED
  BY <1>4, <1>5, <1>6 DEF Moves, Challenged

(* No two calls meet in a session. *)
LEMMA OwnSession ==
    ASSUME ClientIInv, NEW c \in Calls
    PROVE  /\ JarOf(c) = c /\ SessionOf(c) = c
           /\ sessions \in [Calls -> SessionType] /\ sessions[c] \in SessionType
BY DEF ClientIInv, ClientTypeOK, SessionsAreEarned, JarOf, SessionOf

(* The first request of the flow opens a session. *)
LEMMA IdentifyKeeps ==
    ASSUME ClientIInv, NEW c \in Calls, Identify(c)
    PROVE  Kept
<1> DEFINE after == Opened(sessions[c])
<1>1. /\ Moves(c) /\ call[c].at = "identify" /\ call'[c].code = call[c].code
      /\ \/ call'[c].at = "name" /\ call'[c].result = call[c].result
         \/ call'[c].at = "ended" /\ call'[c].result = "refused"
  <2>1. PICK refused \in BOOLEAN : IF refused THEN End(c, "refused") ELSE Go(c, "name")
    BY DEF Identify, FlowStep
  <2>2. "refused" \in Results /\ "name" \in Places
    BY DEF Results, Places
  <2> QED
    BY <2>1, <2>2, GoMoves, EndMoves DEF Identify, At
<1>2. /\ sessions' \in [Calls -> SessionType] /\ \A d \in Calls \ {c} : sessions'[d] = sessions[d]
      /\ sessions'[c] = sessions[c] \/ sessions'[c].stage = "identification"
  <2>1. after \in SessionType
    BY OwnSession DEF Opened, SessionType, Stages
  <2>2. after = sessions[c] \/ after.stage = "identification"
    BY OwnSession DEF Opened, SessionType
  <2> QED
    BY OwnSession, <2>1, <2>2 DEF Identify, FlowStep
<1>3. /\ jar' = [jar EXCEPT ![c] = c] /\ call[c].op = "signIn"
      /\ UNCHANGED <<accounts, tokens, creator, faults>>
  BY OwnSession, <1>1 DEF Identify, FlowStep, ClientIInv, CallsKeepToTheirCode, SigningIn
<1>4. ClientTypeOK'
  BY <1>1, <1>2, <1>3 DEF ClientIInv, ClientTypeOK, Moves, OrNone
<1>5. CallsKeepToTheirCode'
  BY <1>1, <1>2, <1>3 DEF ClientIInv, Moves, CallsKeepToTheirCode, At, SigningIn, LoggingOut,
     Enrolling
<1>6. SessionsAreEarned'
  BY <1>1, <1>2, <1>3 DEF ClientIInv, Moves, CallsKeepToTheirCode, SessionsAreEarned, Proven, At,
     SigningIn, LoggingOut, Enrolling
<1>7. CodesAreEarned'
  BY <1>1, <1>2, <1>3 DEF ClientIInv, Moves, CallsKeepToTheirCode, SessionsAreEarned,
     CodesAreEarned,
     Proven, Handed, At, SigningIn, LoggingOut, Enrolling
<1>8. CreatorsAreAlone'
  BY <1>1, <1>2, <1>3 DEF ClientIInv, Moves, CallsKeepToTheirCode, CreatorsAreAlone, At,
     SigningIn, LoggingOut, Enrolling
<1>9. Handed \subseteq Handed' /\ SecuredByItsCreator
  BY <1>1, <1>2, <1>3 DEF ClientIInv, Moves, CallsKeepToTheirCode, CreatorsAreAlone, Handed,
     SecuredByItsCreator, At, SigningIn, LoggingOut, Enrolling
<1> QED
  BY <1>4, <1>5, <1>6, <1>7, <1>8, <1>9 DEF Kept, ClientIInv

(* The user is named. *)
LEMMA NameKeeps ==
    ASSUME ClientIInv, NEW c \in Calls, Name(c)
    PROVE  Kept
<1>1. /\ Moves(c) /\ call[c].at = "name" /\ call'[c].code = call[c].code
      /\ \/ call'[c].at = "prove" /\ call'[c].result = call[c].result
         \/ call'[c].at = "ended" /\ call'[c].result = "refused"
  <2>1. PICK refused \in BOOLEAN : IF refused THEN End(c, "refused") ELSE Go(c, "prove")
    BY DEF Name, FlowStep
  <2>2. "refused" \in Results /\ "prove" \in Places
    BY DEF Results, Places
  <2> QED
    BY <2>1, <2>2, GoMoves, EndMoves DEF Name, At
<1>2. /\ call[c].op = "signIn" /\ call[c].email \in Emails
      /\ UNCHANGED <<accounts, tokens, jar, creator, faults>>
  BY <1>1 DEF Name, FlowStep, ClientIInv, CallsKeepToTheirCode, SigningIn
<1>3. /\ sessions' \in [Calls -> SessionType] /\ \A d \in Calls \ {c} : sessions'[d] = sessions[d]
      /\ \/ sessions'[c] = sessions[c]
         \/ sessions'[c].stage = "password" /\ sessions'[c].named = call[c].email
  <2>1. PICK after \in Identified(sessions[c], call[c].email) : sessions' = [sessions EXCEPT ![c] = after]
    BY OwnSession DEF Name, FlowStep
  <2>2. after = sessions[c] \/ after = [sessions[c] EXCEPT !.stage = "password", !.named = call[c].email]
    BY <2>1 DEF Identified
  <2>3. after \in SessionType
    BY OwnSession, <1>2, <2>2 DEF SessionType, Stages, OrNone
  <2>4. \/ after = sessions[c]
        \/ after.stage = "password" /\ after.named = call[c].email
    BY OwnSession, <2>2 DEF SessionType
  <2> QED
    BY OwnSession, <2>1, <2>3, <2>4
<1>4. ClientTypeOK'
  BY <1>1, <1>2, <1>3 DEF ClientIInv, ClientTypeOK, Moves
<1>5. CallsKeepToTheirCode'
  BY <1>1, <1>2, <1>3 DEF ClientIInv, Moves, CallsKeepToTheirCode, At, SigningIn, LoggingOut,
     Enrolling
<1>6. SessionsAreEarned'
  BY <1>1, <1>2, <1>3 DEF ClientIInv, Moves, CallsKeepToTheirCode, SessionsAreEarned, Proven, At,
     SigningIn, LoggingOut, Enrolling
<1>7. CodesAreEarned'
  BY <1>1, <1>2, <1>3 DEF ClientIInv, Moves, CallsKeepToTheirCode, SessionsAreEarned,
     CodesAreEarned,
     Proven, Handed, At, SigningIn, LoggingOut, Enrolling
<1>8. CreatorsAreAlone'
  BY <1>1, <1>2, <1>3 DEF ClientIInv, Moves, CallsKeepToTheirCode, CreatorsAreAlone, At,
     SigningIn, LoggingOut, Enrolling
<1>9. Handed \subseteq Handed' /\ SecuredByItsCreator
  BY <1>1, <1>2, <1>3 DEF ClientIInv, Moves, CallsKeepToTheirCode, CreatorsAreAlone, Handed,
     SecuredByItsCreator, At, SigningIn, LoggingOut, Enrolling
<1> QED
  BY <1>4, <1>5, <1>6, <1>7, <1>8, <1>9 DEF Kept, ClientIInv

(* The password is checked. *)
LEMMA ProveKeeps ==
    ASSUME ClientIInv, NEW c \in Calls, Prove(c)
    PROVE  Kept
<1>0. PICK after \in Proved(sessions[c], call[c].password) :
         IF after.stage = "password" THEN FlowStep(c, after, TRUE, "ended") /\ UNCHANGED jar
         ELSE Challenged(c, after, 0)
  BY OwnSession DEF Prove
<1>2. /\ after \in SessionType
      /\ \/ after = sessions[c]
         \/ /\ sessions[c].stage = "password" /\ after.stage \in {"further", "redirect"}
            /\ after.named = sessions[c].named /\ accounts[after.named] = call[c].password
            /\ after.stage = "further" => after.left > 0
  <2>1. \/ after = sessions[c]
        \/ /\ sessions[c].stage = "password" /\ accounts[sessions[c].named] = call[c].password
           /\ \E n \in FlowLengths :
                after = [sessions[c] EXCEPT !.stage = IF n = 0 THEN "redirect" ELSE "further", !.left = n]
    BY <1>0 DEF Proved
  <2>2. CASE after = sessions[c]
    BY OwnSession, <2>2
  <2>3. ASSUME NEW n \in FlowLengths, sessions[c].stage = "password",
               accounts[sessions[c].named] = call[c].password,
               after = [sessions[c] EXCEPT !.stage = IF n = 0 THEN "redirect" ELSE "further", !.left = n]
        PROVE  /\ after \in SessionType
               /\ sessions[c].stage = "password" /\ after.stage \in {"further", "redirect"}
               /\ after.named = sessions[c].named /\ accounts[after.named] = call[c].password
               /\ after.stage = "further" => after.left > 0
    <3>1. n \in Nat
      OBVIOUS
    <3>2. after \in SessionType
      BY OwnSession, <2>3, <3>1 DEF SessionType, Stages
    <3>3. /\ after.stage = (IF n = 0 THEN "redirect" ELSE "further") /\ after.left = n
          /\ after.named = sessions[c].named
      BY OwnSession, <2>3 DEF SessionType
    <3> QED
      BY <2>3, <3>1, <3>2, <3>3
  <2> QED
    BY <2>1, <2>2, <2>3
<1>1. /\ Moves(c) /\ call'[c].code = call[c].code /\ call[c].at = "prove"
      /\ \/ call'[c].at = "authorize" /\ call'[c].result = call[c].result
         \/ call'[c].at = "advance" /\ call'[c].result = call[c].result /\ call'[c].tries < FlowTries
         \/ call'[c].at = "ended" /\ call'[c].result = "refused"
  <2>1. CASE after.stage = "password"
    BY <1>0, <2>1, EndMoves DEF FlowStep, Results, Prove, At
  <2>2. CASE after.stage # "password"
    BY OwnSession, <1>0, <1>2, <2>2, ChallengedMoves DEF FlowTries, Prove, At
  <2> QED
    BY <2>1, <2>2
<1>3. /\ sessions' \in [Calls -> SessionType] /\ sessions'[c] = after
      /\ \A d \in Calls \ {c} : sessions'[d] = sessions[d]
      /\ UNCHANGED <<accounts, tokens, jar, creator, faults>>
  <2>1. sessions' = [sessions EXCEPT ![c] = after] /\ UNCHANGED <<accounts, tokens, jar, creator, faults>>
    BY OwnSession, <1>0 DEF FlowStep, Challenged
  <2> QED
    BY OwnSession, <1>2, <2>1
<1>4. ClientTypeOK'
  BY <1>1, <1>2, <1>3 DEF ClientIInv, ClientTypeOK, Moves
<1>5. CallsKeepToTheirCode'
  BY <1>1, <1>2, <1>3 DEF ClientIInv, Moves, CallsKeepToTheirCode, At, SigningIn, LoggingOut,
     Enrolling
<1>6. SessionsAreEarned'
  BY <1>1, <1>2, <1>3 DEF ClientIInv, Moves, CallsKeepToTheirCode, SessionsAreEarned, Proven, At,
     SigningIn, LoggingOut, Enrolling
<1>7. CodesAreEarned'
  BY <1>1, <1>2, <1>3 DEF ClientIInv, Moves, CallsKeepToTheirCode, SessionsAreEarned,
     CodesAreEarned,
     Proven, Handed, At, SigningIn, LoggingOut, Enrolling
<1>8. CreatorsAreAlone'
  BY <1>1, <1>2, <1>3 DEF ClientIInv, Moves, CallsKeepToTheirCode, CreatorsAreAlone, At,
     SigningIn, LoggingOut, Enrolling
<1>9. Handed \subseteq Handed' /\ SecuredByItsCreator
  BY <1>1, <1>2, <1>3 DEF ClientIInv, Moves, CallsKeepToTheirCode, CreatorsAreAlone, Handed,
     SecuredByItsCreator, At, SigningIn, LoggingOut, Enrolling
<1> QED
  BY <1>4, <1>5, <1>6, <1>7, <1>8, <1>9 DEF Kept, ClientIInv

(* The flow is asked again. *)
LEMMA AdvanceKeeps ==
    ASSUME ClientIInv, NEW c \in Calls, Advance(c)
    PROVE  Kept
<1> DEFINE after == Reviewed(sessions[c])
<1>0. call[c].at = "advance" /\ call[c].tries + 1 \in 0 .. FlowTries
  <2>1. call[c].tries \in 0 .. FlowTries
    BY DEF ClientIInv, ClientTypeOK, CallType
  <2> QED
    BY <2>1 DEF Advance, At, ClientIInv, CallsKeepToTheirCode, FlowTries
<1>2. /\ after \in SessionType
      /\ \/ after = sessions[c]
         \/ /\ sessions[c].stage = "further" /\ after.stage \in {"further", "redirect"}
            /\ after.named = sessions[c].named /\ (after.stage = "further" => after.left > 0)
  <2>1. CASE sessions[c].stage # "further"
    BY OwnSession, <2>1 DEF Reviewed
  <2>2. CASE sessions[c].stage = "further"
    <3>1. after = [sessions[c] EXCEPT !.left = sessions[c].left - 1,
                     !.stage = IF sessions[c].left = 1 THEN "redirect" ELSE "further"]
      BY <2>2 DEF Reviewed
    <3>2. sessions[c].left > 0 /\ sessions[c].left \in Nat /\ sessions[c].left - 1 \in Nat
      BY OwnSession, <2>2 DEF SessionType, ClientIInv, SessionsAreEarned
    <3>3. after \in SessionType
      BY OwnSession, <3>1, <3>2 DEF SessionType, Stages
    <3>4. /\ after.left = sessions[c].left - 1 /\ after.named = sessions[c].named
          /\ after.stage = IF sessions[c].left = 1 THEN "redirect" ELSE "further"
      BY OwnSession, <3>1 DEF SessionType
    <3> QED
      BY <2>2, <3>2, <3>3, <3>4
  <2> QED
    BY <2>1, <2>2
<1> HIDE DEF after
<1>1. /\ Moves(c) /\ call'[c].code = call[c].code
      /\ \/ call'[c].at = "authorize" /\ call'[c].result = call[c].result
         \/ call'[c].at = "advance" /\ call'[c].result = call[c].result /\ call'[c].tries < FlowTries
         \/ call'[c].at = "ended" /\ call'[c].result = "refused"
      /\ sessions' = [sessions EXCEPT ![c] = after]
      /\ UNCHANGED <<accounts, tokens, jar, creator, faults>>
  <2>1. Challenged(c, after, call[c].tries + 1)
    BY OwnSession DEF Advance, after
  <2> QED
    BY OwnSession, <1>0, <1>2, <2>1, ChallengedMoves
<1>3. /\ sessions' \in [Calls -> SessionType] /\ sessions'[c] = after
      /\ \A d \in Calls \ {c} : sessions'[d] = sessions[d]
  BY OwnSession, <1>1, <1>2
<1>4. ClientTypeOK'
  BY <1>1, <1>2, <1>3 DEF ClientIInv, ClientTypeOK, Moves
<1>5. CallsKeepToTheirCode'
  BY <1>0, <1>1, <1>2, <1>3 DEF ClientIInv, Moves, CallsKeepToTheirCode, At, SigningIn,
     LoggingOut, Enrolling
<1>6. SessionsAreEarned'
  BY <1>0, <1>1, <1>2, <1>3 DEF ClientIInv, Moves, CallsKeepToTheirCode, SessionsAreEarned,
     Proven, At,
     SigningIn, LoggingOut, Enrolling
<1>7. CodesAreEarned'
  BY <1>0, <1>1, <1>2, <1>3 DEF ClientIInv, Moves, CallsKeepToTheirCode, SessionsAreEarned,
     CodesAreEarned,
     Proven, Handed, At, SigningIn, LoggingOut, Enrolling
<1>8. CreatorsAreAlone'
  BY <1>0, <1>1, <1>2, <1>3 DEF ClientIInv, Moves, CallsKeepToTheirCode, CreatorsAreAlone, At,
     SigningIn, LoggingOut, Enrolling
<1>9. Handed \subseteq Handed' /\ SecuredByItsCreator
  BY <1>0, <1>1, <1>2, <1>3 DEF ClientIInv, Moves, CallsKeepToTheirCode, CreatorsAreAlone, Handed,
     SecuredByItsCreator, At, SigningIn, LoggingOut, Enrolling
<1> QED
  BY <1>4, <1>5, <1>6, <1>7, <1>8, <1>9 DEF Kept, ClientIInv

(* A request of the flow is carried out, and its answer is lost. *)
LEMMA FlowAnswerLostKeeps ==
    ASSUME ClientIInv, NEW c \in Calls, FlowAnswerLost(c)
    PROVE  Kept
<1>1. /\ Moves(c) /\ call[c].at \in {"identify", "name", "prove", "advance"}
      /\ call'[c].code = call[c].code /\ call'[c].at = "ended" /\ call'[c].result = "failed"
      /\ faults' \in 0 .. MaxFaults
      /\ UNCHANGED <<accounts, tokens, jar, creator>>
  BY EndMoves DEF FlowAnswerLost, Results, At, ClientIInv, ClientTypeOK
<1>2. call[c].op = "signIn" /\ call[c].email \in Emails
  BY <1>1 DEF ClientIInv, CallsKeepToTheirCode, SigningIn
<1>3. PICK after :
        /\ sessions' = [sessions EXCEPT ![c] = after]
        /\ \/ after = Opened(sessions[c])
           \/ after \in Identified(sessions[c], call[c].email)
           \/ after \in Proved(sessions[c], call[c].password)
           \/ after = Reviewed(sessions[c])
  BY OwnSession DEF FlowAnswerLost
<1>4. /\ after \in SessionType
      /\ \/ after = sessions[c]
         \/ after.stage = "identification"
         \/ after.stage = "password" /\ after.named = call[c].email
         \/ /\ after.stage \in {"further", "redirect"} /\ after.named = call[c].email /\ Proven(c)
            /\ after.stage = "further" => after.left > 0
  <2>1. CASE after = Opened(sessions[c])
    <3>1. after = sessions[c] \/ after = [sessions[c] EXCEPT !.stage = "identification"]
      BY <2>1 DEF Opened
    <3> QED
      BY OwnSession, <3>1 DEF SessionType, Stages
  <2>2. CASE after \in Identified(sessions[c], call[c].email)
    <3>1. after = sessions[c] \/ after = [sessions[c] EXCEPT !.stage = "password", !.named = call[c].email]
      BY <2>2 DEF Identified
    <3> QED
      BY OwnSession, <1>2, <3>1 DEF SessionType, Stages, OrNone
  <2>3. CASE after \in Proved(sessions[c], call[c].password)
    <3>1. \/ after = sessions[c]
          \/ /\ sessions[c].stage = "password" /\ accounts[sessions[c].named] = call[c].password
             /\ \E n \in FlowLengths :
                  after = [sessions[c] EXCEPT !.stage = IF n = 0 THEN "redirect" ELSE "further", !.left = n]
      BY <2>3 DEF Proved
    <3>2. CASE after = sessions[c]
      BY OwnSession, <3>2
    <3>3. ASSUME NEW n \in FlowLengths, sessions[c].stage = "password",
                 accounts[sessions[c].named] = call[c].password,
                 after = [sessions[c] EXCEPT !.stage = IF n = 0 THEN "redirect" ELSE "further", !.left = n]
          PROVE  /\ after \in SessionType
                 /\ after.stage \in {"further", "redirect"} /\ after.named = call[c].email /\ Proven(c)
                 /\ after.stage = "further" => after.left > 0
      <4>1. n \in Nat
        OBVIOUS
      <4>2. after \in SessionType
        BY OwnSession, <3>3, <4>1 DEF SessionType, Stages
      <4>3. /\ after.stage = (IF n = 0 THEN "redirect" ELSE "further") /\ after.left = n
            /\ after.named = sessions[c].named
        BY OwnSession, <3>3 DEF SessionType
      <4>4. sessions[c].named = call[c].email
        BY <3>3 DEF ClientIInv, SessionsAreEarned
      <4> QED
        BY <1>2, <3>3, <4>1, <4>2, <4>3, <4>4 DEF Proven
    <3> QED
      BY <3>1, <3>2, <3>3
  <2>4. CASE after = Reviewed(sessions[c])
    <3>1. CASE sessions[c].stage # "further"
      BY OwnSession, <2>4, <3>1 DEF Reviewed
    <3>2. CASE sessions[c].stage = "further"
      <4>1. /\ sessions[c].left \in Nat /\ sessions[c].left > 0
            /\ sessions[c].named = call[c].email /\ Proven(c)
        BY OwnSession, <3>2 DEF ClientIInv, SessionsAreEarned, SessionType
      <4>2. after = [sessions[c] EXCEPT !.left = @ - 1,
                       !.stage = IF sessions[c].left = 1 THEN "redirect" ELSE "further"]
        BY <2>4, <3>2 DEF Reviewed
      <4>3. sessions[c].left - 1 \in Nat /\ (sessions[c].left # 1 => sessions[c].left - 1 > 0)
        BY <4>1
      <4> QED
        BY OwnSession, <4>1, <4>2, <4>3 DEF SessionType, Stages
    <3> QED
      BY <3>1, <3>2
  <2> QED
    BY <1>3, <2>1, <2>2, <2>3, <2>4
<1>5. /\ sessions' \in [Calls -> SessionType] /\ sessions'[c] = after
      /\ \A d \in Calls \ {c} : sessions'[d] = sessions[d]
  BY OwnSession, <1>3, <1>4
<1>6. ClientTypeOK'
  BY <1>1, <1>5 DEF ClientIInv, ClientTypeOK, Moves
<1>7. CallsKeepToTheirCode'
  BY <1>1 DEF ClientIInv, Moves, CallsKeepToTheirCode, At, SigningIn, LoggingOut, Enrolling
<1>8. SessionsAreEarned'
  BY <1>1, <1>2, <1>4, <1>5 DEF ClientIInv, Moves, CallsKeepToTheirCode, SessionsAreEarned,
     Proven, At, SigningIn, LoggingOut, Enrolling
<1>9. CodesAreEarned'
  BY <1>1, <1>2 DEF ClientIInv, Moves, CallsKeepToTheirCode, CodesAreEarned,
     Proven, Handed, At, SigningIn, LoggingOut, Enrolling
<1>10. CreatorsAreAlone'
  BY <1>1, <1>2 DEF ClientIInv, Moves, CallsKeepToTheirCode, CreatorsAreAlone, At,
     SigningIn, LoggingOut, Enrolling
<1>11. Handed \subseteq Handed' /\ SecuredByItsCreator
  BY <1>1, <1>2 DEF ClientIInv, Moves, CallsKeepToTheirCode, CreatorsAreAlone, Handed,
     SecuredByItsCreator, At, SigningIn, LoggingOut, Enrolling
<1> QED
  BY <1>6, <1>7, <1>8, <1>9, <1>10, <1>11 DEF Kept, ClientIInv

(* Authentik gives the code to the session of the call. *)
LEMMA AuthorizeKeeps ==
    ASSUME ClientIInv, NEW c \in Calls, Authorize(c)
    PROVE  Kept
<1>1. /\ Moves(c) /\ call[c].at = "authorize"
      /\ \/ /\ call'[c].at = "mint" /\ call'[c].code = sessions[c].named /\ call'[c].result = call[c].result
            /\ sessions[c].stage = "redirect"
         \/ call'[c].at = "ended" /\ call'[c].result = "refused" /\ call'[c].code = call[c].code
  <2>1. CASE sessions[c].stage = "redirect"
    <3> DEFINE moved == [call[c] EXCEPT !.at = "mint", !.code = sessions[c].named]
    <3>1. /\ call \in [Calls -> CallType] /\ call[c] \in CallType /\ "mint" \in Places
          /\ sessions[c].named \in OrNone(Emails)
      BY OwnSession DEF ClientIInv, ClientTypeOK, Places, SessionType
    <3>2. moved \in CallType
      BY <3>1 DEF CallType
    <3>3. call' = [call EXCEPT ![c] = moved] /\ call[c].at = "authorize"
      BY OwnSession, <2>1 DEF Authorize, At
    <3>4. /\ call'[c] = moved /\ call' \in [Calls -> CallType]
          /\ \A d \in Calls \ {c} : call'[d] = call[d]
      BY <3>1, <3>2, <3>3
    <3>5. /\ moved.at = "mint" /\ moved.code = sessions[c].named /\ moved.op = call[c].op
          /\ moved.email = call[c].email /\ moved.password = call[c].password
          /\ moved.token = call[c].token /\ moved.result = call[c].result
      BY <3>1 DEF CallType
    <3> QED
      BY <2>1, <3>3, <3>4, <3>5 DEF Moves
  <2>2. CASE sessions[c].stage # "redirect"
    BY OwnSession, <2>2, EndMoves DEF Authorize, At, Results
  <2> QED
    BY <2>1, <2>2
<1>2. /\ call[c].op = "signIn" /\ call[c].email \in Emails
      /\ UNCHANGED <<accounts, sessions, tokens, jar, creator, faults>>
  BY <1>1 DEF Authorize, authentik, ClientIInv, CallsKeepToTheirCode, SigningIn
<1>3. tokens[c].user # None => call'[c].code = call[c].code
  BY <1>1, <1>2 DEF ClientIInv, CodesAreEarned, SessionsAreEarned
<1>4. ClientTypeOK'
  BY <1>1, <1>2 DEF ClientIInv, ClientTypeOK, Moves
<1>5. CallsKeepToTheirCode'
  BY <1>1, <1>2, <1>3 DEF ClientIInv, Moves, CallsKeepToTheirCode, At, SigningIn, LoggingOut,
     Enrolling
<1>6. SessionsAreEarned'
  BY <1>1, <1>2, <1>3 DEF ClientIInv, Moves, CallsKeepToTheirCode, SessionsAreEarned, Proven, At,
     SigningIn, LoggingOut, Enrolling
<1>7. CodesAreEarned'
  BY <1>1, <1>2, <1>3 DEF ClientIInv, Moves, CallsKeepToTheirCode, SessionsAreEarned,
     CodesAreEarned,
     Proven, Handed, At, SigningIn, LoggingOut, Enrolling
<1>8. CreatorsAreAlone'
  BY <1>1, <1>2, <1>3 DEF ClientIInv, Moves, CallsKeepToTheirCode, CreatorsAreAlone, At,
     SigningIn, LoggingOut, Enrolling
<1>9. Handed \subseteq Handed' /\ SecuredByItsCreator
  BY <1>1, <1>2, <1>3 DEF ClientIInv, Moves, CallsKeepToTheirCode, CreatorsAreAlone, Handed,
     SecuredByItsCreator, At, SigningIn, LoggingOut, Enrolling
<1> QED
  BY <1>4, <1>5, <1>6, <1>7, <1>8, <1>9 DEF Kept, ClientIInv

(* The code becomes a token. *)
LEMMA MintKeeps ==
    ASSUME ClientIInv, NEW c \in Calls, Mint(c)
    PROVE  Kept
<1>1. /\ Moves(c) /\ call[c].at = "mint" /\ call'[c].at = "ended"
      /\ call'[c].code = call[c].code /\ call'[c].result \in {"ok", "failed"}
      /\ faults' \in 0 .. MaxFaults
  <2>1. PICK result \in {"ok", "failed"} : End(c, result)
    BY DEF Mint, Answered
  <2>2. result \in Results /\ faults' \in 0 .. MaxFaults /\ call[c].at = "mint"
    BY DEF Results, Mint, Answered, At, ClientIInv, ClientTypeOK
  <2> QED
    BY <2>1, <2>2, EndMoves
<1>2. /\ call[c].code # None /\ call[c].code \in OrNone(Emails)
      /\ UNCHANGED <<accounts, sessions, jar, creator>>
  BY <1>1 DEF Mint, At, ClientIInv, ClientTypeOK, CallType, CodesAreEarned
<1>3. /\ tokens' \in [Calls -> TokenType] /\ tokens'[c].user = call[c].code
      /\ \A d \in Calls \ {c} : tokens'[d] = tokens[d]
  <2>1. [user |-> call[c].code, live |-> TRUE, expired |-> FALSE] \in TokenType
    BY <1>2 DEF TokenType
  <2> QED
    BY <2>1 DEF Mint, ClientIInv, ClientTypeOK
<1>4. ClientTypeOK'
  BY <1>1, <1>2, <1>3 DEF ClientIInv, ClientTypeOK, Moves
<1>5. CallsKeepToTheirCode'
  BY <1>1, <1>2, <1>3 DEF ClientIInv, Moves, CallsKeepToTheirCode, At, SigningIn, LoggingOut,
     Enrolling
<1>6. SessionsAreEarned'
  BY <1>1, <1>2, <1>3 DEF ClientIInv, Moves, CallsKeepToTheirCode, SessionsAreEarned, Proven, At,
     SigningIn, LoggingOut, Enrolling
<1>7. CodesAreEarned'
  BY <1>1, <1>2, <1>3 DEF ClientIInv, Moves, CallsKeepToTheirCode, SessionsAreEarned,
     CodesAreEarned,
     Proven, Handed, At, SigningIn, LoggingOut, Enrolling
<1>8. CreatorsAreAlone'
  BY <1>1, <1>2, <1>3 DEF ClientIInv, Moves, CallsKeepToTheirCode, CreatorsAreAlone, At,
     SigningIn, LoggingOut, Enrolling
<1>9. Handed \subseteq Handed' /\ SecuredByItsCreator
  BY <1>1, <1>2, <1>3 DEF ClientIInv, Moves, CallsKeepToTheirCode, CreatorsAreAlone, Handed,
     SecuredByItsCreator, At, SigningIn, LoggingOut, Enrolling
<1> QED
  BY <1>4, <1>5, <1>6, <1>7, <1>8, <1>9 DEF Kept, ClientIInv

(* One request of logout() revokes a token and changes no user of one. *)
LEMMA RevokeKeeps ==
    ASSUME ClientIInv, NEW c \in Calls, Revoke(c)
    PROVE  Kept
<1>1. /\ Moves(c) /\ call[c].at = "revoke" /\ call'[c].code = call[c].code
      /\ \/ call'[c].at = "list" /\ call'[c].result = call[c].result
         \/ call'[c].at = "ended" /\ call'[c].result = "failed"
      /\ faults' \in 0 .. MaxFaults
  <2>1. Go(c, "list") \/ End(c, "failed")
    BY DEF Revoke, Answered
  <2>2. /\ "failed" \in Results /\ "list" \in Places
        /\ faults' \in 0 .. MaxFaults /\ call[c].at = "revoke"
    BY DEF Results, Places, Revoke, Answered, At, ClientIInv, ClientTypeOK
  <2> QED
    BY <2>1, <2>2, GoMoves, EndMoves
<1>2. /\ call[c].token \in Calls /\ call[c].op = "logout"
      /\ UNCHANGED <<accounts, sessions, jar, creator>>
  BY <1>1 DEF Revoke, ClientIInv, CallsKeepToTheirCode, LoggingOut
<1>3. tokens' \in [Calls -> TokenType] /\ \A d \in Calls : tokens'[d].user = tokens[d].user
  <2> DEFINE revoked == [tokens[call[c].token] EXCEPT !.live = FALSE]
  <2>1. tokens \in [Calls -> TokenType] /\ tokens[call[c].token] \in TokenType
    BY <1>2 DEF ClientIInv, ClientTypeOK
  <2>2. revoked \in TokenType /\ revoked.user = tokens[call[c].token].user
    BY <2>1 DEF TokenType
  <2>3. tokens' = [tokens EXCEPT ![call[c].token] = revoked]
    BY DEF Revoke
  <2> QED
    BY <1>2, <2>1, <2>2, <2>3
<1>4. ClientTypeOK'
  BY <1>1, <1>2, <1>3 DEF ClientIInv, ClientTypeOK, Moves
<1>5. CallsKeepToTheirCode'
  BY <1>1, <1>2, <1>3 DEF ClientIInv, Moves, CallsKeepToTheirCode, At, SigningIn, LoggingOut,
     Enrolling
<1>6. SessionsAreEarned'
  BY <1>1, <1>2, <1>3 DEF ClientIInv, Moves, CallsKeepToTheirCode, SessionsAreEarned, Proven, At,
     SigningIn, LoggingOut, Enrolling
<1>7. CodesAreEarned'
  BY <1>1, <1>2, <1>3 DEF ClientIInv, Moves, CallsKeepToTheirCode, SessionsAreEarned,
     CodesAreEarned,
     Proven, Handed, At, SigningIn, LoggingOut, Enrolling
<1>8. CreatorsAreAlone'
  BY <1>1, <1>2, <1>3 DEF ClientIInv, Moves, CallsKeepToTheirCode, CreatorsAreAlone, At,
     SigningIn, LoggingOut, Enrolling
<1>9. Handed \subseteq Handed' /\ SecuredByItsCreator
  BY <1>1, <1>2, <1>3 DEF ClientIInv, Moves, CallsKeepToTheirCode, CreatorsAreAlone, Handed,
     SecuredByItsCreator, At, SigningIn, LoggingOut, Enrolling
<1> QED
  BY <1>4, <1>5, <1>6, <1>7, <1>8, <1>9 DEF Kept, ClientIInv

(* terminateUserSessions() looks for sessions of the user, or gives up. *)
LEMMA ListKeeps ==
    ASSUME ClientIInv, NEW c \in Calls, List(c)
    PROVE  Kept
<1>1. /\ Moves(c) /\ call[c].at = "list" /\ call'[c].code = call[c].code
      /\ \/ call'[c].at = "delete" /\ call'[c].result = call[c].result
         \/ call'[c].at = "ended" /\ call'[c].result = "ok"
  <2>1. ASSUME NEW victims \in SUBSET Calls, call' = [call EXCEPT ![c].at = "delete", ![c].victims = victims]
        PROVE  Moves(c) /\ call'[c].code = call[c].code /\ call'[c].at = "delete" /\ call'[c].result = call[c].result
    <3> DEFINE moved == [call[c] EXCEPT !.at = "delete", !.victims = victims]
    <3>1. call \in [Calls -> CallType] /\ call[c] \in CallType /\ "delete" \in Places
      BY DEF ClientIInv, ClientTypeOK, Places
    <3>2. moved \in CallType
      BY <3>1 DEF CallType
    <3>3. /\ call'[c] = moved /\ call' \in [Calls -> CallType]
          /\ \A d \in Calls \ {c} : call'[d] = call[d]
      BY <2>1, <3>1, <3>2
    <3>4. /\ moved.at = "delete" /\ moved.code = call[c].code /\ moved.op = call[c].op
          /\ moved.email = call[c].email /\ moved.password = call[c].password
          /\ moved.token = call[c].token /\ moved.result = call[c].result
      BY <3>1 DEF CallType
    <3> QED
      BY <3>3, <3>4 DEF Moves
  <2>2. SessionsOf(tokens[call[c].token].user) \in SUBSET Calls
    BY DEF SessionsOf
  <2>3. \/ call' = [call EXCEPT ![c].at = "delete", ![c].victims = SessionsOf(tokens[call[c].token].user)]
        \/ End(c, "ok")
    BY DEF List
  <2>4. "ok" \in Results /\ call[c].at = "list"
    BY DEF Results, List, At
  <2> QED
    BY <2>1, <2>2, <2>3, <2>4, EndMoves
<1>2. UNCHANGED <<accounts, sessions, tokens, jar, creator, faults>> /\ call[c].op = "logout"
  BY <1>1 DEF List, authentik, ClientIInv, CallsKeepToTheirCode, LoggingOut
<1>3. TRUE
  OBVIOUS
<1>4. ClientTypeOK'
  BY <1>1, <1>2 DEF ClientIInv, ClientTypeOK, Moves
<1>5. CallsKeepToTheirCode'
  BY <1>1, <1>2, <1>3 DEF ClientIInv, Moves, CallsKeepToTheirCode, At, SigningIn, LoggingOut,
     Enrolling
<1>6. SessionsAreEarned'
  BY <1>1, <1>2, <1>3 DEF ClientIInv, Moves, CallsKeepToTheirCode, SessionsAreEarned, Proven, At,
     SigningIn, LoggingOut, Enrolling
<1>7. CodesAreEarned'
  BY <1>1, <1>2, <1>3 DEF ClientIInv, Moves, CallsKeepToTheirCode, SessionsAreEarned,
     CodesAreEarned,
     Proven, Handed, At, SigningIn, LoggingOut, Enrolling
<1>8. CreatorsAreAlone'
  BY <1>1, <1>2, <1>3 DEF ClientIInv, Moves, CallsKeepToTheirCode, CreatorsAreAlone, At,
     SigningIn, LoggingOut, Enrolling
<1>9. Handed \subseteq Handed' /\ SecuredByItsCreator
  BY <1>1, <1>2, <1>3 DEF ClientIInv, Moves, CallsKeepToTheirCode, CreatorsAreAlone, Handed,
     SecuredByItsCreator, At, SigningIn, LoggingOut, Enrolling
<1> QED
  BY <1>4, <1>5, <1>6, <1>7, <1>8, <1>9 DEF Kept, ClientIInv

(* A session ends. *)
LEMMA DeleteKeeps ==
    ASSUME ClientIInv, NEW c \in Calls, Delete(c)
    PROVE  Kept
<1>1. PICK s \in call[c].victims :
         /\ sessions' = [sessions EXCEPT ![s] = NoSession]
         /\ call' = [call EXCEPT ![c].victims = @ \ {s}]
  BY DEF Delete
<1>2. /\ Moves(c) /\ call'[c].at = call[c].at /\ call'[c].code = call[c].code
      /\ call'[c].result = call[c].result /\ call'[c].tries = call[c].tries
  <2> DEFINE moved == [call[c] EXCEPT !.victims = @ \ {s}]
  <2>1. call \in [Calls -> CallType] /\ call[c] \in CallType
    BY DEF ClientIInv, ClientTypeOK
  <2>2. moved \in CallType
    BY <2>1 DEF CallType
  <2>3. /\ call'[c] = moved /\ call' \in [Calls -> CallType]
        /\ \A d \in Calls \ {c} : call'[d] = call[d]
    BY <1>1, <2>1, <2>2
  <2>4. /\ moved.at = call[c].at /\ moved.code = call[c].code /\ moved.op = call[c].op
        /\ moved.email = call[c].email /\ moved.password = call[c].password
        /\ moved.token = call[c].token /\ moved.result = call[c].result /\ moved.tries = call[c].tries
    BY <2>1 DEF CallType
  <2> QED
    BY <2>3, <2>4 DEF Moves
<1>3. /\ sessions' \in [Calls -> SessionType]
      /\ \A d \in Calls : sessions'[d] = sessions[d] \/ sessions'[d].stage = "none"
      /\ UNCHANGED <<accounts, tokens, jar, creator, faults>>
  <2>1. NoSession \in SessionType /\ NoSession.stage = "none"
    BY DEF NoSession, SessionType, Stages, OrNone
  <2> QED
    BY <1>1, <2>1 DEF Delete, ClientIInv, ClientTypeOK
<1>4. ClientTypeOK'
  BY <1>2, <1>3 DEF ClientIInv, ClientTypeOK, Moves
<1>5. CallsKeepToTheirCode'
  BY <1>2, <1>3 DEF ClientIInv, Moves, CallsKeepToTheirCode, At, SigningIn, LoggingOut, Enrolling
<1>6. SessionsAreEarned'
  BY <1>2, <1>3 DEF ClientIInv, Moves, CallsKeepToTheirCode, SessionsAreEarned, Proven, At,
     SigningIn, LoggingOut, Enrolling
<1>7. CodesAreEarned'
  BY <1>2, <1>3 DEF ClientIInv, Moves, CallsKeepToTheirCode, SessionsAreEarned, CodesAreEarned,
     Proven, Handed, At, SigningIn, LoggingOut, Enrolling
<1>8. CreatorsAreAlone'
  BY <1>2, <1>3 DEF ClientIInv, Moves, CallsKeepToTheirCode, CreatorsAreAlone, At, SigningIn,
     LoggingOut, Enrolling
<1>9. Handed \subseteq Handed' /\ SecuredByItsCreator
  BY <1>2, <1>3 DEF ClientIInv, Moves, CallsKeepToTheirCode, CreatorsAreAlone, Handed,
     SecuredByItsCreator, At, SigningIn, LoggingOut, Enrolling
<1> QED
  BY <1>4, <1>5, <1>6, <1>7, <1>8, <1>9 DEF Kept, ClientIInv

(* The account comes into being without a password. *)
LEMMA CreateKeeps ==
    ASSUME ClientIInv, NEW c \in Calls, Create(c)
    PROVE  Kept
<1>0. call[c].at = "create" /\ call[c].op = "enroll" /\ call[c].email \in Emails
  BY DEF Create, At, ClientIInv, CallsKeepToTheirCode, Enrolling
<1>1. /\ Moves(c) /\ call'[c].code = call[c].code
      /\ \/ call'[c].at = "secure" /\ call'[c].result = call[c].result
         \/ call'[c].at = "ended" /\ call'[c].result \in {"failed", "refused"}
      /\ faults' \in 0 .. MaxFaults
  <2>1. Go(c, "secure") \/ \E result \in {"failed", "refused"} : End(c, result)
    BY DEF Create, Answered
  <2>2. {"failed", "refused"} \subseteq Results /\ "secure" \in Places /\ faults' \in 0 .. MaxFaults
    BY DEF Results, Places, Create, Answered, ClientIInv, ClientTypeOK
  <2> QED
    BY <2>1, <2>2, GoMoves, EndMoves
<1>2. /\ UNCHANGED <<sessions, tokens, jar>>
      /\ \/ call'[c].at = "ended" /\ UNCHANGED <<accounts, creator>>
         \/ /\ accounts[call[c].email] = "absent"
            /\ accounts' = [accounts EXCEPT ![call[c].email] = "unusable"]
            /\ creator' = [creator EXCEPT ![call[c].email] = c]
  <2>1. CASE accounts[call[c].email] = "absent"
    BY <2>1 DEF Create
  <2>2. CASE accounts[call[c].email] # "absent"
    <3>1. End(c, "refused") /\ "refused" \in Results
      BY <2>2 DEF Create, Results
    <3> QED
      BY <2>2, <3>1, EndMoves DEF Create
  <2> QED
    BY <2>1, <2>2
<1>3. \A d \in Calls : Proven(d) => accounts'[call[d].email] = call[d].password
  BY <1>0, <1>1, <1>2 DEF Proven, ClientIInv, ClientTypeOK, CallsKeepToTheirCode
<1>4. ClientTypeOK'
  BY <1>0, <1>1, <1>2 DEF ClientIInv, ClientTypeOK, Moves, OrNone
<1>5. CallsKeepToTheirCode'
  BY <1>0, <1>1, <1>2, <1>3 DEF ClientIInv, Moves, CallsKeepToTheirCode, At, SigningIn,
     LoggingOut, Enrolling
<1>6. SessionsAreEarned'
  BY <1>0, <1>1, <1>2, <1>3 DEF ClientIInv, Moves, CallsKeepToTheirCode, SessionsAreEarned,
     Proven, At,
     SigningIn, LoggingOut, Enrolling
<1>7. CodesAreEarned'
  BY <1>0, <1>1, <1>2, <1>3 DEF ClientIInv, Moves, CallsKeepToTheirCode, SessionsAreEarned,
     CodesAreEarned,
     Proven, Handed, At, SigningIn, LoggingOut, Enrolling
<1>8. CreatorsAreAlone'
  BY <1>0, <1>1, <1>2, <1>3 DEF ClientIInv, ClientTypeOK, Moves, CallsKeepToTheirCode,
     CreatorsAreAlone, At, SigningIn, LoggingOut, Enrolling
<1>9. Handed \subseteq Handed' /\ SecuredByItsCreator
  BY <1>0, <1>1, <1>2, <1>3 DEF ClientIInv, ClientTypeOK, Moves, CallsKeepToTheirCode,
     CreatorsAreAlone, Handed,
     SecuredByItsCreator, At, SigningIn, LoggingOut, Enrolling
<1> QED
  BY <1>4, <1>5, <1>6, <1>7, <1>8, <1>9 DEF Kept, ClientIInv

(* The account gets its password. *)
LEMMA SecureKeeps ==
    ASSUME ClientIInv, NEW c \in Calls, Secure(c)
    PROVE  Kept
<1>0. /\ call[c].at = "secure" /\ call[c].op = "enroll"
      /\ call[c].email \in Emails /\ call[c].password \in Passwords
      /\ creator[call[c].email] = c /\ accounts[call[c].email] = "unusable"
  BY DEF Secure, At, ClientIInv, CallsKeepToTheirCode, CreatorsAreAlone, Enrolling
<1>1. /\ Moves(c) /\ call'[c].code = call[c].code
      /\ call'[c].at = "ended" /\ call'[c].result \in {"ok", "failed"}
      /\ faults' \in 0 .. MaxFaults
  <2>1. PICK result \in {"ok", "failed"} : End(c, result)
    BY DEF Secure, Answered
  <2>2. result \in Results /\ faults' \in 0 .. MaxFaults
    BY DEF Results, Secure, Answered, ClientIInv, ClientTypeOK
  <2> QED
    BY <2>1, <2>2, EndMoves
<1>2. /\ UNCHANGED <<sessions, tokens, jar, creator>>
      /\ accounts' = [accounts EXCEPT ![call[c].email] = call[c].password]
  BY DEF Secure
<1>3. \A d \in Calls : Proven(d) => accounts'[call[d].email] = call[d].password
  BY <1>0, <1>1, <1>2 DEF Proven, ClientIInv, ClientTypeOK, CallsKeepToTheirCode
<1>4. ClientTypeOK'
  BY <1>0, <1>1, <1>2 DEF ClientIInv, ClientTypeOK, Moves
<1>5. CallsKeepToTheirCode'
  BY <1>0, <1>1, <1>2, <1>3 DEF ClientIInv, Moves, CallsKeepToTheirCode, At, SigningIn,
     LoggingOut, Enrolling
<1>6. SessionsAreEarned'
  BY <1>0, <1>1, <1>2, <1>3 DEF ClientIInv, Moves, CallsKeepToTheirCode, SessionsAreEarned,
     Proven, At,
     SigningIn, LoggingOut, Enrolling
<1>7. CodesAreEarned'
  BY <1>0, <1>1, <1>2, <1>3 DEF ClientIInv, Moves, CallsKeepToTheirCode, SessionsAreEarned,
     CodesAreEarned,
     Proven, Handed, At, SigningIn, LoggingOut, Enrolling
<1>8. CreatorsAreAlone'
  BY <1>0, <1>1, <1>2, <1>3 DEF ClientIInv, ClientTypeOK, Moves, CallsKeepToTheirCode,
     CreatorsAreAlone, At, SigningIn, LoggingOut, Enrolling
<1>9. Handed \subseteq Handed' /\ SecuredByItsCreator
  BY <1>0, <1>1, <1>2, <1>3 DEF ClientIInv, ClientTypeOK, Moves, CallsKeepToTheirCode,
     CreatorsAreAlone, Handed,
     SecuredByItsCreator, At, SigningIn, LoggingOut, Enrolling
<1> QED
  BY <1>4, <1>5, <1>6, <1>7, <1>8, <1>9 DEF Kept, ClientIInv

(* Time passes for a token. *)
LEMMA ExpireKeeps ==
    ASSUME ClientIInv, NEW t \in Calls, Expire(t)
    PROVE  Kept
<1>1. /\ tokens' \in [Calls -> TokenType] /\ \A d \in Calls : tokens'[d].user = tokens[d].user
      /\ UNCHANGED <<accounts, sessions, jar, call, creator, faults>>
  <2> DEFINE expired == [tokens[t] EXCEPT !.expired = TRUE]
  <2>1. tokens \in [Calls -> TokenType] /\ tokens[t] \in TokenType
    BY DEF ClientIInv, ClientTypeOK
  <2>2. expired \in TokenType /\ expired.user = tokens[t].user
    BY <2>1 DEF TokenType
  <2>3. tokens' = [tokens EXCEPT ![t] = expired]
    BY DEF Expire
  <2> QED
    BY <2>1, <2>2, <2>3 DEF Expire
<1>2. ClientTypeOK' /\ CallsKeepToTheirCode'
  BY <1>1 DEF ClientIInv, ClientTypeOK, CallsKeepToTheirCode, At
<1>3. SessionsAreEarned' /\ CodesAreEarned' /\ CreatorsAreAlone'
  BY <1>1 DEF ClientIInv, SessionsAreEarned, CodesAreEarned, CreatorsAreAlone, Proven, Handed, At
<1>4. Handed \subseteq Handed' /\ SecuredByItsCreator
  BY <1>1 DEF Handed, SecuredByItsCreator
<1> QED
  BY <1>2, <1>3, <1>4 DEF Kept, ClientIInv

(* Every step of the client keeps its part of the invariant. *)
LEMMA ClientStep == ClientIInv /\ [ClientNext]_clientVars => Kept
<1> SUFFICES ASSUME ClientIInv, [ClientNext]_clientVars PROVE Kept
  OBVIOUS
<1>1. ASSUME NEW c \in Calls, Step(c) PROVE Kept
  BY <1>1, BeginKeeps, IdentifyKeeps, NameKeeps, ProveKeeps, AdvanceKeeps,
     FlowAnswerLostKeeps, AuthorizeKeeps,
     MintKeeps,
     IntrospectKeeps, RevokeKeeps, ListKeeps, DeleteKeeps, LeaveKeeps, CreateKeeps, SecureKeeps,
     UnavailableKeeps DEF Step
<1>2. ASSUME NEW t \in Calls, Expire(t) PROVE Kept
  BY <1>2, ExpireKeeps
<1>3. CASE UNCHANGED clientVars
  BY <1>3 DEF clientVars, authentik, Kept, SecuredByItsCreator, ClientIInv, ClientTypeOK,
     CallsKeepToTheirCode,
     SessionsAreEarned, CodesAreEarned, CreatorsAreAlone, Proven, Handed, At
<1> QED
  BY <1>1, <1>2, <1>3 DEF ClientNext

-----------------------------------------------------------------------------
(* The path of a request *)

(* What the parts of the invariant say of one request. *)
Guarded(q) ==
    /\ q.token \in Handed \cup {Forged, None}
    /\ q.at = "intercept" => q.left \cup q.accepted = DOMAIN Chain
    /\ q.at \in {"handle", "secrets"} \/ q.outcome \in {"ok", "error"} => q.accepted = DOMAIN Chain
    /\ q.at \in {"idle", "intercept"} => q.span = "none"
    /\ q.at \in {"handle", "secrets"} => q.span = IF tracer THEN "open" ELSE "none"
AnsweredAlike(q) ==
    /\ q.answers = (IF q.at = "ended" THEN 1 ELSE 0)
    /\ q.at = "ended" <=> q.outcome # "none"
    /\ q.at = "ended" =>
         q.span = IF ~tracer \/ q.outcome \notin {"ok", "error"} THEN "none"
                  ELSE IF q.outcome = "ok" THEN "OK" ELSE "ERROR"

(* What every step of a request comes to. *)
Handled == IInv' /\ (\A r \in Requests : VerdictIsLocal(r))

(* What the invariant says of one request. *)
LEMMA RequestIs ==
    ASSUME IInv, NEW r \in Requests
    PROVE  /\ request \in [Requests -> RequestType] /\ request[r] \in RequestType
           /\ Guarded(request[r]) /\ AnsweredAlike(request[r])
BY DEF IInv, TypeOK, PathTypeOK, RequestsAreGuarded, Guarded, AnsweredOnce, AnsweredAlike, In

(* The client's part is untouched by a request, but for the faults. *)
LEMMA ClientUntouched ==
    ASSUME ClientIInv, faults' \in 0 .. MaxFaults, UNCHANGED <<authentik, jar, call, creator>>
    PROVE  ClientIInv' /\ Handed' = Handed
<1>1. UNCHANGED <<accounts, sessions, tokens, jar, call, creator>>
  BY DEF authentik
<1>2. ClientTypeOK' /\ CallsKeepToTheirCode'
  BY <1>1 DEF ClientIInv, ClientTypeOK, CallsKeepToTheirCode, At
<1>3. SessionsAreEarned' /\ CodesAreEarned' /\ CreatorsAreAlone' /\ Handed' = Handed
  BY <1>1 DEF ClientIInv, SessionsAreEarned, CodesAreEarned, CreatorsAreAlone, Proven, Handed, At
<1> QED
  BY <1>2, <1>3 DEF ClientIInv

(* A step of one request that is sound for it is sound. *)
LEMMA RequestSteps ==
    ASSUME IInv, NEW r \in Requests, NEW moved \in RequestType,
           request' = [request EXCEPT ![r] = moved], Guarded(moved), AnsweredAlike(moved),
           VerdictIsLocal(r),
           faults' \in 0 .. MaxFaults,
           UNCHANGED <<authentik, jar, call, creator, login, lease, wiring>>
    PROVE  Handled
<1>1. ClientIInv' /\ Handed' = Handed
  BY ClientUntouched DEF IInv
<1>2. /\ request' \in [Requests -> RequestType] /\ request'[r] = moved
      /\ \A s \in Requests \ {r} : request'[s] = request[s]
  BY RequestIs
<1>3. TypeOK'
  BY <1>1, <1>2 DEF IInv, ClientIInv, TypeOK, PathTypeOK, wiring
<1>4. \A s \in Requests : Guarded(request'[s]) /\ AnsweredAlike(request'[s])
  BY <1>2, RequestIs
<1>5. RoutersAreGuarded' /\ RequestsAreGuarded'
  BY <1>1, <1>4 DEF IInv, RoutersAreGuarded, RequestsAreGuarded, Guarded, wiring
<1>6. AnsweredOnce'
  BY <1>4 DEF AnsweredOnce, AnsweredAlike, In, wiring
<1>7. ASSUME NEW s \in Requests PROVE VerdictIsLocal(s)
  <2>1. CASE s = r
    BY <2>1
  <2>2. CASE s # r
    <3>1. request'[s] = request[s] /\ (request[s].at # "ended" => request[s].outcome = "none")
      BY <1>2, <2>2, RequestIs DEF AnsweredAlike
    <3> QED
      BY <3>1 DEF VerdictIsLocal, In
  <2> QED
    BY <2>1, <2>2
<1> QED
  BY <1>1, <1>3, <1>5, <1>6, <1>7 DEF Handled, IInv

(* The drivers put every interceptor around their routers. *)
LEMMA WiringHandled == ASSUME IInv, NEW d \in Drivers, Apply(d) \/ Register(d) PROVE Handled
<1>1. UNCHANGED <<authentik, jar, call, creator, secretsVars, faults, tracer, request>>
  BY DEF Apply, Register, unasked
<1>2. ClientIInv' /\ Handed' = Handed
  BY <1>1, ClientUntouched DEF IInv, ClientIInv, ClientTypeOK
<1>3. /\ applied \in [Drivers -> 0 .. Len(Chain)] /\ guards \in [Drivers -> OrNone(0 .. Len(Chain))]
      /\ Len(Chain) \in Nat
  BY ChainAssumption DEF IInv, TypeOK, PathTypeOK
<1>4. /\ applied' \in [Drivers -> 0 .. Len(Chain)] /\ guards' \in [Drivers -> OrNone(0 .. Len(Chain))]
      /\ RoutersAreGuarded'
  <2>1. CASE Apply(d)
    <3>1. applied[d] + 1 \in 0 .. Len(Chain)
      BY <1>3, <2>1 DEF Apply
    <3> QED
      BY <1>3, <2>1, <3>1 DEF Apply, IInv, RoutersAreGuarded
  <2>2. CASE Register(d)
    <3>1. guards' = [guards EXCEPT ![d] = Len(Chain)] /\ UNCHANGED applied
      BY <2>2 DEF Register
    <3> QED
      BY <1>3, <3>1 DEF IInv, RoutersAreGuarded, OrNone
  <2> QED
    BY <2>1, <2>2
<1>5. TypeOK'
  BY <1>1, <1>2, <1>4 DEF IInv, ClientIInv, TypeOK, PathTypeOK, secretsVars
<1>6. RequestsAreGuarded'
  BY <1>1, <1>2 DEF IInv, RequestsAreGuarded
<1>7. AnsweredOnce'
  BY <1>1 DEF IInv, AnsweredOnce, In
<1>8. \A r \in Requests : VerdictIsLocal(r)
  BY <1>1 DEF IInv, AnsweredOnce, VerdictIsLocal, In
<1> QED
  BY <1>2, <1>4, <1>5, <1>6, <1>7, <1>8 DEF Handled, IInv

(* A request arrives with a token that its sender has. *)
LEMMA ReceiveHandled ==
    ASSUME IInv, NEW r \in Requests, NEW d \in Drivers, NEW t \in Handed \cup {Forged, None}, Receive(r, d, t)
    PROVE  Handled
<1> DEFINE moved == [request[r] EXCEPT !.via = d, !.token = t, !.at = "intercept", !.left = DOMAIN Chain]
<1>0. guards[d] = Len(Chain) /\ DOMAIN Chain = 1 .. Len(Chain)
  BY ChainAssumption DEF Receive, Listening, IInv, RoutersAreGuarded
<1>1. /\ request[r].at = "idle" /\ request' = [request EXCEPT ![r] = moved]
      /\ UNCHANGED <<authentik, jar, call, creator, login, lease, faults, wiring>>
  BY <1>0 DEF Receive, In, unasked, secretsVars
<1>2. moved \in RequestType
  <2>1. t \in OrNone(Calls \cup {Forged}) /\ "intercept" \in Phases
    BY DEF Handed, OrNone, Phases
  <2> QED
    BY <2>1, RequestIs DEF RequestType
<1>3. /\ moved.via = d /\ moved.token = t /\ moved.at = "intercept"
      /\ moved.left = DOMAIN Chain /\ moved.accepted = request[r].accepted
      /\ moved.span = request[r].span /\ moved.answers = request[r].answers
      /\ moved.outcome = request[r].outcome
  BY RequestIs DEF RequestType
<1>4. Guarded(moved) /\ AnsweredAlike(moved)
  <2>1. request[r].accepted \subseteq DOMAIN Chain
    BY RequestIs DEF RequestType
  <2> QED
    BY <1>1, <1>3, <2>1, RequestIs DEF Guarded, AnsweredAlike
<1>5. VerdictIsLocal(r)
  <2>1. request'[r] = moved
    BY <1>1, <1>2, RequestIs
  <2> QED
    BY <1>1, <1>3, <2>1 DEF VerdictIsLocal, In
<1> QED
  BY <1>1, <1>2, <1>4, <1>5, RequestSteps DEF IInv, ClientIInv, TypeOK, ClientTypeOK

(* Only a token that was handed out verifies, and its user is who asked. *)
LEMMA VerifiedIsEarned ==
    ASSUME IInv, NEW r \in Requests, Verified(request[r].token)
    PROVE  LET t == request[r].token
           IN /\ t \in Handed /\ ~tokens[t].expired /\ tokens[t].user = call[t].email
              /\ accounts[call[t].email] = call[t].password
<1>1. /\ request[r].token \in Handed \cap Calls /\ tokens[request[r].token].user # None
      /\ ~tokens[request[r].token].expired
  BY RequestIs DEF Verified, Guarded
<1> QED
  BY <1>1 DEF IInv, ClientIInv, CodesAreEarned, Proven

(* An interceptor refuses a request; AuthentikAuthInterceptor with cause. *)
LEMMA RejectedHandled ==
    ASSUME IInv, NEW r \in Requests, In(r, "intercept"),
           NEW outcome \in {"UNAUTHENTICATED", "INTERNAL"}, Rejected(r, outcome),
           (\E k \in Turn(r) : Chain[k] # "auth") \/ ~Verified(request[r].token) \/ faults' > faults,
           faults' \in 0 .. MaxFaults,
           UNCHANGED <<authentik, jar, call, creator, secretsVars, wiring>>
    PROVE  Handled
<1> DEFINE moved == [request[r] EXCEPT !.answers = @ + 1, !.outcome = outcome, !.at = "ended"]
<1>1. /\ request' = [request EXCEPT ![r] = moved] /\ request[r].at = "intercept"
      /\ UNCHANGED <<login, lease>>
  BY DEF Rejected, In, secretsVars
<1>2. moved \in RequestType
  <2>1. "ended" \in Phases /\ outcome \in Outcomes
    BY DEF Phases, Outcomes
  <2>2. request[r].answers + 1 \in Nat
    BY RequestIs DEF RequestType
  <2> QED
    BY <2>1, <2>2, RequestIs DEF RequestType
<1>3. /\ moved.via = request[r].via /\ moved.token = request[r].token /\ moved.at = "ended"
      /\ moved.left = request[r].left /\ moved.accepted = request[r].accepted
      /\ moved.span = request[r].span
      /\ moved.answers = request[r].answers + 1 /\ moved.outcome = outcome
  BY RequestIs DEF RequestType
<1> HIDE DEF moved
<1>4. Guarded(moved) /\ AnsweredAlike(moved)
  <2>1. request[r].answers = 0 /\ request[r].span = "none" /\ request[r].token \in Handed \cup {Forged, None}
    BY <1>1, RequestIs DEF Guarded, AnsweredAlike
  <2>2. Guarded(moved)
    BY <1>3, <2>1 DEF Guarded
  <2>3. AnsweredAlike(moved)
    BY <1>3, <2>1 DEF AnsweredAlike
  <2> QED
    BY <2>2, <2>3
<1>5. VerdictIsLocal(r)
  <2>1. request'[r] = moved
    BY <1>1, <1>2, RequestIs
  <2>2. request[r].token \in Handed /\ ~tokens[request[r].token].expired => Verified(request[r].token)
    BY DEF IInv, ClientIInv, CodesAreEarned, Handed, Verified
  <2> QED
    BY <1>1, <1>3, <2>1, <2>2 DEF VerdictIsLocal, In
<1> QED
  BY <1>1, <1>2, <1>4, <1>5, RequestSteps DEF IInv, TypeOK

(* An interceptor lets a request pass. *)
LEMMA AcceptedHandled ==
    ASSUME IInv, NEW r \in Requests, In(r, "intercept"), NEW k \in Turn(r), Accepted(r, k),
           Chain[k] # "auth" \/ Verified(request[r].token),
           UNCHANGED <<authentik, jar, call, creator, secretsVars, faults, wiring>>
    PROVE  Handled
<1> DEFINE moved == [request[r] EXCEPT !.left = @ \ {k}, !.accepted = @ \cup {k}]
<1>1. /\ request' = [request EXCEPT ![r] = moved] /\ request[r].at = "intercept"
      /\ UNCHANGED <<login, lease>>
  BY DEF Accepted, In, secretsVars
<1>2. k \in request[r].left /\ k \in DOMAIN Chain
  BY RequestIs DEF Turn, RequestType
<1>3. moved \in RequestType
  BY <1>2, RequestIs DEF RequestType
<1>4. /\ moved.via = request[r].via /\ moved.token = request[r].token /\ moved.at = request[r].at
      /\ moved.left = request[r].left \ {k} /\ moved.accepted = request[r].accepted \cup {k}
      /\ moved.span = request[r].span
      /\ moved.answers = request[r].answers /\ moved.outcome = request[r].outcome
  BY RequestIs DEF RequestType
<1>5. Guarded(moved) /\ AnsweredAlike(moved)
  <2>1. request[r].outcome = "none"
    BY <1>1, RequestIs DEF AnsweredAlike
  <2> QED
    BY <1>1, <1>2, <1>4, <2>1, RequestIs DEF Guarded, AnsweredAlike
<1>6. VerdictIsLocal(r)
  <2>1. request'[r] = moved /\ request[r].outcome = "none"
    BY <1>1, <1>3, RequestIs DEF AnsweredAlike
  <2>2. \A j \in request'[r].accepted \ request[r].accepted : j = k
    BY <1>4, <2>1
  <2>3. CASE Chain[k] # "auth"
    BY <1>4, <2>1, <2>2, <2>3 DEF VerdictIsLocal
  <2>4. CASE Verified(request[r].token)
    BY <1>4, <2>1, <2>4, VerifiedIsEarned DEF VerdictIsLocal
  <2> QED
    BY <2>3, <2>4
<1> QED
  BY <1>1, <1>3, <1>5, <1>6, RequestSteps DEF IInv, TypeOK, ClientIInv, ClientTypeOK

(* AuthentikAuthInterceptor looks at a request. *)
LEMMA AuthenticateHandled == ASSUME IInv, NEW r \in Requests, Authenticate(r) PROVE Handled
<1>1. /\ In(r, "intercept")
      /\ UNCHANGED <<authentik, jar, call, creator, secretsVars, wiring>>
      /\ faults' \in 0 .. MaxFaults
  BY DEF Authenticate, unasked, IInv, ClientIInv, ClientTypeOK
<1>2. ASSUME NEW k \in Turn(r), Verified(request[r].token), Accepted(r, k), UNCHANGED faults
      PROVE  Handled
  BY <1>1, <1>2, AcceptedHandled
<1>3. CASE ~Verified(request[r].token) /\ Rejected(r, "UNAUTHENTICATED") /\ UNCHANGED faults
  BY <1>1, <1>3, RejectedHandled
<1>4. CASE faults' = faults + 1 /\ Rejected(r, "UNAUTHENTICATED")
  <2>1. faults' > faults
    BY <1>4 DEF IInv, ClientIInv, ClientTypeOK
  <2> QED
    BY <1>1, <1>4, <2>1, RejectedHandled
<1> QED
  BY <1>2, <1>3, <1>4 DEF Authenticate

(* So does any other interceptor. *)
LEMMA InterceptHandled == ASSUME IInv, NEW r \in Requests, Intercept(r) PROVE Handled
<1>1. PICK k \in Turn(r) :
         /\ Chain[k] # "auth"
         /\ Accepted(r, k) \/ \E o \in {"UNAUTHENTICATED", "INTERNAL"} : Rejected(r, o)
  BY DEF Intercept
<1>2. /\ In(r, "intercept") /\ faults' \in 0 .. MaxFaults
      /\ UNCHANGED <<authentik, jar, call, creator, secretsVars, faults, wiring>>
  BY DEF Intercept, unasked, IInv, ClientIInv, ClientTypeOK
<1>3. CASE Accepted(r, k)
  BY <1>1, <1>2, <1>3, AcceptedHandled
<1>4. ASSUME NEW o \in {"UNAUTHENTICATED", "INTERNAL"}, Rejected(r, o) PROVE Handled
  BY <1>1, <1>2, <1>4, RejectedHandled
<1> QED
  BY <1>1, <1>3, <1>4

(* A request enters its handler. *)
LEMMA EnterHandled == ASSUME IInv, NEW r \in Requests, Enter(r) PROVE Handled
<1> DEFINE moved == [request[r] EXCEPT !.at = "handle", !.span = IF tracer THEN "open" ELSE "none"]
<1>1. /\ request' = [request EXCEPT ![r] = moved] /\ request[r].at = "intercept"
      /\ request[r].left = {}
      /\ UNCHANGED <<authentik, jar, call, creator, login, lease, faults, wiring>>
  BY DEF Enter, In, unasked, secretsVars
<1>2. moved \in RequestType
  <2>1. "handle" \in Phases /\ {"open", "none"} \subseteq Spans
    BY DEF Phases, Spans
  <2> QED
    BY <2>1, RequestIs DEF RequestType
<1>3. /\ moved.via = request[r].via /\ moved.token = request[r].token /\ moved.at = "handle"
      /\ moved.left = request[r].left /\ moved.accepted = request[r].accepted
      /\ moved.span = (IF tracer THEN "open" ELSE "none")
      /\ moved.answers = request[r].answers /\ moved.outcome = request[r].outcome
  BY RequestIs DEF RequestType
<1>4. request[r].accepted = DOMAIN Chain
  BY <1>1, RequestIs DEF Guarded
<1>5. Guarded(moved) /\ AnsweredAlike(moved)
  BY <1>1, <1>3, <1>4, RequestIs DEF Guarded, AnsweredAlike
<1>6. VerdictIsLocal(r)
  BY <1>1, <1>2, <1>3, RequestIs DEF VerdictIsLocal, In, AnsweredAlike
<1> QED
  BY <1>1, <1>2, <1>5, <1>6, RequestSteps DEF IInv, TypeOK, ClientIInv, ClientTypeOK

(* The use case settles. *)
LEMMA SettledHandled ==
    ASSUME IInv, NEW r \in Requests, request[r].at \in {"handle", "secrets"},
           NEW outcome \in {"ok", "error"}, Settled(r, outcome),
           faults' \in 0 .. MaxFaults,
           UNCHANGED <<authentik, jar, call, creator, login, lease, wiring>>
    PROVE  Handled
<1> DEFINE moved == [request[r] EXCEPT !.at = "ended", !.outcome = outcome,
                       !.span = Ended(r, outcome), !.answers = @ + 1]
<1>1. request' = [request EXCEPT ![r] = moved]
  BY DEF Settled
<1>2. Ended(r, outcome) = IF ~tracer THEN "none" ELSE IF outcome = "ok" THEN "OK" ELSE "ERROR"
  BY RequestIs DEF Ended, Guarded
<1>3. moved \in RequestType
  <2>1. "ended" \in Phases /\ outcome \in Outcomes /\ {"none", "OK", "ERROR"} \subseteq Spans
    BY DEF Phases, Outcomes, Spans
  <2>2. request[r].answers + 1 \in Nat
    BY RequestIs DEF RequestType
  <2>3. Ended(r, outcome) \in Spans
    BY <1>2, <2>1
  <2> QED
    BY <2>1, <2>2, <2>3, RequestIs DEF RequestType
<1>4. /\ moved.via = request[r].via /\ moved.token = request[r].token /\ moved.at = "ended"
      /\ moved.left = request[r].left /\ moved.accepted = request[r].accepted
      /\ moved.span = Ended(r, outcome)
      /\ moved.answers = request[r].answers + 1 /\ moved.outcome = outcome
  BY RequestIs DEF RequestType
<1> HIDE DEF moved
<1>5. Guarded(moved)
  BY <1>4, RequestIs DEF Guarded
<1>6. AnsweredAlike(moved)
  <2>1. tracer \in BOOLEAN /\ request[r].answers = 0
    BY RequestIs DEF AnsweredAlike, IInv, TypeOK, PathTypeOK
  <2> QED
    BY <1>2, <1>4, <2>1 DEF AnsweredAlike
<1>7. VerdictIsLocal(r)
  BY <1>1, <1>3, <1>4, RequestIs DEF VerdictIsLocal, In
<1> QED
  BY <1>1, <1>3, <1>5, <1>6, <1>7, RequestSteps

(* The use case returns, throws, or turns to OpenBao. *)
LEMMA ExecuteHandled == ASSUME IInv, NEW r \in Requests, Execute(r) PROVE Handled
<1>1. /\ request[r].at = "handle" /\ faults' \in 0 .. MaxFaults
      /\ UNCHANGED <<authentik, jar, call, creator, login, lease, faults, wiring>>
  BY DEF Execute, In, unasked, secretsVars, IInv, TypeOK, ClientIInv, ClientTypeOK
<1>2. ASSUME NEW o \in {"ok", "error"}, Settled(r, o) PROVE Handled
  BY <1>1, <1>2, SettledHandled
<1>3. CASE request' = [request EXCEPT ![r].at = "secrets"]
  <2> DEFINE moved == [request[r] EXCEPT !.at = "secrets"]
  <2>1. moved \in RequestType
    <3>1. "secrets" \in Phases
      BY DEF Phases
    <3> QED
      BY <3>1, RequestIs DEF RequestType
  <2>2. /\ moved.via = request[r].via /\ moved.token = request[r].token /\ moved.at = "secrets"
        /\ moved.left = request[r].left /\ moved.accepted = request[r].accepted
      /\ moved.span = request[r].span
        /\ moved.answers = request[r].answers /\ moved.outcome = request[r].outcome
    BY RequestIs DEF RequestType
  <2>3. Guarded(moved) /\ AnsweredAlike(moved)
    BY <1>1, <2>2, RequestIs DEF Guarded, AnsweredAlike
  <2>4. VerdictIsLocal(r)
    BY <1>1, <1>3, <2>1, <2>2, RequestIs DEF VerdictIsLocal, In
  <2> QED
    BY <1>1, <1>3, <2>1, <2>3, <2>4, RequestSteps
<1> QED
  BY <1>2, <1>3 DEF Execute

(* A request for a secret is answered, or fails. *)
LEMMA SecretsHandled == ASSUME IInv, NEW r \in Requests, GetOrPut(r) \/ NoSecrets(r) PROVE Handled
<1>1. /\ request[r].at = "secrets" /\ faults' \in 0 .. MaxFaults
      /\ UNCHANGED <<authentik, jar, call, creator, login, lease, wiring>>
  BY DEF GetOrPut, NoSecrets, In, unasked, secretsVars, IInv, ClientIInv, ClientTypeOK
<1>2. PICK o \in {"ok", "error"} : Settled(r, o)
  BY DEF GetOrPut, NoSecrets, Answer
<1> QED
  BY <1>1, <1>2, SettledHandled

-----------------------------------------------------------------------------
(* Every step *)

(* The initial state satisfies the invariant. *)
LEMMA InitIInv == Init => IInv
<1> SUFFICES ASSUME Init PROVE IInv
  OBVIOUS
<1>1. ClientIInv
  BY InitClient DEF Init
<1>2. Fresh \in RequestType
  BY DEF Fresh, RequestType, OrNone, Phases, Spans, Outcomes
<1>3. TypeOK
  BY <1>1, <1>2, ChainAssumption DEF Init, SecretsInit, PathInit, TypeOK, PathTypeOK, OrNone, ClientIInv
<1>4. RoutersAreGuarded /\ RequestsAreGuarded /\ AnsweredOnce
  BY DEF Init, PathInit, Fresh, RoutersAreGuarded, RequestsAreGuarded, AnsweredOnce, In
<1> QED
  BY <1>1, <1>3, <1>4 DEF IInv

(* A step of the client or of OpenBao leaves every request where it is. *)
LEMMA OthersHandled ==
    ASSUME IInv, Kept, UNCHANGED pathVars, login' \in {"none", "failed", "done"},
           lease' \in {"none", "live", "expired"}
    PROVE  Handled
<1>1. /\ ClientIInv' /\ Handed \subseteq Handed' /\ UNCHANGED <<tracer, applied, guards, request>>
  BY DEF Kept, pathVars
<1>2. TypeOK'
  BY <1>1 DEF IInv, ClientIInv, TypeOK, PathTypeOK
<1>3. RoutersAreGuarded' /\ RequestsAreGuarded'
  BY <1>1 DEF IInv, RoutersAreGuarded, RequestsAreGuarded
<1>4. AnsweredOnce'
  BY <1>1 DEF IInv, AnsweredOnce, In
<1>5. \A r \in Requests : VerdictIsLocal(r)
  BY <1>1 DEF IInv, AnsweredOnce, VerdictIsLocal, In
<1> QED
  BY <1>1, <1>2, <1>3, <1>4, <1>5 DEF Handled, IInv

(* Every step keeps the invariant and is what the action properties allow. *)
LEMMA NextHandled == IInv /\ [Next]_vars => Handled /\ SecuredByItsCreator
<1> SUFFICES ASSUME IInv, [Next]_vars PROVE Handled /\ SecuredByItsCreator
  OBVIOUS
<1>1. login \in {"none", "failed", "done"} /\ lease \in {"none", "live", "expired"}
  BY DEF IInv, TypeOK
<1>2. CASE ClientNext /\ UNCHANGED <<secretsVars, pathVars>>
  BY <1>1, <1>2, ClientStep, OthersHandled DEF IInv, secretsVars, Kept
<1>3. CASE (Login \/ LeaseExpires) /\ UNCHANGED <<clientVars, pathVars>>
  <2>1. /\ login' \in {"none", "failed", "done"} /\ lease' \in {"none", "live", "expired"}
       
    BY <1>1, <1>3 DEF Login, LeaseExpires
  <2> QED
    BY <1>3, <2>1, ClientStep, OthersHandled DEF IInv, Kept
<1>4. CASE PathNext
  <2>1. Handled
    BY <1>4, WiringHandled, ReceiveHandled, AuthenticateHandled, InterceptHandled,
     EnterHandled,
       ExecuteHandled, SecretsHandled DEF PathNext
  <2>2. UNCHANGED <<accounts, call>>
    BY <1>4 DEF PathNext, Apply, Register, Receive, Authenticate, Intercept, Enter, Execute, GetOrPut,
       NoSecrets, unasked, authentik
  <2> QED
    BY <2>1, <2>2 DEF SecuredByItsCreator
<1>5. CASE UNCHANGED vars
  <2>1. Kept
    BY <1>5, ClientStep DEF IInv, vars
  <2> QED
    BY <1>1, <1>5, <2>1, OthersHandled DEF vars, secretsVars, Kept
<1> QED
  BY <1>2, <1>3, <1>4, <1>5 DEF Next, Quiet

-----------------------------------------------------------------------------
(* The cause of a refusal *)

(* logout() of the user has ended the session of c. *)
LoggedOut(c) == sessions[c] = NoSession /\ \E d \in Calls : call[d].op = "logout" /\ c \notin call[d].victims

(* A refused sign-in has a cause: what RefusedForCause says of one call.      *)
HasCause(c) == call[c].op = "signIn" /\ call[c].result = "refused" =>
    \/ accounts[call[c].email] # call[c].password
    \/ creator[call[c].email] # None
    \/ call[c].tries + sessions[c].left > 5
    \/ LoggedOut(c)

(* The stage Authentik is at is the one that the call expects, unless the     *)
(* session was ended when it had got to the redirect.                         *)
PastTheFlow == {"authorize", "mint", "ended"}
InStep(c) ==
    /\ At(c, "identify") => sessions[c].stage = "none"
    /\ At(c, "name") => sessions[c].stage = "identification"
    /\ At(c, "prove") => sessions[c].stage = "password"
    /\ At(c, "advance") => sessions[c].stage = "further"
    /\ At(c, "authorize") => sessions[c].stage = "redirect" \/ LoggedOut(c)
    /\ sessions[c].stage = "redirect" => call[c].at \in PastTheFlow

(* Only logout() ends sessions, and only those that were at the redirect.     *)
EndsWhatIsOver(c) ==
    /\ call[c].victims # {} => call[c].op = "logout"
    /\ \A s \in call[c].victims :
         /\ call[s].at \in PastTheFlow
         /\ sessions[s].stage = "redirect" \/ sessions[s] = NoSession

Causes == \A c \in Calls : HasCause(c) /\ InStep(c) /\ EndsWhatIsOver(c)

(* The password of an account or its creator as a cause of a refusal stays.   *)
Mistaken(c) == accounts[call[c].email] # call[c].password \/ creator[call[c].email] # None

(* A step of one call that moves no session but its own, and its own only     *)
(* while no logout() can have it among the sessions it ends.                  *)
LEMMA CausesFramed ==
    ASSUME ClientIInv, Causes, NEW c \in Calls,
           \A d \in Calls \ {c} : call'[d] = call[d] /\ sessions'[d] = sessions[d],
           \A d \in Calls \ {c} : call[d].op = "signIn" /\ Mistaken(d) => Mistaken(d)',
           call[c].op = "logout" => call'[c].op = "logout",
           \A s \in call'[c].victims \ call[c].victims :
             s \in Calls \ {c} /\ sessions[s].stage = "redirect",
           call'[c].victims # {} => call'[c].op = "logout",
           call[c].at \in PastTheFlow => sessions'[c] = sessions[c] /\ call'[c].at \in PastTheFlow,
           HasCause(c)', InStep(c)'
    PROVE  Causes'
<1>1. \A d \in Calls : call[d].victims \subseteq Calls
  BY DEF ClientIInv, ClientTypeOK, CallType
<1>2. \A d \in Calls \ {c} : LoggedOut(d) => LoggedOut(d)'
  BY DEF LoggedOut, NoSession
<1>3. \A d \in Calls \ {c} : HasCause(d)' /\ InStep(d)'
  BY <1>2 DEF Causes, HasCause, InStep, Mistaken, At
<1>4. \A s \in Calls : call[s].at \in PastTheFlow =>
                          call'[s].at \in PastTheFlow /\ sessions'[s] = sessions[s]
  OBVIOUS
<1>5. ASSUME NEW d \in Calls, NEW s \in call'[d].victims
      PROVE  /\ s \in Calls /\ call[s].at \in PastTheFlow
             /\ sessions[s].stage = "redirect" \/ sessions[s] = NoSession
  <2>1. CASE s \in call[d].victims
    BY <1>1, <2>1 DEF Causes, EndsWhatIsOver
  <2>2. CASE s \notin call[d].victims
    BY <1>5, <2>2 DEF Causes, InStep
  <2> QED
    BY <2>1, <2>2
<1>6. \A d \in Calls : EndsWhatIsOver(d)'
  <2>1. \A d \in Calls : call'[d].victims # {} => call'[d].op = "logout"
    BY DEF Causes, EndsWhatIsOver
  <2> QED
    BY <1>4, <1>5, <2>1 DEF EndsWhatIsOver, NoSession
<1> QED
  BY <1>3, <1>6 DEF Causes

(* What is the same for every step that leaves accounts alone. *)
LEMMA MistakesStay ==
    ASSUME NEW d \in Calls, call'[d] = call[d], UNCHANGED <<accounts, creator>>
    PROVE  Mistaken(d) => Mistaken(d)'
BY DEF Mistaken

LEMMA BeginCauses ==
    ASSUME ClientIInv, Causes, NEW c \in Calls,
           \/ \E e \in Emails, p \in Passwords : SignIn(c, e, p) \/ Enroll(c, e, p)
           \/ \E t \in Handed \cup {Forged} : Logout(c, t)
    PROVE  Causes'
<1>1. PICK op \in {"signIn", "logout", "enroll"}, e \in OrNone(Emails), p \in OrNone(Passwords),
           t \in OrNone(Calls \cup {Forged}), first \in {"identify", "introspect", "create"} :
         /\ Begin(c, op, e, p, t, first)
         /\ op = "signIn" <=> first = "identify"
  BY DEF SignIn, Enroll, Logout, Handed, OrNone
<1>2. /\ At(c, "idle") /\ call' = [call EXCEPT ![c] = Called(op, first, e, p, t)]
      /\ UNCHANGED <<accounts, sessions, tokens, jar, creator, faults>>
  BY <1>1 DEF Begin, authentik
<1>3. /\ call'[c].op = op /\ call'[c].at = first /\ call'[c].victims = {} /\ call'[c].result = "none"
      /\ \A d \in Calls \ {c} : call'[d] = call[d]
  BY <1>2 DEF Called, ClientIInv, ClientTypeOK
<1>4. call[c].op = "none" /\ sessions[c].stage = "none"
  <2>1. call[c].op = "none"
    BY <1>2 DEF ClientIInv, CallsKeepToTheirCode, At
  <2> QED
    BY <2>1, OwnSession DEF ClientIInv, SessionsAreEarned
<1>5. HasCause(c)' /\ InStep(c)'
  BY <1>2, <1>3, <1>4 DEF HasCause, InStep, At, PastTheFlow
<1> QED
  BY <1>2, <1>3, <1>4, <1>5, CausesFramed, MistakesStay DEF At, PastTheFlow

(* A call that ends with anything but a refusal. *)
LEMMA EndingCauses ==
    ASSUME ClientIInv, Causes, NEW c \in Calls, Moves(c), call'[c].at = "ended",
           call'[c].victims = call[c].victims, call'[c].result # "refused",
           UNCHANGED <<sessions, accounts, creator>>
    PROVE  Causes'
<1>1. HasCause(c)' /\ InStep(c)'
  BY DEF HasCause, InStep, At, PastTheFlow
<1> QED
  BY <1>1, CausesFramed, MistakesStay DEF Moves, Causes, EndsWhatIsOver, PastTheFlow

(* A call of logout() or enroll() that goes on. *)
LEMMA GoingOnCauses ==
    ASSUME ClientIInv, Causes, NEW c \in Calls, Moves(c), call'[c].at \in LoggingOut \cup Enrolling,
           call[c].at \in LoggingOut \cup Enrolling, call[c].op # "signIn",
           call'[c].victims = call[c].victims,
           UNCHANGED <<sessions, accounts, creator>>
    PROVE  Causes'
<1>1. sessions[c].stage = "none"
  BY OwnSession DEF ClientIInv, SessionsAreEarned
<1>2. HasCause(c)' /\ InStep(c)'
  BY <1>1 DEF HasCause, InStep, At, PastTheFlow, LoggingOut, Enrolling, Moves
<1> QED
  BY <1>2, CausesFramed, MistakesStay DEF Moves, Causes, EndsWhatIsOver, PastTheFlow, LoggingOut, Enrolling

LEMMA IdentifyCauses ==
    ASSUME ClientIInv, Causes, NEW c \in Calls, Identify(c) PROVE Causes'
<1> DEFINE after == Opened(sessions[c])
<1>1. call[c].at = "identify" /\ sessions[c].stage = "none" /\ sessions[c] \in SessionType
  BY OwnSession DEF Identify, At, Causes, InStep
<1>2. after.stage = "identification"
  BY <1>1 DEF Opened, SessionType
<1>3. /\ sessions' = [sessions EXCEPT ![c] = after] /\ Go(c, "name")
      /\ UNCHANGED <<accounts, creator>>
  BY <1>2, OwnSession DEF Identify, FlowStep
<1>4. /\ Moves(c) /\ call'[c].at = "name" /\ call'[c].victims = call[c].victims
      /\ call'[c].result = call[c].result
  BY <1>3, GoMoves DEF Places
<1>5. sessions'[c] = after /\ \A d \in Calls \ {c} : sessions'[d] = sessions[d]
  BY <1>3, OwnSession
<1>6. call[c].result = "none"
  BY <1>1 DEF ClientIInv, CallsKeepToTheirCode, At
<1>7. HasCause(c)' /\ InStep(c)'
  BY <1>2, <1>4, <1>5, <1>6 DEF HasCause, InStep, At, PastTheFlow
<1> QED
  BY <1>1, <1>3, <1>4, <1>5, <1>7, CausesFramed, MistakesStay
     DEF Moves, Causes, EndsWhatIsOver, PastTheFlow

LEMMA NameCauses ==
    ASSUME ClientIInv, Causes, NEW c \in Calls, Name(c) PROVE Causes'
<1>1. /\ call[c].at = "name" /\ sessions[c].stage = "identification" /\ sessions[c] \in SessionType
      /\ call[c].email \in Emails /\ call[c].password \in Passwords /\ call[c].result = "none"
  BY OwnSession DEF Name, At, Causes, InStep, ClientIInv, CallsKeepToTheirCode, SigningIn
<1>2. PICK after \in Identified(sessions[c], call[c].email) :
         FlowStep(c, after, after.stage # "password", "prove")
  BY OwnSession DEF Name
<1>3. \/ after.stage = "password"
      \/ after = sessions[c] /\ accounts[call[c].email] # call[c].password
  BY <1>1 DEF Identified, SessionType
<1>4. /\ sessions' = [sessions EXCEPT ![c] = after] /\ UNCHANGED <<accounts, creator>>
      /\ IF after.stage # "password" THEN End(c, "refused") ELSE Go(c, "prove")
  BY <1>2, OwnSession DEF FlowStep
<1>5. /\ Moves(c) /\ call'[c].victims = call[c].victims
      /\ \/ after.stage = "password" /\ call'[c].at = "prove" /\ call'[c].result = "none"
         \/ after.stage # "password" /\ call'[c].at = "ended" /\ call'[c].result = "refused"
  BY <1>1, <1>4, GoMoves, EndMoves DEF Places, Results
<1>6. sessions'[c] = after /\ \A d \in Calls \ {c} : sessions'[d] = sessions[d]
  BY <1>4, OwnSession
<1>7. HasCause(c)' /\ InStep(c)'
  BY <1>1, <1>3, <1>4, <1>5, <1>6 DEF HasCause, InStep, At, PastTheFlow, Moves
<1> QED
  BY <1>1, <1>4, <1>5, <1>6, <1>7, CausesFramed, MistakesStay
     DEF Moves, Causes, EndsWhatIsOver, PastTheFlow

(* What the loop makes of a challenge: where a session is refused, the flow    *)
(* still wants more.                                                          *)
LEMMA ChallengedCauses ==
    ASSUME ClientIInv, Causes, NEW c \in Calls, call[c].at \in {"prove", "advance"},
           call[c].result = "none", NEW after \in SessionType,
           after.stage \in {"further", "redirect"}, after.stage = "further" => after.left > 0,
           NEW tries \in 0 .. FlowTries, Challenged(c, after, tries)
    PROVE  Causes'
<1>1. /\ Moves(c) /\ call'[c].tries = tries /\ call'[c].victims = call[c].victims
      /\ \/ after.stage = "redirect" /\ call'[c].at = "authorize" /\ call'[c].result = "none"
         \/ after.stage = "further" /\ call'[c].at = "advance" /\ call'[c].result = "none"
         \/ /\ after.stage = "further" /\ tries = FlowTries
            /\ call'[c].at = "ended" /\ call'[c].result = "refused"
      /\ sessions'[c] = after /\ \A d \in Calls \ {c} : sessions'[d] = sessions[d]
      /\ UNCHANGED <<accounts, creator>>
  <2>1. /\ call \in [Calls -> CallType] /\ call[c] \in CallType
    BY DEF ClientIInv, ClientTypeOK
  <2>2. Moves(c) /\ call'[c].tries = tries /\ UNCHANGED <<accounts, creator>>
        /\ sessions' = [sessions EXCEPT ![c] = after]
    BY OwnSession, ChallengedMoves
  <2>3. /\ call'[c].victims = call[c].victims
        /\ call'[c].at = IF after.stage = "redirect" THEN "authorize"
                         ELSE IF tries = FlowTries THEN "ended" ELSE "advance"
        /\ call'[c].result = IF after.stage # "redirect" /\ tries = FlowTries THEN "refused" ELSE call[c].result
    BY <2>1 DEF Challenged, CallType
  <2> QED
    BY <2>2, <2>3, OwnSession
<1>2. after.left \in Nat
  BY DEF SessionType
<1>3. after.stage = "further" /\ tries = FlowTries => tries + after.left > 5
  BY <1>2 DEF FlowTries
<1>4. HasCause(c)' /\ InStep(c)'
  BY <1>1, <1>3 DEF HasCause, InStep, At, PastTheFlow, Moves
<1> QED
  BY <1>1, <1>4, CausesFramed, MistakesStay DEF Moves, Causes, EndsWhatIsOver, PastTheFlow

LEMMA ProveCauses ==
    ASSUME ClientIInv, Causes, NEW c \in Calls, Prove(c) PROVE Causes'
<1>1. /\ call[c].at = "prove" /\ sessions[c].stage = "password" /\ sessions[c] \in SessionType
      /\ call[c].email \in Emails /\ call[c].password \in Passwords /\ call[c].result = "none"
      /\ sessions[c].named = call[c].email
  BY OwnSession DEF Prove, At, Causes, InStep, ClientIInv, CallsKeepToTheirCode, SigningIn,
     SessionsAreEarned
<1>2. PICK after \in Proved(sessions[c], call[c].password) :
         IF after.stage = "password" THEN FlowStep(c, after, TRUE, "ended") /\ UNCHANGED jar
         ELSE Challenged(c, after, 0)
  BY OwnSession DEF Prove
<1>3. CASE accounts[call[c].email] = call[c].password
  <2>1. PICK n \in FlowLengths :
          after = [sessions[c] EXCEPT !.stage = IF n = 0 THEN "redirect" ELSE "further", !.left = n]
    BY <1>1, <1>2, <1>3 DEF Proved
  <2>2. n \in Nat
    OBVIOUS
  <2>3. after \in SessionType
    BY <1>1, <2>1, <2>2 DEF SessionType, Stages
  <2>4. after.stage = (IF n = 0 THEN "redirect" ELSE "further") /\ after.left = n
    BY <1>1, <2>1 DEF SessionType
  <2>5. after.stage \in {"further", "redirect"} /\ (after.stage = "further" => after.left > 0)
    BY <2>2, <2>4
  <2>6. Challenged(c, after, 0)
    BY <1>2, <2>5
  <2>7. 0 \in 0 .. FlowTries
    BY DEF FlowTries
  <2> QED
    BY <1>1, <2>3, <2>5, <2>6, <2>7, ChallengedCauses
<1>4. CASE accounts[call[c].email] # call[c].password
  <2>1. after = sessions[c]
    BY <1>1, <1>2, <1>4 DEF Proved
  <2>2. End(c, "refused") /\ UNCHANGED <<accounts, creator>> /\ sessions' = sessions
    BY <1>1, <1>2, <2>1, OwnSession DEF FlowStep
  <2>3. /\ Moves(c) /\ call'[c].victims = call[c].victims /\ call'[c].at = "ended"
        /\ call'[c].result = "refused"
    BY <2>2, EndMoves DEF Results
  <2>4. HasCause(c)' /\ InStep(c)'
    BY <1>1, <1>4, <2>2, <2>3 DEF HasCause, InStep, At, PastTheFlow, Moves
  <2> QED
    BY <1>1, <2>2, <2>3, <2>4, CausesFramed, MistakesStay
       DEF Moves, Causes, EndsWhatIsOver, PastTheFlow
<1> QED
  BY <1>3, <1>4

LEMMA AdvanceCauses ==
    ASSUME ClientIInv, Causes, NEW c \in Calls, Advance(c) PROVE Causes'
<1> DEFINE after == Reviewed(sessions[c])
<1>1. /\ call[c].at = "advance" /\ sessions[c].stage = "further" /\ sessions[c] \in SessionType
      /\ sessions[c].left > 0 /\ call[c].result = "none" /\ call[c].tries < FlowTries
      /\ call[c].tries \in 0 .. FlowTries
  BY OwnSession DEF Advance, At, Causes, InStep, ClientIInv, CallsKeepToTheirCode, SigningIn,
     SessionsAreEarned, ClientTypeOK, CallType
<1>2. after = [sessions[c] EXCEPT !.left = @ - 1, !.stage = IF sessions[c].left = 1 THEN "redirect" ELSE "further"]
  BY <1>1 DEF Reviewed
<1>3. sessions[c].left \in Nat
  BY <1>1 DEF SessionType
<1>4. sessions[c].left - 1 \in Nat /\ (sessions[c].left # 1 => sessions[c].left - 1 > 0)
  BY <1>1, <1>3
<1>5. /\ after \in SessionType /\ after.stage \in {"further", "redirect"}
      /\ after.stage = "further" => after.left > 0
  BY <1>1, <1>2, <1>4 DEF SessionType, Stages
<1>6. call[c].tries + 1 \in 0 .. FlowTries
  BY <1>1 DEF FlowTries
<1>7. Challenged(c, after, call[c].tries + 1)
  BY OwnSession DEF Advance
<1> HIDE DEF after
<1> QED
  BY <1>1, <1>5, <1>6, <1>7, ChallengedCauses

(* A lost answer ends a sign-in with no refusal. *)
LEMMA FlowAnswerLostCauses ==
    ASSUME ClientIInv, Causes, NEW c \in Calls, FlowAnswerLost(c) PROVE Causes'
<1>1. /\ Moves(c) /\ call[c].at \in {"identify", "name", "prove", "advance"}
      /\ call'[c].at = "ended" /\ call'[c].result = "failed" /\ call'[c].victims = call[c].victims
      /\ UNCHANGED <<accounts, creator>>
  BY EndMoves DEF FlowAnswerLost, Results, At
<1>2. \A d \in Calls \ {c} : sessions'[d] = sessions[d]
  BY OwnSession DEF FlowAnswerLost
<1>3. HasCause(c)' /\ InStep(c)'
  BY <1>1 DEF HasCause, InStep, At, PastTheFlow
<1> QED
  BY <1>1, <1>2, <1>3, CausesFramed, MistakesStay DEF Moves, Causes, EndsWhatIsOver, PastTheFlow

LEMMA AuthorizeCauses ==
    ASSUME ClientIInv, Causes, NEW c \in Calls, Authorize(c) PROVE Causes'
<1>1. /\ call[c].at = "authorize" /\ call[c].result = "none" /\ call[c].op = "signIn"
      /\ sessions[c].stage = "redirect" \/ LoggedOut(c)
      /\ UNCHANGED <<accounts, sessions, creator>>
  BY DEF Authorize, At, Causes, InStep, ClientIInv, CallsKeepToTheirCode, SigningIn, authentik
<1>2. CASE sessions[c].stage = "redirect"
  <2> DEFINE moved == [call[c] EXCEPT !.at = "mint", !.code = sessions[c].named]
  <2>1. call \in [Calls -> CallType] /\ call[c] \in CallType
    BY DEF ClientIInv, ClientTypeOK
  <2>2. call' = [call EXCEPT ![c] = moved]
    BY <1>2, OwnSession DEF Authorize
  <2>3. call'[c] = moved /\ \A d \in Calls \ {c} : call'[d] = call[d]
    BY <2>1, <2>2
  <2>4. /\ moved.at = "mint" /\ moved.victims = call[c].victims /\ moved.result = "none"
        /\ moved.op = "signIn"
    BY <1>1, <2>1 DEF CallType
  <2>5. HasCause(c)' /\ InStep(c)'
    BY <2>3, <2>4 DEF HasCause, InStep, At, PastTheFlow
  <2> QED
    BY <1>1, <2>3, <2>4, <2>5, CausesFramed, MistakesStay DEF Causes, EndsWhatIsOver, PastTheFlow
<1>3. CASE sessions[c].stage # "redirect"
  <2>1. End(c, "refused")
    BY <1>3, OwnSession DEF Authorize
  <2>2. /\ Moves(c) /\ call'[c].victims = call[c].victims /\ call'[c].at = "ended"
        /\ call'[c].result = "refused"
    BY <2>1, EndMoves DEF Results
  <2>3. LoggedOut(c)'
    BY <1>1, <1>3, <2>2 DEF LoggedOut, Moves
  <2>4. HasCause(c)' /\ InStep(c)'
    BY <1>3, <2>2, <2>3 DEF HasCause, InStep, At, PastTheFlow, Moves
  <2> QED
    BY <1>1, <2>2, <2>4, CausesFramed, MistakesStay DEF Moves, Causes, EndsWhatIsOver, PastTheFlow
<1> QED
  BY <1>2, <1>3

LEMMA ListCauses ==
    ASSUME ClientIInv, Causes, NEW c \in Calls, List(c) PROVE Causes'
<1>1. /\ call[c].at = "list" /\ call[c].op = "logout" /\ call[c].result = "none"
      /\ UNCHANGED <<accounts, sessions, creator>>
  BY DEF List, At, ClientIInv, CallsKeepToTheirCode, LoggingOut, authentik
<1>2. CASE End(c, "ok")
  BY <1>1, <1>2, EndMoves, EndingCauses DEF Results
<1>3. ASSUME NEW victims, victims = SessionsOf(tokens[call[c].token].user),
             call' = [call EXCEPT ![c].at = "delete", ![c].victims = victims]
      PROVE  Causes'
  <2>1. sessions[c].stage = "none"
    BY <1>1, OwnSession DEF ClientIInv, SessionsAreEarned
  <2>2. \A s \in victims : s \in Calls \ {c} /\ sessions[s].stage = "redirect"
    BY <1>3, <2>1 DEF SessionsOf
  <2>3. call \in [Calls -> CallType] /\ call[c] \in CallType
    BY DEF ClientIInv, ClientTypeOK
  <2>4. /\ call'[c].victims = victims /\ call'[c].at = "delete" /\ call'[c].op = "logout"
        /\ \A d \in Calls \ {c} : call'[d] = call[d]
    BY <1>1, <1>3, <2>3 DEF CallType
  <2>5. HasCause(c)' /\ InStep(c)'
    BY <1>1, <2>1, <2>4 DEF HasCause, InStep, At
  <2> QED
    BY <1>1, <2>2, <2>4, <2>5, CausesFramed, MistakesStay DEF PastTheFlow
<1> QED
  BY <1>2, <1>3 DEF List

(* The session that a logout() ends is one that was at the redirect; who ends  *)
(* it is the cause of a refusal that follows.                                 *)
LEMMA DeleteCauses ==
    ASSUME ClientIInv, Causes, NEW c \in Calls, Delete(c) PROVE Causes'
<1>1. PICK s \in call[c].victims :
         /\ sessions' = [sessions EXCEPT ![s] = NoSession]
         /\ call' = [call EXCEPT ![c].victims = @ \ {s}]
         /\ UNCHANGED <<accounts, creator>>
  BY DEF Delete
<1>2. call \in [Calls -> CallType] /\ call[c] \in CallType /\ sessions \in [Calls -> SessionType]
  BY DEF ClientIInv, ClientTypeOK
<1>3. /\ s \in Calls /\ call[c].op = "logout" /\ call[s].at \in PastTheFlow
      /\ sessions[s].stage = "redirect" \/ sessions[s] = NoSession
  BY <1>2 DEF Causes, EndsWhatIsOver, CallType
<1>4. /\ call'[c].victims = call[c].victims \ {s} /\ call'[c].op = "logout"
      /\ call'[c].at = call[c].at /\ call'[c].result = call[c].result
      /\ call'[c].email = call[c].email /\ call'[c].password = call[c].password
      /\ call'[c].tries = call[c].tries
      /\ \A d \in Calls \ {c} : call'[d] = call[d]
  BY <1>1, <1>2, <1>3 DEF CallType
<1>5. sessions'[s] = NoSession /\ \A d \in Calls \ {s} : sessions'[d] = sessions[d]
  BY <1>1, <1>2, <1>3
<1>6. \A d \in Calls : call'[d].victims \subseteq call[d].victims /\ call'[d].op = call[d].op
                        /\ call'[d].at = call[d].at
  BY <1>3, <1>4
<1>7. LoggedOut(s)' /\ \A d \in Calls : LoggedOut(d) => LoggedOut(d)'
  BY <1>3, <1>4, <1>5, <1>6 DEF LoggedOut
<1>8. \A d \in Calls : HasCause(d)'
  BY <1>1, <1>3, <1>4, <1>5, <1>6, <1>7 DEF Causes, HasCause
<1>9. \A d \in Calls : InStep(d)'
  BY <1>3, <1>5, <1>6, <1>7 DEF Causes, InStep, At, PastTheFlow, NoSession
<1>10. \A d \in Calls : EndsWhatIsOver(d)'
  <2>1. \A d \in Calls : call[d].victims \in SUBSET Calls
    BY <1>2 DEF CallType
  <2> QED
    BY <1>5, <1>6, <2>1 DEF Causes, EndsWhatIsOver
<1> QED
  BY <1>8, <1>9, <1>10 DEF Causes

(* An account that a sign-in has missed stays the cause: whoever creates it    *)
(* is on record.                                                              *)
LEMMA CreateCauses ==
    ASSUME ClientIInv, Causes, NEW c \in Calls, Create(c) PROVE Causes'
<1>1. /\ call[c].at = "create" /\ call[c].op = "enroll" /\ call[c].email \in Emails
      /\ UNCHANGED sessions /\ sessions[c].stage = "none"
  BY OwnSession DEF Create, At, ClientIInv, CallsKeepToTheirCode, Enrolling, SessionsAreEarned
<1>2. /\ Moves(c) /\ call'[c].victims = call[c].victims
      /\ call'[c].at \in {"secure", "ended"}
  <2>1. Go(c, "secure") \/ \E result \in {"failed", "refused"} : End(c, result)
    BY DEF Create, Answered
  <2>2. {"failed", "refused"} \subseteq Results /\ "secure" \in Places
    BY DEF Results, Places
  <2> QED
    BY <2>1, <2>2, GoMoves, EndMoves
<1>3. \A e \in Emails : \/ accounts'[e] = accounts[e] /\ creator'[e] = creator[e]
                        \/ creator'[e] # None
  <2>1. creator \in [Emails -> OrNone(Calls)] /\ accounts \in [Emails -> Passwords \cup {"absent", "unusable"}]
    BY DEF ClientIInv, ClientTypeOK
  <2>2. \/ UNCHANGED <<accounts, creator>>
        \/ /\ accounts' = [accounts EXCEPT ![call[c].email] = "unusable"]
           /\ creator' = [creator EXCEPT ![call[c].email] = c]
    BY DEF Create
  <2> QED
    BY <2>1, <2>2
<1>4. \A d \in Calls \ {c} : call[d].op = "signIn" /\ Mistaken(d) => Mistaken(d)'
  BY <1>2, <1>3 DEF Mistaken, Moves, ClientIInv, CallsKeepToTheirCode
<1>5. HasCause(c)' /\ InStep(c)'
  BY <1>1, <1>2 DEF HasCause, InStep, At, Moves, PastTheFlow
<1> QED
  BY <1>1, <1>2, <1>4, <1>5, CausesFramed DEF Moves, Causes, EndsWhatIsOver, PastTheFlow

LEMMA SecureCauses ==
    ASSUME ClientIInv, Causes, NEW c \in Calls, Secure(c) PROVE Causes'
<1>1. /\ call[c].at = "secure" /\ call[c].op = "enroll" /\ call[c].email \in Emails
      /\ creator[call[c].email] = c
      /\ UNCHANGED <<sessions, creator>> /\ sessions[c].stage = "none"
      /\ accounts' = [accounts EXCEPT ![call[c].email] = call[c].password]
  BY OwnSession DEF Secure, At, ClientIInv, CallsKeepToTheirCode, Enrolling, SessionsAreEarned,
     CreatorsAreAlone
<1>2. /\ Moves(c) /\ call'[c].victims = call[c].victims /\ call'[c].at = "ended"
      /\ call'[c].result # "refused"
  <2>1. PICK result \in {"ok", "failed"} : End(c, result)
    BY DEF Secure, Answered
  <2>2. result \in Results
    BY DEF Results
  <2> QED
    BY <2>1, <2>2, EndMoves
<1>3. \A e \in Emails : accounts'[e] = accounts[e] \/ creator'[e] # None
  BY <1>1 DEF ClientIInv, ClientTypeOK
<1>4. \A d \in Calls \ {c} : call[d].op = "signIn" /\ Mistaken(d) => Mistaken(d)'
  BY <1>1, <1>2, <1>3 DEF Mistaken, Moves, ClientIInv, CallsKeepToTheirCode
<1>5. HasCause(c)' /\ InStep(c)'
  BY <1>1, <1>2 DEF HasCause, InStep, At, Moves, PastTheFlow
<1> QED
  BY <1>1, <1>2, <1>4, <1>5, CausesFramed DEF Moves, Causes, EndsWhatIsOver, PastTheFlow

(* The steps that move one call on or end it, and nothing a cause rests on. *)
LEMMA PlainCauses ==
    ASSUME ClientIInv, Causes, NEW c \in Calls,
           Unavailable(c) \/ Mint(c) \/ Introspect(c) \/ Revoke(c) \/ LeaveSessions(c)
    PROVE  Causes'
<1>1. UNCHANGED <<sessions, accounts, creator>>
  BY DEF Unavailable, Mint, Introspect, Revoke, LeaveSessions, authentik
<1>2. ASSUME NEW result \in {"ok", "failed", "invalid"}, End(c, result) PROVE Causes'
  <2>1. result \in Results /\ result # "refused"
    BY DEF Results
  <2> QED
    BY <1>1, <1>2, <2>1, EndMoves, EndingCauses
<1>3. ASSUME NEW where \in {"revoke", "list"}, Go(c, where), call[c].at \in {"introspect", "revoke"}
      PROVE  Causes'
  <2>1. where \in Places /\ where \in LoggingOut /\ call[c].at \in LoggingOut /\ call[c].op # "signIn"
    BY <1>3 DEF Places, LoggingOut, ClientIInv, CallsKeepToTheirCode
  <2> QED
    BY <1>1, <1>3, <2>1, GoMoves, GoingOnCauses
<1>4. CASE Unavailable(c)
  BY <1>2, <1>4 DEF Unavailable
<1>5. CASE Mint(c)
  BY <1>2, <1>5 DEF Mint, Answered
<1>6. CASE Introspect(c)
  BY <1>2, <1>3, <1>6 DEF Introspect, At
<1>7. CASE Revoke(c)
  BY <1>2, <1>3, <1>7 DEF Revoke, Answered, At
<1>8. CASE LeaveSessions(c)
  BY <1>2, <1>8 DEF LeaveSessions
<1> QED
  BY <1>4, <1>5, <1>6, <1>7, <1>8

LEMMA InitCauses == ClientInit => Causes
<1> SUFFICES ASSUME ClientInit, NEW c \in Calls PROVE HasCause(c) /\ InStep(c) /\ EndsWhatIsOver(c)
  BY DEF Causes
<1>1. call[c].result # "refused" /\ call[c].victims = {} /\ call[c].at = IF c = Earlier THEN "ended" ELSE "idle"
  BY DEF ClientInit, Called, Idle
<1>2. sessions[c].stage = "redirect" => c = Earlier
  BY DEF ClientInit, NoSession
<1> QED
  BY <1>1, <1>2 DEF HasCause, InStep, EndsWhatIsOver, At, PastTheFlow

LEMMA UntouchedCauses ==
    ASSUME Causes, UNCHANGED <<accounts, sessions, call, creator>> PROVE Causes'
BY DEF Causes, HasCause, InStep, EndsWhatIsOver, LoggedOut, At

(* Every step of the client keeps the causes. *)
LEMMA CausesStay == ClientIInv /\ Causes /\ [ClientNext]_clientVars => Causes'
<1> SUFFICES ASSUME ClientIInv, Causes, [ClientNext]_clientVars PROVE Causes'
  OBVIOUS
<1>1. ASSUME NEW c \in Calls, Step(c) PROVE Causes'
  BY <1>1, BeginCauses, IdentifyCauses, NameCauses, ProveCauses, AdvanceCauses,
     FlowAnswerLostCauses, AuthorizeCauses,
     ListCauses, DeleteCauses, CreateCauses, SecureCauses, PlainCauses DEF Step
<1>2. ASSUME NEW t \in Calls, Expire(t) PROVE Causes'
  BY <1>2, UntouchedCauses DEF Expire
<1>3. CASE UNCHANGED clientVars
  BY <1>3, UntouchedCauses DEF clientVars, authentik
<1> QED
  BY <1>1, <1>2, <1>3 DEF ClientNext

-----------------------------------------------------------------------------
(* The theorems *)

(* The invariant holds for any number of calls, users and requests. *)
THEOREM Invariance == Spec => []IInv
<1>1. IInv /\ [Next]_vars => IInv'
  BY NextHandled DEF Handled
<1> QED
  BY InitIInv, <1>1, PTL DEF Spec

(* The client, the secrets and the requests keep to their types. *)
THEOREM TypeCorrect == Spec => []TypeOK
<1>1. IInv => TypeOK
  BY DEF IInv
<1> QED
  BY Invariance, <1>1, PTL

(* The tokens signIn() hands out are those of the user whose password the    *)
(* call gave, however many sign-ins run side by side.                        *)
THEOREM TokensAreEarned == Spec => []TokenIsForItsCaller
<1>1. IInv => TokenIsForItsCaller
  BY DEF IInv, ClientIInv, CodesAreEarned, Proven, TokenIsForItsCaller, Handed
<1> QED
  BY Invariance, <1>1, PTL

(* No handler runs for a request an interceptor has not let pass, for any    *)
(* chain of interceptors and whatever each of them answers.                  *)
THEOREM HandlersAreGuarded == Spec => []HandledMeansAccepted
<1>1. IInv => HandledMeansAccepted
  BY DEF IInv, RequestsAreGuarded, HandledMeansAccepted, In
<1> QED
  BY Invariance, <1>1, PTL

(* Every request is answered once, and its span tells the same. *)
THEOREM AnswersAreSingle == Spec => []AnsweredOnce
<1>1. IInv => AnsweredOnce
  BY DEF IInv
<1> QED
  BY Invariance, <1>1, PTL

(* A password is set once and by the call that created the account. *)
THEOREM CreatorsSecure == Spec => OnlyItsCreatorSecures
<1>1. IInv /\ [Next]_vars => [SecuredByItsCreator]_clientVars
  BY NextHandled
<1> QED
  BY Invariance, <1>1, PTL DEF Spec, OnlyItsCreatorSecures

(* AuthentikAuthInterceptor admits what it verifies and nothing else. *)
THEOREM VerdictsHold == Spec => VerdictsAreLocal
<1>1. IInv /\ [Next]_vars => [\A r \in Requests : VerdictIsLocal(r)]_<<clientVars, pathVars>>
  BY NextHandled DEF Handled
<1> QED
  BY Invariance, <1>1, PTL DEF Spec, VerdictsAreLocal

(* signIn() refuses only for a cause, however many calls of signIn(), enroll() *)
(* and logout() there are and however many requests the flow wants.           *)
THEOREM RefusalsHaveCauses == Spec => []RefusedForCause
<1>1. Init => Causes
  BY InitCauses DEF Init
<1>2. IInv /\ Causes /\ [Next]_vars => Causes'
  <2> SUFFICES ASSUME IInv, Causes, [Next]_vars PROVE Causes'
    OBVIOUS
  <2>1. CASE ClientNext
    BY <2>1, CausesStay DEF IInv
  <2>2. CASE PathNext
    <3>1. UNCHANGED <<accounts, sessions, call, creator>>
      BY <2>2 DEF PathNext, Apply, Register, Receive, Authenticate, Intercept, Enter, Execute, GetOrPut,
       NoSecrets, unasked, authentik
    <3> QED
      BY <3>1, UntouchedCauses
  <2>3. CASE UNCHANGED clientVars
    BY <2>3, UntouchedCauses DEF clientVars, authentik
  <2> QED
    BY <2>1, <2>2, <2>3 DEF Next, Quiet, vars
<1>3. Causes => RefusedForCause
  BY DEF Causes, HasCause, LoggedOut, RefusedForCause
<1> QED
  BY Invariance, <1>1, <1>2, <1>3, PTL DEF Spec
=============================================================================
