------------------------------- MODULE ContractProofs -------------------------------
(***********************************************************************************)
(* Proofs about Contract: whatever the auth server and the SDK do, command by       *)
(* command and under every fault, is a step of Service or changes nothing a client  *)
(* can see.  First the invariant that ties the history of a call to where the       *)
(* servers stand with it, then one lemma per action.                                *)
(***********************************************************************************)
EXTENDS Contract, AuthServerProofs, RefusalProofs

USE DEF Reg!ClientMoves, Reg!HandlerMoves, LoginMoves, ServingMoves

Steady == ServerInd /\ ContractInd

-----------------------------------------------------------------------------
(* Contract adds nothing to AuthServer but history.                          *)

LEMMA RegisteringIsAStep ==
  ASSUME NEW r \in Runs, Registering(r)
  PROVE  RegistrationStep(r)
BY DEF Registering, RegistrationSettles, RegistrationWrites, RegistrationMoves,
       RegistrationStep, Reg!ClientStep, Reg!HandlerStep

LEMMA LoggingInIsAStep ==
  ASSUME NEW l \in Logins, LoggingIn(l)
  PROVE  LoginStep(l)
BY DEF LoggingIn, LoginSettles, LoginWrites, LoginGoesOn, LoginStep, ClientStep, HandlerStep

LEMMA ContractStepIsServers == [ContractNext]_contractVars => [ServerNext]_serverVars
<1>1. ASSUME NEW r \in Runs, Registering(r), Filing PROVE ServerNext
  BY <1>1, RegisteringIsAStep DEF ServerNext
<1>2. ASSUME NEW l \in Logins, LoggingIn(l), UNCHANGED registration PROVE ServerNext
  BY <1>2, LoggingInIsAStep DEF ServerNext
<1>3. ContractRestart => ServerNext
  BY DEF ContractRestart, ServerNext
<1>4. ASSUME NEW c \in AllCalls, BrokenSettles(c) PROVE UNCHANGED serverVars
  BY <1>4 DEF BrokenSettles
<1>5. UNCHANGED contractVars => UNCHANGED serverVars
  BY DEF contractVars
<1> QED
  BY <1>1, <1>2, <1>3, <1>4, <1>5 DEF ContractNext, ServerNext

\* What the handlers and the SDK do in Contract they do in AuthServer, so every
\* theorem about the server holds of it.
THEOREM ContractIsTheServer == ContractSpec => ServerSpec
<1>1. ContractInit => ServerInit
  BY DEF ContractInit
<1> QED
  BY <1>1, ContractStepIsServers, PTL DEF ContractSpec, ServerSpec

-----------------------------------------------------------------------------
(* What a step says of the history.                                          *)

\* Names of calls are apart.
LEMMA CallsApart ==
  /\ Runs \subseteq AllCalls /\ Logins \subseteq AllCalls
  /\ \A r \in Runs, l \in Logins : r # l
BY ContractAssumption DEF AllCalls

LEMMA TakingEffect ==
  ASSUME ContractTypeOK, NEW c \in AllCalls,
         NEW s \in {"idle"} \cup Svc!AtServer \cup Svc!Outcomes, TakesEffect(c, s)
  PROVE  /\ stage' \in [AllCalls -> {"idle"} \cup Svc!AtServer \cup Svc!Outcomes]
         /\ stage'[c] = s
         /\ \A d \in AllCalls \ {c} : stage'[d] = stage[d]
BY DEF ContractTypeOK, TakesEffect

\* The history of a call changes with its own steps only.
LEMMA OtherStagesStay ==
  ASSUME ContractTypeOK, NEW c \in AllCalls,
         (c \in Runs /\ Registering(c)) \/ (c \in Logins /\ LoggingIn(c))
  PROVE  /\ \A d \in AllCalls \ {c} : stage'[d] = stage[d]
         /\ stage' \in [AllCalls -> {"idle"} \cup Svc!AtServer \cup Svc!Outcomes]
         /\ faulted' \in BOOLEAN
<1>0. \A s : TakesEffect(c, s) => \A d \in AllCalls \ {c} : stage'[d] = stage[d]
  BY DEF TakesEffect, ContractTypeOK
<1>1. \A s \in {"check", "reserve", "enroll", "open", "save", "ok", "rejected", "thrown"} :
        TakesEffect(c, s) => stage' \in [AllCalls -> {"idle"} \cup Svc!AtServer \cup Svc!Outcomes]
  BY DEF TakesEffect, ContractTypeOK, Svc!AtServer, Svc!Outcomes
<1>2. Keeps => /\ \A d \in AllCalls \ {c} : stage'[d] = stage[d]
               /\ stage' \in [AllCalls -> {"idle"} \cup Svc!AtServer \cup Svc!Outcomes]
  BY DEF Keeps, ContractTypeOK
<1>3. faulted \in BOOLEAN
  BY DEF ContractTypeOK
<1> HIDE DEF Keeps, TakesEffect
<1>4. CASE c \in Runs /\ Registering(c)
  BY <1>0, <1>1, <1>2, <1>3, <1>4
     DEF Registering, RegistrationSettles, RegistrationWrites, RegistrationMoves, Ends
<1>5. CASE c \in Logins /\ LoggingIn(c)
  BY <1>0, <1>1, <1>2, <1>3, <1>5
     DEF LoggingIn, LoginSettles, LoginWrites, LoginGoesOn, Ends
<1> QED
  BY <1>4, <1>5

-----------------------------------------------------------------------------
(* Registrations keep the invariant.                                         *)

LEMMA RegistrationsApart ==
  ASSUME RegistrationInd, NEW r \in Runs, RegistrationStep(r)
  PROVE  /\ \A s \in Runs \ {r} : UNCHANGED <<client[s], handler[s], account[s], password[s]>>
         /\ \A a \in Accounts : userRequest[a] # None => userRequest'[a] # None
         /\ client[r] # "idle" => UNCHANGED <<account, password>>
         /\ client'[r] # "idle"
<1> USE NoneIsNoRun DEF RegistrationInd, Reg!TypeOK, Reg!store, Reg!inputs
<1>1. CASE Reg!BeginRegistration(r)
  BY <1>1 DEF Reg!BeginRegistration
<1>2. CASE Reg!ClientStep(r)
  BY <1>2 DEF Reg!ClientStep, Reg!ReceiveEvaluation, Reg!SendEnvelope, Reg!ReceiveStored,
              Reg!ReceiveRefusal, Reg!Waiting
<1>3. CASE Reg!HandlerStep(r)
  BY <1>3 DEF Reg!HandlerStep, Reg!CheckRegistered, Reg!StoreUserRequest, Reg!LoadUserRequest,
              Reg!StoreUserEnvelope, StagesFit
<1>4. CASE Reg!LoseConnection(r) \/ Reg!BodyCutShort(r) \/ Reg!LoseReply(r)
  BY <1>4 DEF Reg!LoseConnection, Reg!BodyCutShort, Reg!LoseReply, StagesFit
<1> QED
  BY <1>1, <1>2, <1>3, <1>4 DEF RegistrationStep

LEMMA OtherRunsAgree ==
  ASSUME Steady, NEW r \in Runs, Registering(r), NEW s \in Runs \ {r}
  PROVE  RunAgrees(s)'
<1>1. RegistrationInd /\ RegistrationStep(r) /\ StagesFit
  BY RegisteringIsAStep DEF Steady, ServerInd, FilingInd, RegistrationInd
<1>2. /\ UNCHANGED <<client[s], handler[s], account[s], password[s]>>
      /\ \A a \in Accounts : userRequest[a] # None => userRequest'[a] # None
  BY <1>1, RegistrationsApart
<1>3. stage'[s] = stage[s]
  BY CallsApart, OtherStagesStay DEF Steady, ContractInd
<1>4. handler[s] = "store" => account[s] \in Accounts
  BY <1>1 DEF StagesFit
<1>5. RunAgrees(s)
  BY DEF Steady, ContractInd
<1> QED
  BY <1>2, <1>3, <1>4, <1>5 DEF RunAgrees

\* What the lemmas about single steps of a run start from.
LEMMA AtRun ==
  ASSUME Steady, NEW r \in Runs
  PROVE  /\ Reg!TypeOK /\ RunAgrees(r) /\ ContractTypeOK /\ ReservationsStand
         /\ stage \in [AllCalls -> {"idle"} \cup Svc!AtServer \cup Svc!Outcomes]
         /\ r \in AllCalls
         /\ client[r] # "idle" => account[r] \in Accounts /\ password[r] \in Passwords
         /\ client[r] \in {"idle", "sealing"} => handler[r] = "none"
         /\ handler[r] \in {"check", "store", "evaluated"} => client[r] \in {"starting", "failed"}
         /\ handler[r] \in {"load", "save", "stored"} => client[r] \in {"finalizing", "failed"}
BY CallsApart
   DEF Steady, ServerInd, FilingInd, ContractInd, StagesFit, ContractTypeOK

LEMMA SettledRunAgrees ==
  ASSUME Steady, NEW r \in Runs, RegistrationSettles(r)
  PROVE  RunAgrees(r)'
<1>1. Keeps
  BY DEF RegistrationSettles, Ends
<1> USE AtRun, <1>1 DEF Keeps, Reg!TypeOK, Reg!store, Reg!inputs, RunAgrees
<1>2. CASE Reg!ReceiveStored(r)
  BY <1>2 DEF Reg!ReceiveStored
<1>3. CASE Reg!ReceiveRefusal(r)
  BY <1>3 DEF Reg!ReceiveRefusal, Reg!Waiting
<1>4. CASE Reg!LoseConnection(r)
  BY <1>4 DEF Reg!LoseConnection, Reg!Waiting
<1> QED
  BY <1>2, <1>3, <1>4 DEF RegistrationSettles

LEMMA WritingRunAgrees ==
  ASSUME Steady, NEW r \in Runs, RegistrationWrites(r)
  PROVE  RunAgrees(r)'
<1> USE AtRun, NoneIsNoRun DEF Keeps, TakesEffect, Reg!TypeOK, Reg!store, Reg!inputs, RunAgrees
<1>1. CASE Reg!StoreUserRequest(r)
  BY <1>1 DEF RegistrationWrites, Reg!StoreUserRequest, Reg!StoreUserEnvelope, Awaiting
<1>2. CASE handler[r] = "store" /\ Reg!LoseReply(r)
  BY <1>2 DEF RegistrationWrites, Reg!LoseReply, Reg!StoreUserRequest, Reg!StoreUserEnvelope, Awaiting
<1>3. CASE Reg!StoreUserEnvelope(r)
  BY <1>3 DEF RegistrationWrites, Reg!LoseReply, Reg!StoreUserRequest, Reg!StoreUserEnvelope
<1>4. CASE handler[r] = "save" /\ Reg!LoseReply(r)
  BY <1>4 DEF RegistrationWrites, Reg!LoseReply, Reg!StoreUserRequest, Reg!StoreUserEnvelope
<1> QED
  BY <1>1, <1>2, <1>3, <1>4 DEF RegistrationWrites

LEMMA MovingRunAgrees ==
  ASSUME Steady, NEW r \in Runs, RegistrationMoves(r)
  PROVE  RunAgrees(r)'
<1> USE AtRun, NoneIsNoRun DEF Keeps, TakesEffect, Reg!TypeOK, Reg!store, Reg!inputs, RunAgrees
<1>1. CASE Reg!BeginRegistration(r) /\ TakesEffect(r, "check")
  BY <1>1 DEF Reg!BeginRegistration
<1>2. CASE Reg!CheckRegistered(r)
  BY <1>2 DEF RegistrationMoves, Reg!CheckRegistered, Reg!BeginRegistration, Reg!ReceiveEvaluation, Reg!SendEnvelope,
              Reg!LoadUserRequest, Reg!BodyCutShort
<1>3. CASE Keeps /\ (Reg!ReceiveEvaluation(r) \/ Reg!SendEnvelope(r))
  BY <1>3 DEF Reg!ReceiveEvaluation, Reg!SendEnvelope
<1>4. CASE Keeps /\ (Reg!LoadUserRequest(r) \/ Reg!BodyCutShort(r))
  BY <1>4 DEF Reg!LoadUserRequest, Reg!BodyCutShort
<1> QED
  BY <1>1, <1>2, <1>3, <1>4 DEF RegistrationMoves

LEMMA RunsStillAgree ==
  ASSUME Steady, NEW r \in Runs, Registering(r)
  PROVE  \A s \in Runs : RunAgrees(s)'
BY OtherRunsAgree, SettledRunAgrees, WritingRunAgrees, MovingRunAgrees DEF Registering

LEMMA FailedRunsStayFailed ==
  ASSUME Steady, NEW r \in Runs, RegistrationStep(r), NEW s \in Runs, client[s] = "failed"
  PROVE  client'[s] = "failed"
<1>1. s # r => client'[s] = client[s]
  BY RegistrationsApart DEF Steady, ServerInd, FilingInd, RegistrationInd
<1> QED
  BY <1>1, AtRun
     DEF RegistrationStep, Reg!ClientStep, Reg!HandlerStep, Reg!BeginRegistration,
         Reg!ReceiveEvaluation, Reg!SendEnvelope, Reg!ReceiveStored, Reg!ReceiveRefusal,
         Reg!CheckRegistered, Reg!StoreUserRequest, Reg!LoadUserRequest, Reg!StoreUserEnvelope,
         Reg!LoseConnection, Reg!BodyCutShort, Reg!LoseReply, Reg!Waiting

\* An envelope on file is there to stay, and found where a login looks for it.
LEMMA FilingKeepsLogins ==
  ASSUME Steady, NEW r \in Runs, RegistrationStep(r), Filing
  PROVE  /\ UNCHANGED <<login, serving, user, secret, seen>>
         /\ \A a \in Accounts : envelope[a] # NoEnvelope => envelope'[a] # NoEnvelope
         /\ \A l \in Logins : onFile'[l] # {} => onFile[l] # {}
<1>1. AuthInd /\ RegistrationInd
  BY DEF Steady, ServerInd, FilingInd, RegistrationInd
<1>2. UNCHANGED <<login, serving, user, secret, seen>>
  BY DEF Filing, local, inputs
<1>3. \A a \in Accounts : envelope[a] # NoEnvelope => envelope'[a] # NoEnvelope
  <2>1. CASE envelope' = envelope
    BY <2>1
  <2>2. CASE envelope' # envelope
    <3>1. /\ account[r] \in Accounts /\ Reg!Filed(r) \in Envelopes
          /\ envelope' = [envelope EXCEPT ![account[r]] = Reg!Filed(r)]
      BY <1>1, <2>2, FilesItsOwn
    <3>2. \A e \in Envelopes : e # NoEnvelope
      BY NoneIsNoRun DEF Envelopes, NoEnvelope
    <3> QED
      BY <1>1, <3>1, <3>2 DEF AuthInd, TypeOK
  <2> QED
    BY <2>1, <2>2
<1>4. \A l \in Logins : login[l] = "finalizing" => onFile[l] # {}
  BY <1>1 DEF AuthInd, StagesAgree
<1>5. \A l \in Logins : onFile'[l] # {} => onFile[l] # {}
  BY <1>4 DEF Filing
<1> QED
  BY <1>2, <1>3, <1>5

LEMMA RegistrationKeepsLogins ==
  ASSUME Steady, NEW r \in Runs, Registering(r), Filing
  PROVE  \A l \in Logins : LoginAgrees(l)'
<1>1. /\ UNCHANGED <<login, serving, user, secret, seen>>
      /\ \A l \in Logins : onFile'[l] # {} => onFile[l] # {}
  BY RegisteringIsAStep, FilingKeepsLogins
<1>2. \A l \in Logins : stage'[l] = stage[l]
  BY CallsApart, OtherStagesStay DEF Steady, ContractInd
<1>3. \A l \in Logins : LoginAgrees(l)
  BY DEF Steady, ContractInd
<1> QED
  BY <1>1, <1>2, <1>3 DEF LoginAgrees

LEMMA RegistrationKeepsReservations ==
  ASSUME Steady, NEW r \in Runs, Registering(r)
  PROVE  ReservationsStand'
<1>0. RegistrationInd /\ RegistrationStep(r) /\ StagesFit
  BY RegisteringIsAStep DEF Steady, ServerInd, FilingInd, RegistrationInd
<1>1. /\ \A a \in Accounts : userRequest[a] # None => userRequest'[a] # None
      /\ \A s \in Runs \ {r} : UNCHANGED <<handler[s], account[s]>>
      /\ client[r] # "idle" => account' = account
  BY <1>0, RegistrationsApart
<1>2. \A s \in Runs \ {r} : stage'[s] = stage[s]
  BY CallsApart, OtherStagesStay DEF Steady, ContractInd
<1>3. ASSUME NEW a \in Accounts, envelope'[a] # NoEnvelope PROVE userRequest'[a] # None
  <2>1. CASE envelope' = envelope
    BY <1>1, <1>3, <2>1, AtRun DEF ReservationsStand
  <2>2. CASE envelope' # envelope
    <3>1. /\ account[r] \in Accounts /\ handler[r] = "save"
          /\ envelope' = [envelope EXCEPT ![account[r]] = Reg!Filed(r)]
      BY <1>0, <2>2, FilesItsOwn
    <3> QED
      BY <1>1, <1>3, <3>1, AtRun DEF ReservationsStand, Reg!TypeOK
  <2> QED
    BY <2>1, <2>2
<1>4. ASSUME NEW s \in Runs, s # r,
             handler'[s] = "save" \/ (Faults = {} /\ stage'[s] = "enroll")
      PROVE  userRequest'[account'[s]] # None
  <2>1. handler[s] = "save" \/ (Faults = {} /\ stage[s] = "enroll")
    BY <1>1, <1>2, <1>4
  <2>2. client[s] # "idle" /\ account[s] \in Accounts
    BY <2>1, AtRun DEF RunAgrees
  <2> QED
    BY <1>1, <1>4, <2>1, <2>2, AtRun DEF ReservationsStand
<1>5. ASSUME handler'[r] = "save" \/ (Faults = {} /\ stage'[r] = "enroll")
      PROVE  userRequest'[account'[r]] # None
  <2> USE AtRun, NoneIsNoRun DEF Reg!TypeOK, Reg!store, Reg!inputs, ReservationsStand, RunAgrees
  <2>1. CASE RegistrationSettles(r)
    BY <1>5, <2>1
       DEF RegistrationSettles, Ends, Keeps, Reg!ReceiveStored, Reg!ReceiveRefusal,
           Reg!LoseConnection, Reg!Waiting
  <2>2. CASE RegistrationWrites(r)
    BY <1>5, <2>2
       DEF RegistrationWrites, TakesEffect, Keeps, Reg!StoreUserRequest, Reg!StoreUserEnvelope,
           Reg!LoseReply, Awaiting
  <2>3. CASE RegistrationMoves(r)
    BY <1>5, <2>3
       DEF RegistrationMoves, TakesEffect, Keeps, Reg!BeginRegistration, Reg!CheckRegistered,
           Reg!ReceiveEvaluation, Reg!SendEnvelope, Reg!LoadUserRequest, Reg!BodyCutShort
  <2> QED
    BY <2>1, <2>2, <2>3 DEF Registering
<1> QED
  BY <1>3, <1>4, <1>5 DEF ReservationsStand

LEMMA RegistrationGoesRight ==
  ASSUME Steady, Faults = {}, NEW r \in Runs, Registering(r)
  PROVE  \A s \in Runs : RunGoesRight(s)'
<1>1. \A s \in Runs \ {r} : UNCHANGED <<client[s], handler[s]>>
  BY RegisteringIsAStep, RegistrationsApart
     DEF Steady, ServerInd, FilingInd, RegistrationInd
<1>2. \A s \in Runs : RunGoesRight(s)
  BY DEF Steady, ContractInd, NothingGoesWrong
<1>3. RunGoesRight(r)'
  <2>1. handler[r] # "none" => ~Reg!RedisMayFail(r)
    BY <1>2 DEF RunGoesRight, Reg!RedisMayFail
  <2>2. RegistrationStep(r)
    BY RegisteringIsAStep
  <2>3. handler[r] = "load" => userRequest[account[r]] # None
    BY AtRun DEF ReservationsStand, RunAgrees
  <2> USE AtRun, <1>2, <2>1 DEF Reg!TypeOK, RunGoesRight, RunAgrees
  <2>4. CASE Reg!BeginRegistration(r)
    BY <2>4 DEF Reg!BeginRegistration
  <2>5. CASE Reg!ClientStep(r)
    BY <2>5 DEF Reg!ClientStep, Reg!ReceiveEvaluation, Reg!SendEnvelope, Reg!ReceiveStored,
                Reg!ReceiveRefusal, Reg!Waiting
  <2>6. CASE Reg!HandlerStep(r)
    BY <2>3, <2>6 DEF Reg!HandlerStep, Reg!CheckRegistered, Reg!StoreUserRequest,
                Reg!LoadUserRequest, Reg!StoreUserEnvelope
  <2>7. CASE Reg!LoseConnection(r) \/ Reg!BodyCutShort(r) \/ Reg!LoseReply(r)
    BY <2>7 DEF Reg!LoseConnection, Reg!BodyCutShort, Reg!LoseReply
  <2> QED
    BY <2>2, <2>4, <2>5, <2>6, <2>7 DEF RegistrationStep
<1> QED
  BY <1>1, <1>2, <1>3 DEF RunGoesRight

LEMMA RegistrationKeepsContract ==
  ASSUME Steady, NEW r \in Runs, Registering(r), Filing, UNCHANGED broken
  PROVE  ContractInd'
<1>0. AuthInd
  BY DEF Steady, ServerInd
<1>1. ContractTypeOK'
  <2>1. /\ stage' \in [AllCalls -> {"idle"} \cup Svc!AtServer \cup Svc!Outcomes]
        /\ faulted' \in BOOLEAN
    BY CallsApart, OtherStagesStay DEF Steady, ContractInd
  <2>2. login' = login /\ \A s \in Runs : client[s] = "failed" => client'[s] = "failed"
    BY RegisteringIsAStep, FailedRunsStayFailed DEF Filing
  <2> QED
    BY <2>1, <2>2 DEF Steady, ContractInd, ContractTypeOK
<1>2. NothingGoesWrong'
  <2> SUFFICES ASSUME Faults = {}
               PROVE  /\ \A s \in Runs : RunGoesRight(s)'
                      /\ \A l \in Logins : LoginGoesRight(l)'
    BY DEF NothingGoesWrong
  <2>1. /\ UNCHANGED <<login, serving, user, secret, seen>>
        /\ \A a \in Accounts : envelope[a] # NoEnvelope => envelope'[a] # NoEnvelope
    BY RegisteringIsAStep, FilingKeepsLogins
  <2>2. \A l \in Logins : stage'[l] = stage[l] /\ LoginGoesRight(l)
    BY CallsApart, OtherStagesStay DEF Steady, ContractInd, NothingGoesWrong
  <2>3. \A l \in Logins : seen[l] # NoEnvelope => user[l] \in Accounts
    BY <1>0 DEF AuthInd, StagesAgree
  <2> QED
    BY <2>1, <2>2, <2>3, RegistrationGoesRight DEF LoginGoesRight
<1> QED
  BY <1>1, <1>2, RunsStillAgree, RegistrationKeepsLogins, RegistrationKeepsReservations
     DEF ContractInd

-----------------------------------------------------------------------------
(* Logins keep the invariant.                                                *)

LEMMA LoginsApart ==
  ASSUME TypeOK, NEW l \in Logins, LoginStep(l)
  PROVE  /\ \A m \in Logins \ {l} :
              UNCHANGED <<login[m], serving[m], user[m], secret[m], seen[m], onFile[m]>>
         /\ login[l] # "idle" => UNCHANGED <<user, secret>>
         /\ UNCHANGED envelope
<1> USE DEF TypeOK, store, inputs, local, history
<1>1. CASE BeginLogin(l)
  BY <1>1 DEF BeginLogin
<1>2. CASE ClientStep(l)
  BY <1>2 DEF ClientStep, ReceiveChallenge, SendToken, ReceiveAccepted, ReceiveRefusal
<1>3. CASE HandlerStep(l)
  BY <1>3 DEF HandlerStep, LoadUserEnvelope, PushNonce, TrimNonces, FindNonce, VerifyToken,
              StoreSessionToken
<1>4. CASE LoseConnection(l) \/ BodyCutShort(l) \/ LoseReply(l) \/ ResendToken(l)
  BY <1>4 DEF LoseConnection, BodyCutShort, LoseReply, ResendToken
<1> QED
  BY <1>1, <1>2, <1>3, <1>4 DEF LoginStep

\* What the lemmas about single steps of a login start from.
LEMMA AtLogin ==
  ASSUME Steady, NEW l \in Logins
  PROVE  /\ TypeOK /\ LoginAgrees(l) /\ ContractTypeOK
         /\ stage \in [AllCalls -> {"idle"} \cup Svc!AtServer \cup Svc!Outcomes]
         /\ l \in AllCalls
         /\ login[l] = "idle" => serving[l] = "none"
         /\ login[l] # "idle" => user[l] \in Accounts /\ secret[l] \in Passwords
         /\ login[l] = "deriving" => serving[l] = "none"
         /\ serving[l] \in Starting => login[l] \in {"starting", "failed"}
         /\ serving[l] \in Finalizing =>
              login[l] \in {"finalizing", "loggedIn", "failed"} /\ onFile[l] # {}
         /\ login[l] \in {"finalizing", "loggedIn"} => onFile[l] # {}
         /\ onFile[l] # {} =>
              login[l] \in {"finalizing", "loggedIn", "failed"} /\ serving[l] \notin Starting
         /\ Faults = {} => LoginGoesRight(l)
BY CallsApart
   DEF Steady, ServerInd, AuthInd, StagesAgree, ContractInd, ContractTypeOK, NothingGoesWrong

LEMMA SettledLoginAgrees ==
  ASSUME Steady, NEW l \in Logins, LoginSettles(l)
  PROVE  LoginAgrees(l)'
<1>1. Keeps
  BY DEF LoginSettles, Ends
<1> USE AtLogin, <1>1
    DEF Keeps, TypeOK, store, local, inputs, history, LoginAgrees, Starting, Finalizing, Opens
<1>2. CASE ReceiveChallenge(l)
  BY <1>2 DEF ReceiveChallenge
<1>3. CASE ReceiveAccepted(l)
  BY <1>3 DEF ReceiveAccepted
<1>4. CASE ReceiveRefusal(l)
  BY <1>4 DEF ReceiveRefusal, Waiting
<1>5. CASE LoseConnection(l)
  BY <1>5 DEF LoseConnection, Waiting
<1> QED
  BY <1>2, <1>3, <1>4, <1>5 DEF LoginSettles

LEMMA WritingLoginAgrees ==
  ASSUME Steady, NEW l \in Logins, LoginWrites(l)
  PROVE  LoginAgrees(l)'
<1> USE AtLogin
    DEF Keeps, TakesEffect, TypeOK, store, local, inputs, history, LoginAgrees, Starting,
        Finalizing, Opens
<1>1. CASE StoreSessionToken(l)
  <2>1. /\ serving[l] = "saveSession"
        /\ serving'[l] \in {"accepted", "serverError"}
        /\ serving'[l] = "accepted" => session'[user[l]] = Token(l)
        /\ UNCHANGED <<login, seen, secret, onFile>>
    BY <1>1 DEF StoreSessionToken, Saved
  <2>2. \/ stage[l] = "save" /\ stage'[l] = "ok"
        \/ stage'[l] = stage[l] /\ (session'[user[l]] # Token(l) \/ stage[l] # "save")
    BY <1>1, <2>1 DEF LoginWrites, StoreSessionToken, LoseReply
  <2> QED
    BY <2>1, <2>2
<1>2. CASE serving[l] = "saveSession" /\ LoseReply(l)
  BY <1>2 DEF LoginWrites, StoreSessionToken, LoseReply
<1> QED
  BY <1>1, <1>2 DEF LoginWrites

LEMMA GoingOnLoginAgrees ==
  ASSUME Steady, NEW l \in Logins, LoginGoesOn(l)
  PROVE  LoginAgrees(l)'
<1> USE AtLogin
    DEF Keeps, TakesEffect, TypeOK, store, local, inputs, history, LoginAgrees, Starting,
        Finalizing, Opens
<1>1. CASE BeginLogin(l) /\ TakesEffect(l, "open")
  BY <1>1 DEF BeginLogin
<1>2. CASE LoadUserEnvelope(l)
  BY <1>2 DEF LoginGoesOn, LoadUserEnvelope, Awaiting, BeginLogin, FindNonce, VerifyToken,
              PushNonce, TrimNonces, SendToken, ResendToken, BodyCutShort, LoseReply,
              ReceiveChallenge
<1>3. CASE FindNonce(l) \/ VerifyToken(l)
  BY <1>3 DEF LoginGoesOn, LoadUserEnvelope, BeginLogin, FindNonce, VerifyToken,
              PushNonce, TrimNonces, SendToken, ResendToken, BodyCutShort, LoseReply,
              ReceiveChallenge
<1>4. CASE Keeps /\ (PushNonce(l) \/ TrimNonces(l))
  BY <1>4 DEF PushNonce, TrimNonces
<1>5. CASE Keeps /\ SendToken(l)
  BY <1>5 DEF SendToken
<1>6. CASE Keeps /\ (ResendToken(l) \/ BodyCutShort(l))
  BY <1>6 DEF ResendToken, BodyCutShort, Working
<1>7. CASE Keeps /\ LoseReply(l)
  BY <1>7 DEF LoseReply
<1>8. CASE Keeps /\ ReceiveChallenge(l) /\ login'[l] # "failed"
  BY <1>8 DEF ReceiveChallenge
<1> QED
  BY <1>1, <1>2, <1>3, <1>4, <1>5, <1>6, <1>7, <1>8 DEF LoginGoesOn

LEMMA LoginsStillAgree ==
  ASSUME Steady, NEW l \in Logins, LoggingIn(l)
  PROVE  \A m \in Logins : LoginAgrees(m)'
<1>1. LoginAgrees(l)'
  BY SettledLoginAgrees, WritingLoginAgrees, GoingOnLoginAgrees DEF LoggingIn
<1>2. ASSUME NEW m \in Logins \ {l} PROVE LoginAgrees(m)'
  <2>1. UNCHANGED <<login[m], serving[m], user[m], secret[m], seen[m], onFile[m]>>
    BY LoggingInIsAStep, LoginsApart, AtLogin
  <2>2. stage'[m] = stage[m]
    BY CallsApart, OtherStagesStay DEF Steady, ContractInd
  <2> QED
    BY <2>1, <2>2, AtLogin DEF LoginAgrees, Opens
<1> QED
  BY <1>1, <1>2

LEMMA LoginKeepsRuns ==
  ASSUME Steady, NEW l \in Logins, LoggingIn(l), UNCHANGED registration
  PROVE  /\ \A r \in Runs : RunAgrees(r)' /\ (RunGoesRight(r) => RunGoesRight(r)')
         /\ ReservationsStand'
<1>1. UNCHANGED envelope
  BY LoggingInIsAStep, LoginsApart DEF Steady, ServerInd, AuthInd
<1>2. \A r \in Runs : stage'[r] = stage[r]
  BY CallsApart, OtherStagesStay DEF Steady, ContractInd
<1>3. ReservationsStand /\ \A r \in Runs : RunAgrees(r)
  BY DEF Steady, ContractInd
<1> QED
  BY <1>1, <1>2, <1>3 DEF registration, RunAgrees, RunGoesRight, ReservationsStand

LEMMA FailedLoginsStayFailed ==
  ASSUME Steady, NEW l \in Logins, LoginStep(l), NEW m \in Logins, login[m] = "failed"
  PROVE  login'[m] = "failed"
<1>1. m # l => login'[m] = login[m]
  BY LoginsApart DEF Steady, ServerInd, AuthInd
<1> QED
  BY <1>1, AtLogin
     DEF LoginStep, ClientStep, HandlerStep, BeginLogin, ReceiveChallenge, SendToken,
         ReceiveAccepted, ReceiveRefusal, LoadUserEnvelope, PushNonce, TrimNonces, FindNonce,
         VerifyToken, StoreSessionToken, LoseConnection, BodyCutShort, LoseReply,
         ResendToken, Waiting

LEMMA LoginGoesOnRight ==
  ASSUME Steady, Faults = {}, NEW l \in Logins, LoggingIn(l)
  PROVE  LoginGoesRight(l)'
<1>1. LoginGoesRight(l) /\ (serving[l] # "none" => ~RedisMayFail(l))
  BY AtLogin DEF LoginGoesRight, RedisMayFail
<1> USE AtLogin, <1>1 DEF TypeOK, store, local, inputs, history, LoginGoesRight, Refusals
<1>2. CASE LoginSettles(l)
  BY <1>2 DEF LoginSettles, Ends, Keeps, ReceiveChallenge, ReceiveAccepted, ReceiveRefusal,
              LoseConnection, Waiting
<1>3. CASE LoginWrites(l)
  BY <1>3 DEF LoginWrites, StoreSessionToken, LoseReply
<1>4. CASE BeginLogin(l)
  <2>1. seen[l] = NoEnvelope
    BY <1>4 DEF BeginLogin, Steady, ServerInd, AuthInd, StagesAgree
  <2> QED
    BY <1>4, <2>1 DEF BeginLogin
<1>5. CASE LoginGoesOn(l) /\ LoadUserEnvelope(l)
  <2>1. serving[l] = "loadEnvelope" /\ l \in Awaiting
    BY <1>5 DEF LoadUserEnvelope, Starting, Awaiting
  <2>2. serving'[l] = "badRequest" => TakesEffect(l, "rejected") /\ seen' = seen
    BY <1>5, <2>1 DEF LoginGoesOn, LoadUserEnvelope, BeginLogin, FindNonce, VerifyToken,
              PushNonce, TrimNonces, SendToken, ResendToken, BodyCutShort, LoseReply,
              ReceiveChallenge
  <2> QED
    BY <1>5, <2>1, <2>2 DEF LoadUserEnvelope, TakesEffect
<1>6. CASE LoginGoesOn(l) /\ (FindNonce(l) \/ VerifyToken(l))
  BY <1>6 DEF LoginGoesOn, TakesEffect, LoadUserEnvelope, BeginLogin, FindNonce, VerifyToken,
              PushNonce, TrimNonces, SendToken, ResendToken, BodyCutShort, LoseReply,
              ReceiveChallenge
<1>7. CASE PushNonce(l) \/ TrimNonces(l) \/ SendToken(l)
  BY <1>7 DEF PushNonce, TrimNonces, SendToken
<1>8. CASE ResendToken(l) \/ BodyCutShort(l) \/ LoseReply(l)
  BY <1>8 DEF ResendToken, BodyCutShort, LoseReply
<1>9. CASE ReceiveChallenge(l)
  BY <1>9 DEF ReceiveChallenge
<1> QED
  BY <1>2, <1>3, <1>4, <1>5, <1>6, <1>7, <1>8, <1>9 DEF LoggingIn, LoginGoesOn

LEMMA LoginKeepsContract ==
  ASSUME Steady, NEW l \in Logins, LoggingIn(l), UNCHANGED <<registration, broken>>
  PROVE  ContractInd'
<1>1. ContractTypeOK'
  <2>1. /\ stage' \in [AllCalls -> {"idle"} \cup Svc!AtServer \cup Svc!Outcomes]
        /\ faulted' \in BOOLEAN
    BY CallsApart, OtherStagesStay DEF Steady, ContractInd
  <2>2. client' = client /\ \A m \in Logins : login[m] = "failed" => login'[m] = "failed"
    BY LoggingInIsAStep, FailedLoginsStayFailed DEF registration
  <2> QED
    BY <2>1, <2>2 DEF Steady, ContractInd, ContractTypeOK
<1>2. NothingGoesWrong'
  <2> SUFFICES ASSUME Faults = {}
               PROVE  /\ \A r \in Runs : RunGoesRight(r)'
                      /\ \A m \in Logins : LoginGoesRight(m)'
    BY DEF NothingGoesWrong
  <2>1. ASSUME NEW m \in Logins \ {l} PROVE LoginGoesRight(m)'
    <3>1. /\ UNCHANGED <<login[m], serving[m], user[m], secret[m], seen[m]>>
          /\ UNCHANGED envelope
      BY LoggingInIsAStep, LoginsApart, AtLogin
    <3>2. stage'[m] = stage[m]
      BY CallsApart, OtherStagesStay DEF Steady, ContractInd
    <3> QED
      BY <3>1, <3>2, AtLogin DEF LoginGoesRight
  <2>2. \A r \in Runs : RunGoesRight(r)
    BY DEF Steady, ContractInd, NothingGoesWrong
  <2> QED
    BY <2>1, <2>2, LoginGoesOnRight, LoginKeepsRuns
<1> QED
  BY <1>1, <1>2, LoginsStillAgree, LoginKeepsRuns DEF ContractInd

-----------------------------------------------------------------------------
(* So does everything else.                                                  *)

LEMMA ExpiryKeepsContract ==
  ASSUME Steady, NEW a \in Accounts, ExpireSession(a), Keeps, faulted' = TRUE,
         UNCHANGED <<registration, broken>>
  PROVE  ContractInd'
<1>1. UNCHANGED <<envelope, login, serving, user, secret, seen, onFile, stage,
                  userRequest, client, handler, account>>
  BY DEF ExpireSession, local, inputs, history, Keeps, registration
<1> QED
  BY <1>1 DEF Steady, ContractInd, ContractTypeOK, RunAgrees, ReservationsStand, LoginAgrees,
              NothingGoesWrong, RunGoesRight, LoginGoesRight, Opens

LEMMA RestartKeepsContract ==
  ASSUME Steady, ContractRestart
  PROVE  ContractInd'
<1>0. /\ TypeOK /\ Reg!TypeOK /\ ContractTypeOK /\ ReservationsStand /\ Faults # {}
      /\ \A r \in Runs : RunAgrees(r)
      /\ \A l \in Logins : LoginAgrees(l)
  BY DEF Steady, ServerInd, AuthInd, FilingInd, ContractInd, ContractRestart, ServerRestart, Crash
<1>1. /\ UNCHANGED <<stage, account, onFile, seen, secret>>
      /\ handler' = [r \in Runs |-> "none"] /\ serving' = [l \in Logins |-> "none"]
      /\ \A r \in Runs :
           client'[r] = IF client[r] \in {"starting", "finalizing"} THEN "failed" ELSE client[r]
      /\ \A l \in Logins :
           login'[l] = IF login[l] \in {"starting", "finalizing"} THEN "failed" ELSE login[l]
      /\ faulted' \in BOOLEAN
  BY <1>0 DEF ContractRestart, ServerRestart, Crash, Reg!Crash, Keeps, Reg!Waiting, Waiting,
              local, inputs, history, Reg!inputs, ContractTypeOK
<1>2. ContractTypeOK'
  BY <1>0, <1>1 DEF ContractTypeOK, ContractRestart, Reg!Waiting, Waiting
<1>3. \A r \in Runs : RunAgrees(r)'
  BY <1>0, <1>1 DEF RunAgrees
<1>4. \A l \in Logins : LoginAgrees(l)'
  BY <1>0, <1>1 DEF LoginAgrees, Opens
<1>5. ReservationsStand'
  <2>1. \A a \in Accounts : envelope'[a] # NoEnvelope => userRequest'[a] # None
    BY <1>0 DEF ContractRestart, ServerRestart, Crash, Reg!Crash, store, Reg!store,
                ReservationsStand
  <2> QED
    BY <1>0, <1>1, <2>1 DEF ReservationsStand
<1>6. NothingGoesWrong'
  BY <1>0 DEF NothingGoesWrong
<1> QED
  BY <1>2, <1>3, <1>4, <1>5, <1>6 DEF ContractInd

LEMMA SettlingKeepsContract ==
  ASSUME Steady, NEW c \in AllCalls, BrokenSettles(c)
  PROVE  ContractInd'
<1>1. UNCHANGED <<envelope, login, serving, user, secret, seen, onFile, stage,
                  userRequest, client, handler, account>>
  BY DEF BrokenSettles, Ends, Keeps, serverVars, vars, registration
<1>2. faulted' \in BOOLEAN /\ broken' \subseteq broken
  BY DEF BrokenSettles, Ends, Steady, ContractInd, ContractTypeOK
<1> QED
  BY <1>1, <1>2
     DEF Steady, ContractInd, ContractTypeOK, RunAgrees, ReservationsStand, LoginAgrees,
         NothingGoesWrong, RunGoesRight, LoginGoesRight, Opens

LEMMA StutterKeepsContract ==
  ASSUME Steady,
         UNCHANGED contractVars
           \/ (Reg!Finished /\ Finished /\ UNCHANGED <<stage, faulted, broken>>)
  PROVE  ContractInd'
<1>1. UNCHANGED <<envelope, login, serving, user, secret, seen, onFile, stage, faulted, broken,
                  userRequest, client, handler, account>>
  BY DEF contractVars, serverVars, vars, registration, Reg!Finished, Reg!vars, Finished
<1> QED
  BY <1>1
     DEF Steady, ContractInd, ContractTypeOK, RunAgrees, ReservationsStand, LoginAgrees,
         NothingGoesWrong, RunGoesRight, LoginGoesRight, Opens

LEMMA ContractNextKeepsInd == Steady /\ [ContractNext]_contractVars => ContractInd'
<1> SUFFICES ASSUME Steady, [ContractNext]_contractVars PROVE ContractInd'
  OBVIOUS
<1> QED
  BY RegistrationKeepsContract, LoginKeepsContract, ExpiryKeepsContract, RestartKeepsContract,
     SettlingKeepsContract, StutterKeepsContract
     DEF ContractNext

LEMMA ContractInitInd == ContractInit => ContractInd
<1> SUFFICES ASSUME ContractInit PROVE ContractInd
  OBVIOUS
<1> USE CallsApart, NoneIsNoRun DEF ContractInit, ServerInit, Init, Reg!Init
<1>1. ContractTypeOK
  BY DEF ContractTypeOK
<1>2. ReservationsStand
  BY DEF ReservationsStand
<1>3. NothingGoesWrong
  BY DEF NothingGoesWrong, RunGoesRight, LoginGoesRight, Refusals
<1>4. (\A r \in Runs : RunAgrees(r)) /\ (\A l \in Logins : LoginAgrees(l))
  BY DEF RunAgrees, LoginAgrees
<1> QED
  BY <1>1, <1>2, <1>3, <1>4 DEF ContractInd

\* How far a call has taken effect is told by where handlers and SDK stand with it,
\* what it relies on is still there, and without faults nothing is refused that
\* Service would not refuse.
THEOREM ContractInductive == ContractSpec => []ContractInd
<1>1. ContractSpec => [](AuthInd /\ FilingInd)
  BY ContractIsTheServer, ServerInductive, PTL
<1>2. AuthInd /\ FilingInd /\ ContractInd /\ [ContractNext]_contractVars => ContractInd'
  BY ContractNextKeepsInd DEF Steady, ServerInd
<1>3. ContractInit => ContractInd
  BY ContractInitInd
<1> QED
  BY <1>1, <1>2, <1>3, PTL DEF ContractSpec

-----------------------------------------------------------------------------
(* What a client sees of a state.                                            *)

LEMMA ServiceCalls == Svc!Calls = AllCalls /\ Runs \subseteq AllCalls /\ Logins \subseteq AllCalls
BY DEF Svc!Calls, Svc!Ops, AllCalls

\* The constants of the instance are ones Service is meant for.
LEMMA ServiceIsMeantForThese ==
  /\ (Runs \cup Logins) \cap Svc!Ops = {}
  /\ Empty \in Names \cap (Passwords \cup {Empty})
  /\ None \notin Svc!Calls \cup Names \cup Passwords \cup {Empty}
  /\ {"free", "reserved", "spoilt"} \cap Svc!Calls = {}
  /\ MaxNonces \in Nat
  /\ FaultsNow \subseteq {"link", "repeat", "restart", "expiry"}
BY ContractAssumption, AuthenticationAssumption, NoneIsNoRun
   DEF Names, AllCalls, FaultsNow, Svc!Calls, Svc!Ops

\* The instance of Service counts as everybody does.
LEMMA ServiceCounts ==
  \A S : /\ Svc!IsFiniteSet(S) <=> IsFiniteSet(S)
         /\ Svc!Cardinality(S) = Cardinality(S)
<1>1. ASSUME NEW S PROVE Svc!IsFiniteSet(S) <=> IsFiniteSet(S)
  BY DEF Svc!IsFiniteSet, IsFiniteSet
<1>2. ASSUME NEW S PROVE Svc!Cardinality(S) = Cardinality(S)
  BY DEF Svc!Cardinality, Cardinality
<1> QED
  BY <1>1, <1>2

\* A step that shows in none of it is none of Service's.
LEMMA Unseen ==
  ASSUME UNCHANGED <<AccountNow, AdmittedNow, SessionNow, ArgsNow, Awaiting, stage, faulted>>
  PROVE  UNCHANGED Svc!service
BY DEF Svc!service

LEMMA ArgsStay ==
  ASSUME \A r \in Runs : /\ client'[r] = "idle" <=> client[r] = "idle"
                         /\ client[r] # "idle" => UNCHANGED <<account[r], password[r]>>,
         \A l \in Logins : /\ login'[l] = "idle" <=> login[l] = "idle"
                           /\ login[l] # "idle" => UNCHANGED <<user[l], secret[l]>>
  PROVE  ArgsNow' = ArgsNow
<1>1. ASSUME NEW c \in AllCalls PROVE ArgsNow'[c] = ArgsNow[c]
  BY DEF ArgsNow, Asked
<1> QED
  BY <1>1 DEF ArgsNow

LEMMA AwaitingStays ==
  ASSUME \A r \in Runs : client'[r] \in {"starting", "sealing", "finalizing"}
                           <=> client[r] \in {"starting", "sealing", "finalizing"},
         \A l \in Logins : login'[l] \in {"starting", "deriving", "finalizing"}
                             <=> login[l] \in {"starting", "deriving", "finalizing"},
         broken' = broken
  PROVE  Awaiting' = Awaiting
BY DEF Awaiting

LEMMA AccountStays ==
  ASSUME UNCHANGED <<userRequest, envelope>>
  PROVE  AccountNow' = AccountNow
BY DEF AccountNow

LEMMA AdmittedStays ==
  ASSUME UNCHANGED admitted
  PROVE  AdmittedNow' = AdmittedNow
BY DEF AdmittedNow

LEMMA SessionStays ==
  ASSUME UNCHANGED session
  PROVE  SessionNow' = SessionNow
BY DEF SessionNow

\* What a call was made with.
LEMMA RunsArgs ==
  ASSUME Steady, NEW r \in Runs, client[r] # "idle"
  PROVE  /\ ArgsNow[r].op = "register" /\ ArgsNow[r].password = password[r]
         /\ Svc!user(r) = account[r]
         /\ ~Svc!Panics(ArgsNow[r])
         /\ account[r] \in Accounts /\ account[r] # Empty
BY CallsApart, AtRun, ContractAssumption DEF ArgsNow, Asked, Svc!user, Svc!Panics

LEMMA LoginsArgs ==
  ASSUME Steady, NEW l \in Logins, login[l] # "idle"
  PROVE  /\ ArgsNow[l].op = "login" /\ ArgsNow[l].password = secret[l]
         /\ Svc!user(l) = user[l]
         /\ ~Svc!Panics(ArgsNow[l])
         /\ user[l] \in Accounts /\ user[l] # Empty
BY CallsApart, AtLogin, ContractAssumption DEF ArgsNow, Asked, Svc!user, Svc!Panics

\* Any fault but an expiry may break a call off.
LEMMA AnyFaultBreaksOff == Faults # {} => "link" \in FaultsNow
BY DEF FaultsNow

\* A promise settles.
LEMMA SettlesAs ==
  ASSUME ContractTypeOK, NEW c \in AllCalls, NEW outcome \in Svc!Outcomes,
         c \in Awaiting, ~Svc!Panics(ArgsNow[c]),
         stage[c] # outcome =>
           /\ outcome \in {"rejected"} \cup (IF ArgsNow[c].op = "register" THEN {"thrown"} ELSE {})
           /\ Faults # {},
         Ends(c, outcome), Awaiting' = Awaiting \ {c},
         UNCHANGED <<AccountNow, AdmittedNow, SessionNow, ArgsNow>>
  PROVE  Svc!ServiceNext
<1>1. Svc!Settles(c, outcome)
  <2>1. faulted \in BOOLEAN
    BY DEF ContractTypeOK
  <2>2. stage' = stage
    BY DEF Ends, Keeps
  <2>3. CASE stage[c] = outcome
    <3>1. faulted' = faulted
      BY <2>1, <2>3 DEF Ends
    <3> QED
      BY <2>2, <2>3, <3>1 DEF Svc!Settles, Svc!store
  <2>4. CASE stage[c] # outcome
    <3>1. faulted' = TRUE
      BY <2>1, <2>4 DEF Ends
    <3> QED
      BY <2>2, <2>4, <3>1, AnyFaultBreaksOff DEF Svc!Settles, Svc!store
  <2> QED
    BY <2>3, <2>4
<1> QED
  BY <1>1, ServiceCalls DEF Svc!ServiceNext

-----------------------------------------------------------------------------
(* The steps of a registration.                                              *)

LEMMA RunGoingOn ==
  ASSUME Steady, NEW r \in Runs, RegistrationStep(r), Filing, client[r] # "idle"
  PROVE  UNCHANGED <<ArgsNow, SessionNow>>
<1>1. /\ \A s \in Runs \ {r} : UNCHANGED <<client[s], handler[s], account[s], password[s]>>
      /\ UNCHANGED <<account, password>>
      /\ client'[r] # "idle"
  BY RegistrationsApart DEF Steady, ServerInd, FilingInd, RegistrationInd
<1>2. UNCHANGED <<login, user, secret, session>>
  BY DEF Filing, local, inputs
<1> QED
  BY <1>1, <1>2, ArgsStay, SessionStays

LEMMA BeginRegistrationSends ==
  ASSUME Steady, NEW r \in Runs, Reg!BeginRegistration(r), TakesEffect(r, "check"), Filing,
         UNCHANGED <<faulted, broken>>
  PROVE  Svc!ServiceNext
<1>1. PICK a \in Accounts, p \in Passwords :
        /\ account' = [account EXCEPT ![r] = a]
        /\ password' = [password EXCEPT ![r] = p]
  BY DEF Reg!BeginRegistration
<1>2. /\ client[r] = "idle" /\ stage[r] = "idle"
      /\ client' = [client EXCEPT ![r] = "starting"]
      /\ UNCHANGED <<userRequest, envelope, admitted>>
      /\ UNCHANGED <<session, login, user, secret>>
      /\ Reg!TypeOK
  BY AtRun DEF Reg!BeginRegistration, RunAgrees, Reg!store, Filing, local, inputs
<1>3. UNCHANGED <<AccountNow, AdmittedNow, SessionNow>>
  BY <1>2, AccountStays, AdmittedStays, SessionStays
<1>4. ArgsNow' = [ArgsNow EXCEPT ![r] = Svc!Register(a, p)]
  <2>1. account'[r] = a /\ password'[r] = p /\ client'[r] # "idle"
    BY <1>1, <1>2 DEF Reg!TypeOK
  <2>2. ASSUME NEW c \in AllCalls, c # r PROVE ArgsNow'[c] = ArgsNow[c]
    BY <1>1, <1>2, <2>2 DEF ArgsNow, Asked
  <2>3. ArgsNow'[r] = Svc!Register(a, p)
    BY <2>1, CallsApart DEF ArgsNow, Asked, Svc!Register
  <2> QED
    BY <2>2, <2>3, CallsApart DEF ArgsNow
<1>5. Awaiting' = Awaiting \cup {r}
  <2>1. client'[r] = "starting" /\ \A s \in Runs \ {r} : client'[s] = client[s]
    BY <1>2 DEF Reg!TypeOK
  <2> QED
    BY <1>2, <2>1 DEF Awaiting
<1>6. ~Svc!Panics(Svc!Register(a, p)) /\ a \in Names /\ p \in Passwords \cup {Empty}
  BY ContractAssumption DEF Svc!Panics, Svc!Register, Names
<1>7. Svc!Send(r, Svc!Register(a, p))
  <2>1. stage' = [stage EXCEPT ![r] = "check"]
    BY DEF TakesEffect
  <2>2. Svc!Register(a, p).op = "register" /\ Svc!FirstStage["register"] = "check"
    BY DEF Svc!Register, Svc!FirstStage
  <2> QED
    BY <1>2, <1>3, <1>4, <1>5, <1>6, <2>1, <2>2 DEF Svc!Send, Svc!Moves, Svc!store
<1> QED
  BY <1>2, <1>6, <1>7, ServiceCalls DEF Svc!ServiceNext, Svc!Sends

\* The answer to the start request arrives, the envelope is sealed and sent, the
\* request read back: nothing takes effect.
LEMMA QuietRegistration ==
  ASSUME Steady, NEW r \in Runs, Filing, Keeps, UNCHANGED <<faulted, broken>>,
         Reg!ReceiveEvaluation(r) \/ Reg!SendEnvelope(r) \/ Reg!LoadUserRequest(r)
           \/ Reg!BodyCutShort(r)
  PROVE  UNCHANGED Svc!service
<1>1. RegistrationStep(r) /\ client[r] # "idle"
  BY AtRun DEF RegistrationStep, Reg!ClientStep, Reg!HandlerStep, Reg!ReceiveEvaluation,
               Reg!SendEnvelope, Reg!LoadUserRequest, Reg!BodyCutShort
<1>2. UNCHANGED <<userRequest, envelope, admitted, login>>
  BY DEF Reg!ReceiveEvaluation, Reg!SendEnvelope, Reg!LoadUserRequest, Reg!BodyCutShort,
         Reg!store, Filing
<1>3. UNCHANGED Awaiting
  <2>1. \A s \in Runs : client'[s] \in {"starting", "sealing", "finalizing"}
                          <=> client[s] \in {"starting", "sealing", "finalizing"}
    BY AtRun DEF Reg!ReceiveEvaluation, Reg!SendEnvelope, Reg!LoadUserRequest,
                 Reg!BodyCutShort, Reg!TypeOK
  <2> QED
    BY <1>2, <2>1, AwaitingStays
<1> QED
  BY <1>1, <1>2, <1>3, RunGoingOn, AccountStays, AdmittedStays, Unseen DEF Keeps

\* The state of an account, by what is on file.
LEMMA AccountIs ==
  ASSUME Steady, NEW a \in Accounts
  PROVE  /\ a \in Names /\ a # Empty
         /\ AccountNow[a] = "free" <=> userRequest[a] = None
         /\ AccountNow[a] \in {"free", "reserved"} <=> envelope[a] = NoEnvelope
<1>1. envelope[a] # NoEnvelope => envelope[a].owner \notin {"free", "reserved"} /\ userRequest[a] # None
  BY ContractAssumption
     DEF Steady, ServerInd, AuthInd, TypeOK, Envelopes, ContractInd, ReservationsStand
<1> QED
  BY <1>1, ContractAssumption DEF AccountNow, Names

LEMMA CheckIsCheck ==
  ASSUME Steady, NEW r \in Runs, Filing, Reg!CheckRegistered(r),
         \/ handler'[r] = "store" /\ TakesEffect(r, "reserve")
         \/ handler'[r] = "forbidden" /\ TakesEffect(r, "thrown")
         \/ handler'[r] = "badRequest" /\ Keeps,
         UNCHANGED <<faulted, broken>>
  PROVE  [Svc!ServiceNext]_(Svc!service)
<1> DEFINE a == account[r]
<1>1. /\ handler[r] = "check" /\ stage[r] = "check" /\ client[r] # "idle"
      /\ RegistrationStep(r)
      /\ UNCHANGED <<userRequest, envelope, client, login>>
  BY AtRun DEF Reg!CheckRegistered, RunAgrees, RegistrationStep, Reg!HandlerStep, Reg!store, Filing
<1>2. UNCHANGED <<AccountNow, SessionNow, ArgsNow, Awaiting>>
  BY <1>1, AccountStays, RunGoingOn, AwaitingStays
<1>3. Svc!user(r) = a /\ a \in Accounts
  BY <1>1, RunsArgs
<1>4. CASE handler'[r] = "store" /\ TakesEffect(r, "reserve")
  <2>1. userRequest[a] = None /\ admitted' = [admitted EXCEPT ![a] = @ \cup {r}]
    BY <1>4, AtRun DEF Reg!CheckRegistered, Reg!TypeOK
  <2>2. AdmittedNow' = [AdmittedNow EXCEPT ![a] = @ \cup {r}]
    <3>1. a # Empty /\ admitted \in [Accounts -> SUBSET Runs]
      BY <1>3, AccountIs, AtRun DEF Reg!TypeOK
    <3>2. \A b \in Accounts : admitted'[b] = IF b = a THEN admitted[a] \cup {r} ELSE admitted[b]
      BY <1>3, <2>1, <3>1
    <3>3. \A b \in Names : b # Empty => b \in Accounts
      BY DEF Names
    <3> HIDE DEF a
    <3> QED
      BY <1>3, <3>1, <3>2, <3>3 DEF AdmittedNow
  <2>3. Svc!CheckRegistered(r)
    BY <1>1, <1>2, <1>3, <1>4, <2>1, <2>2, AccountIs
       DEF Svc!CheckRegistered, Svc!Moves, TakesEffect
  <2> QED
    BY <2>3, ServiceCalls DEF Svc!ServiceNext, Svc!Serving, Svc!ServiceStep
<1>5. CASE handler'[r] = "forbidden" /\ TakesEffect(r, "thrown")
  <2>1. userRequest[a] # None /\ admitted' = admitted
    BY <1>5, AtRun DEF Reg!CheckRegistered, Reg!TypeOK
  <2>2. Svc!CheckRegistered(r)
    BY <1>1, <1>2, <1>3, <1>5, <2>1, AccountIs, AdmittedStays
       DEF Svc!CheckRegistered, Svc!Moves, TakesEffect
  <2> QED
    BY <2>2, ServiceCalls DEF Svc!ServiceNext, Svc!Serving, Svc!ServiceStep
<1>6. CASE handler'[r] = "badRequest" /\ Keeps
  <2>1. admitted' = admitted
    BY <1>6, AtRun DEF Reg!CheckRegistered, Reg!TypeOK
  <2> QED
    BY <1>2, <1>6, <2>1, AdmittedStays, Unseen DEF Keeps
<1> QED
  BY <1>4, <1>5, <1>6

\* A SET of the request, whether it is the first to be carried out or repeats one.
LEMMA RequestReserves ==
  ASSUME Steady, NEW r \in Runs, handler[r] = "store", envelope' = envelope,
         userRequest' \in {userRequest, [userRequest EXCEPT ![account[r]] = r]}
  PROVE  /\ userRequest'[account[r]] = r =>
              AccountNow' = [AccountNow EXCEPT ![account[r]] = IF @ = "free" THEN "reserved" ELSE @]
         /\ userRequest'[account[r]] # r \/ stage[r] # "reserve" => AccountNow' = AccountNow
<1> DEFINE a == account[r]
<1>1. /\ a \in Accounts /\ a \in Names /\ a # Empty
      /\ userRequest \in [Accounts -> Runs \cup {None}]
      /\ r # None
      /\ stage[r] # "reserve" => userRequest[a] # None
  BY AtRun, AccountIs, NoneIsNoRun DEF Reg!TypeOK, RunAgrees
<1>2. \A b \in Names : b # a => AccountNow'[b] = AccountNow[b]
  <2>1. \A b \in Accounts : b # a => userRequest'[b] = userRequest[b]
    BY <1>1
  <2> QED
    BY <2>1 DEF AccountNow, Names
<1>3. /\ AccountNow[a] = "free" <=> userRequest[a] = None
      /\ AccountNow[a] \in {"free", "reserved"} <=> envelope[a] = NoEnvelope
  BY <1>1, AccountIs
<1>4. userRequest'[a] # None => AccountNow'[a] = IF AccountNow[a] = "free" THEN "reserved" ELSE AccountNow[a]
  <2> HIDE DEF a
  <2>1. userRequest'[a] # None /\ envelope[a] = NoEnvelope => AccountNow'[a] = "reserved"
    BY <1>1 DEF AccountNow
  <2>2. envelope[a] # NoEnvelope => AccountNow'[a] = AccountNow[a]
    BY <1>1 DEF AccountNow
  <2> QED
    BY <1>3, <2>1, <2>2
<1>5. userRequest'[a] = r \/ userRequest' = userRequest
  BY <1>1
<1>6. userRequest' = userRequest => AccountNow' = AccountNow
  BY AccountStays
<1> HIDE DEF a
<1>7. /\ AccountNow = [b \in Names |-> AccountNow[b]]
      /\ AccountNow' = [b \in Names |-> AccountNow'[b]]
  BY DEF AccountNow
<1>8. userRequest'[a] = r =>
        AccountNow' = [AccountNow EXCEPT ![a] = IF @ = "free" THEN "reserved" ELSE @]
  BY <1>1, <1>2, <1>4, <1>7
<1>9. userRequest'[a] = r /\ stage[r] # "reserve" => AccountNow' = AccountNow
  BY <1>1, <1>2, <1>3, <1>4, <1>7
<1> QED
  BY <1>5, <1>6, <1>8, <1>9 DEF a

LEMMA StoreIsReserve ==
  ASSUME Steady, NEW r \in Runs, Filing, UNCHANGED <<faulted, broken>>,
         Reg!StoreUserRequest(r) \/ (handler[r] = "store" /\ Reg!LoseReply(r)),
         IF stage[r] = "reserve" /\ userRequest'[account[r]] = r
           THEN TakesEffect(r, IF r \in Awaiting THEN "enroll" ELSE "rejected")
           ELSE Keeps
  PROVE  [Svc!ServiceNext]_(Svc!service)
<1>1. /\ handler[r] = "store" /\ client[r] # "idle"
      /\ RegistrationStep(r)
      /\ UNCHANGED <<envelope, client, login, admitted>>
      /\ userRequest' \in {userRequest, [userRequest EXCEPT ![account[r]] = r]}
  BY AtRun DEF Reg!StoreUserRequest, Reg!LoseReply, RegistrationStep, Reg!HandlerStep, Filing
<1>2. UNCHANGED <<AdmittedNow, SessionNow, ArgsNow, Awaiting>>
  BY <1>1, AdmittedStays, RunGoingOn, AwaitingStays
<1>3. Svc!user(r) = account[r]
  BY <1>1, RunsArgs
<1>4. CASE stage[r] = "reserve" /\ userRequest'[account[r]] = r
  <2>1. Svc!Reserve(r)
    BY <1>1, <1>2, <1>3, <1>4, RequestReserves DEF Svc!Reserve, Svc!Moves, TakesEffect
  <2> QED
    BY <2>1, ServiceCalls DEF Svc!ServiceNext, Svc!Serving, Svc!ServiceStep
<1>5. CASE ~(stage[r] = "reserve" /\ userRequest'[account[r]] = r)
  BY <1>1, <1>2, <1>5, RequestReserves, Unseen DEF Keeps
<1> QED
  BY <1>4, <1>5

\* The envelope is filed under the OPRF key of its run, or of another that was let in.
LEMMA EnvelopeFiles ==
  ASSUME Steady, NEW r \in Runs, handler[r] = "save", userRequest' = userRequest,
         envelope' \in {envelope, [envelope EXCEPT ![account[r]] = Reg!Filed(r)]},
         envelope'[account[r]] = Reg!Filed(r)
  PROVE  Svc!Files(r)
<1> DEFINE a == account[r]
           owner == IF loadedKu[r] = r THEN r ELSE "spoilt"
<1>1. /\ a \in Accounts /\ a \in Names /\ a # Empty /\ client[r] # "idle"
      /\ envelope \in [Accounts -> Envelopes \cup {NoEnvelope}]
      /\ r # None
  BY AtRun, AccountIs, NoneIsNoRun DEF Steady, ServerInd, AuthInd, TypeOK
<1>2. loadedKu[r] \in admitted[a]
  BY DEF Steady, ServerInd, FilingInd, KeysAreAdmitted
<1>3. Svc!user(r) = a
  BY <1>1, RunsArgs
<1>4. owner \in {r} \cup (IF AdmittedNow[a] = {r} THEN {} ELSE {"spoilt"})
  <2>1. AdmittedNow[a] = admitted[a]
    BY <1>1 DEF AdmittedNow
  <2> QED
    BY <1>2, <2>1
<1>5. AccountNow'[a] = owner
  <2>1. /\ envelope'[a].owner = r /\ envelope'[a].kU = loadedKu[r]
        /\ envelope'[a].sealedUnder = r
    BY DEF Reg!Filed, Reg!UserEnvelope
  <2>2. envelope'[a] # NoEnvelope
    BY <1>1, <2>1 DEF NoEnvelope
  <2> HIDE DEF a
  <2> QED
    BY <1>1, <2>1, <2>2 DEF AccountNow
<1>6. \A b \in Names : b # a => AccountNow'[b] = AccountNow[b]
  <2>1. \A b \in Accounts : b # a => envelope'[b] = envelope[b]
    BY <1>1
  <2> QED
    BY <2>1 DEF AccountNow, Names
<1>7. /\ AccountNow = [b \in Names |-> AccountNow[b]]
      /\ AccountNow' = [b \in Names |-> AccountNow'[b]]
  BY DEF AccountNow
<1> HIDE DEF a, owner
<1>8. AccountNow' = [AccountNow EXCEPT ![a] = owner]
  BY <1>1, <1>5, <1>6, <1>7
<1> QED
  BY <1>3, <1>4, <1>8 DEF Svc!Files

LEMMA SaveIsEnroll ==
  ASSUME Steady, NEW r \in Runs, Filing, UNCHANGED broken,
         \/ /\ Reg!StoreUserEnvelope(r)
            /\ IF envelope'[account[r]] = Reg!Filed(r) THEN TakesEffect(r, "ok") ELSE Keeps
            /\ UNCHANGED faulted
         \/ /\ handler[r] = "save" /\ Reg!LoseReply(r)
            /\ Keeps /\ faulted' = TRUE
  PROVE  [Svc!ServiceNext]_(Svc!service)
<1>1. /\ handler[r] = "save" /\ client[r] # "idle" /\ stage[r] = "enroll"
      /\ RegistrationStep(r)
      /\ UNCHANGED <<userRequest, client, login, admitted>>
      /\ envelope' \in {envelope, [envelope EXCEPT ![account[r]] = Reg!Filed(r)]}
  BY AtRun DEF Reg!StoreUserEnvelope, Reg!LoseReply, RegistrationStep, Reg!HandlerStep, Filing,
               RunAgrees
<1>2. UNCHANGED <<AdmittedNow, SessionNow, ArgsNow, Awaiting>>
  BY <1>1, AdmittedStays, RunGoingOn, AwaitingStays
<1>3. envelope \in [Accounts -> Envelopes \cup {NoEnvelope}] /\ account[r] \in Accounts
  BY <1>1, AtRun DEF Steady, ServerInd, AuthInd, TypeOK
<1>4. CASE envelope'[account[r]] = Reg!Filed(r) /\ TakesEffect(r, "ok") /\ UNCHANGED faulted
  <2>1. Svc!Enroll(r)
    BY <1>1, <1>2, <1>4, EnvelopeFiles DEF Svc!Enroll, Svc!Moves, TakesEffect
  <2> QED
    BY <2>1, ServiceCalls DEF Svc!ServiceNext, Svc!Serving, Svc!ServiceStep
<1>5. CASE envelope'[account[r]] # Reg!Filed(r) /\ Keeps /\ UNCHANGED faulted
  <2>1. envelope' = envelope
    BY <1>1, <1>3, <1>5
  <2> QED
    BY <1>1, <1>2, <1>5, <2>1, AccountStays, Unseen DEF Keeps
<1>6. CASE handler[r] = "save" /\ Reg!LoseReply(r) /\ Keeps /\ faulted' = TRUE
  <2>1. envelope'[account[r]] = Reg!Filed(r) /\ "repeat" \in FaultsNow
    BY <1>1, <1>3, <1>6 DEF Reg!LoseReply, FaultsNow
  <2>2. Svc!RepeatCommand(r)
    BY <1>1, <1>2, <1>6, <2>1, EnvelopeFiles DEF Svc!RepeatCommand, Keeps
  <2> QED
    BY <2>2, ServiceCalls DEF Svc!ServiceNext, Svc!Serving
<1> QED
  BY <1>4, <1>5, <1>6

LEMMA RunSettles ==
  ASSUME Steady, NEW r \in Runs, RegistrationSettles(r), Filing, UNCHANGED broken
  PROVE  Svc!ServiceNext
<1>1. /\ client[r] \in {"starting", "sealing", "finalizing"}
      /\ client'[r] \in {"registered", "failed"}
      /\ RegistrationStep(r)
      /\ \A s \in Runs \ {r} : client'[s] = client[s]
      /\ UNCHANGED <<userRequest, envelope, admitted, login>>
  BY AtRun DEF RegistrationSettles, Reg!ReceiveStored, Reg!ReceiveRefusal, Reg!LoseConnection,
               Reg!Waiting, RegistrationStep, Reg!ClientStep, Reg!store, Reg!TypeOK, Filing
<1>2. UNCHANGED <<AccountNow, AdmittedNow, SessionNow, ArgsNow>>
  BY <1>1, AccountStays, AdmittedStays, RunGoingOn
<1>3. r \in Awaiting /\ Awaiting' = Awaiting \ {r}
  <2>1. r \notin broken
    BY <1>1, CallsApart DEF ContractTypeOK, Steady, ContractInd
  <2> QED
    BY <1>1, <2>1, CallsApart DEF Awaiting
<1>4. /\ ContractTypeOK /\ r \in AllCalls
      /\ ArgsNow[r].op = "register" /\ ~Svc!Panics(ArgsNow[r])
  BY <1>1, AtRun, RunsArgs
<1>5. PICK outcome \in {"ok", "thrown", "rejected"} :
        /\ Ends(r, outcome)
        /\ stage[r] # outcome => outcome \in {"rejected", "thrown"} /\ Faults # {}
  <2>1. /\ RunAgrees(r) /\ (Faults = {} => RunGoesRight(r))
        /\ handler[r] = "forbidden" => client[r] \in {"starting", "failed"}
    BY DEF Steady, ContractInd, NothingGoesWrong, ServerInd, FilingInd, StagesFit
  <2>2. CASE Reg!ReceiveStored(r) /\ Ends(r, "ok")
    BY <2>1, <2>2 DEF Reg!ReceiveStored, RunAgrees
  <2>3. CASE Reg!ReceiveRefusal(r)
               /\ Ends(r, IF client[r] = "starting" THEN "thrown" ELSE "rejected")
    BY <2>1, <2>3 DEF Reg!ReceiveRefusal, Reg!Refusals, Reg!Waiting, RunAgrees, RunGoesRight
  <2>4. CASE Reg!LoseConnection(r) /\ Ends(r, "rejected")
    BY <2>4 DEF Reg!LoseConnection
  <2> QED
    BY <2>2, <2>3, <2>4 DEF RegistrationSettles
<1>6. outcome \in Svc!Outcomes
  BY DEF Svc!Outcomes
<1> QED
  BY <1>2, <1>3, <1>4, <1>5, <1>6, SettlesAs

LEMMA RegistrationIsServices ==
  ASSUME Steady, NEW r \in Runs, Registering(r), Filing, UNCHANGED broken
  PROVE  [Svc!ServiceNext]_(Svc!service)
<1>1. CASE RegistrationSettles(r)
  BY <1>1, RunSettles
<1>2. CASE RegistrationWrites(r)
  BY <1>2, StoreIsReserve, SaveIsEnroll DEF RegistrationWrites
<1>3. CASE RegistrationMoves(r)
  BY <1>3, BeginRegistrationSends, CheckIsCheck, QuietRegistration DEF RegistrationMoves
<1> QED
  BY <1>1, <1>2, <1>3 DEF Registering

-----------------------------------------------------------------------------
(* The steps of a login.                                                     *)

LEMMA LoginGoingOn ==
  ASSUME Steady, NEW l \in Logins, LoginStep(l), UNCHANGED registration, login[l] # "idle"
  PROVE  /\ UNCHANGED <<AccountNow, AdmittedNow, ArgsNow>>
         /\ \A m \in Logins \ {l} : login'[m] = login[m]
         /\ UNCHANGED client
<1>1. /\ \A m \in Logins \ {l} : UNCHANGED <<login[m], serving[m], user[m], secret[m]>>
      /\ UNCHANGED <<user, secret, envelope>>
  BY LoginsApart DEF Steady, ServerInd, AuthInd
<1>2. login'[l] # "idle"
  BY AtLogin
     DEF LoginStep, ClientStep, HandlerStep, BeginLogin, ReceiveChallenge, SendToken,
         ReceiveAccepted, ReceiveRefusal, LoadUserEnvelope, PushNonce, TrimNonces, FindNonce,
         VerifyToken, StoreSessionToken, LoseConnection, BodyCutShort, LoseReply, ResendToken,
         TypeOK
<1>3. UNCHANGED <<userRequest, admitted, client, account, password>>
  BY DEF registration
<1> QED
  BY <1>1, <1>2, <1>3, ArgsStay, AccountStays, AdmittedStays

LEMMA BeginLoginSends ==
  ASSUME Steady, NEW l \in Logins, BeginLogin(l), TakesEffect(l, "open"),
         UNCHANGED <<registration, faulted, broken>>
  PROVE  Svc!ServiceNext
<1>1. PICK a \in Accounts, p \in Passwords :
        /\ user' = [user EXCEPT ![l] = a]
        /\ secret' = [secret EXCEPT ![l] = p]
  BY DEF BeginLogin
<1>2. /\ login[l] = "idle" /\ stage[l] = "idle"
      /\ login' = [login EXCEPT ![l] = "starting"]
      /\ UNCHANGED <<userRequest, envelope, admitted>>
      /\ UNCHANGED <<session, client, account, password>>
      /\ TypeOK
  BY AtLogin DEF BeginLogin, LoginAgrees, store, registration
<1>3. UNCHANGED <<AccountNow, AdmittedNow, SessionNow>>
  BY <1>2, AccountStays, AdmittedStays, SessionStays
<1>4. ArgsNow' = [ArgsNow EXCEPT ![l] = Svc!Login(a, p)]
  <2>1. user'[l] = a /\ secret'[l] = p /\ login'[l] # "idle"
    BY <1>1, <1>2 DEF TypeOK
  <2>2. ASSUME NEW c \in AllCalls, c # l PROVE ArgsNow'[c] = ArgsNow[c]
    BY <1>1, <1>2, <2>2 DEF ArgsNow, Asked
  <2>3. ArgsNow'[l] = Svc!Login(a, p)
    BY <2>1, CallsApart DEF ArgsNow, Asked, Svc!Login
  <2> QED
    BY <2>2, <2>3, CallsApart DEF ArgsNow
<1>5. Awaiting' = Awaiting \cup {l}
  <2>1. login'[l] = "starting" /\ \A m \in Logins \ {l} : login'[m] = login[m]
    BY <1>2 DEF TypeOK
  <2> QED
    BY <1>2, <2>1 DEF Awaiting
<1>6. ~Svc!Panics(Svc!Login(a, p)) /\ a \in Names /\ p \in Passwords \cup {Empty}
  BY ContractAssumption DEF Svc!Panics, Svc!Login, Names
<1>7. Svc!Send(l, Svc!Login(a, p))
  <2>1. stage' = [stage EXCEPT ![l] = "open"]
    BY DEF TakesEffect
  <2>2. Svc!Login(a, p).op = "login" /\ Svc!FirstStage["login"] = "open"
    BY DEF Svc!Login, Svc!FirstStage
  <2> QED
    BY <1>2, <1>3, <1>4, <1>5, <1>6, <2>1, <2>2 DEF Svc!Send, Svc!Moves, Svc!store
<1> QED
  BY <1>2, <1>6, <1>7, ServiceCalls DEF Svc!ServiceNext, Svc!Sends

\* A nonce is pushed or cut, a token sent or sent again: nothing takes effect.
LEMMA QuietLogin ==
  ASSUME Steady, NEW l \in Logins, Keeps, UNCHANGED <<registration, faulted, broken>>,
         \/ PushNonce(l) \/ TrimNonces(l) \/ SendToken(l) \/ ResendToken(l) \/ BodyCutShort(l)
         \/ LoadUserEnvelope(l) \/ FindNonce(l) \/ VerifyToken(l)
         \/ serving[l] # "saveSession" /\ LoseReply(l)
         \/ ReceiveChallenge(l) /\ login'[l] # "failed"
  PROVE  UNCHANGED Svc!service
<1>1. /\ LoginStep(l) /\ login[l] # "idle"
      /\ UNCHANGED session
  BY AtLogin DEF LoginStep, ClientStep, HandlerStep, PushNonce, TrimNonces, SendToken,
                 ResendToken, BodyCutShort, LoadUserEnvelope, FindNonce, VerifyToken,
                 LoseReply, ReceiveChallenge, store
<1>2. login'[l] \in {"starting", "deriving", "finalizing"}
        <=> login[l] \in {"starting", "deriving", "finalizing"}
  BY AtLogin DEF PushNonce, TrimNonces, SendToken, ResendToken, BodyCutShort, LoadUserEnvelope,
                 FindNonce, VerifyToken, LoseReply, ReceiveChallenge, TypeOK
<1>3. /\ UNCHANGED <<AccountNow, AdmittedNow, ArgsNow>>
      /\ \A m \in Logins \ {l} : login'[m] = login[m]
      /\ UNCHANGED client
  BY <1>1, LoginGoingOn
<1>4. UNCHANGED Awaiting
  BY <1>2, <1>3, AwaitingStays
<1> QED
  BY <1>1, <1>3, <1>4, SessionStays, Unseen DEF Keeps

\* Whose envelopes are on file, and were.
LEMMA FiledByAdmitted ==
  ASSUME Steady, NEW a \in Accounts, NEW e, <<a, e>> \in filed
  PROVE  \E s \in admitted[a] :
           /\ s \in Runs /\ client[s] # "idle" /\ account[s] = a
           /\ e.owner = s /\ e.pw = password[s] /\ e.sealedUnder = s
<1>1. PICK s \in Runs : HasFiled(s, <<a, e>>)
  BY DEF Steady, ServerInd, FilingInd, FiledByRuns
<1>2. account[s] = a /\ e = Reg!Filed(s) /\ s \in admitted[account[s]] /\ client[s] # "idle"
  BY <1>1 DEF HasFiled
<1> QED
  BY <1>2 DEF Reg!Filed, Reg!UserEnvelope

LEMMA OpensAsServed ==
  ASSUME Steady, NEW l \in Logins, login[l] # "idle", envelope[user[l]] # NoEnvelope
  PROVE  Svc!Opens(l) <=> Opens(envelope[user[l]], secret[l])
<1> DEFINE a == user[l]
           e == envelope[a]
<1>1. a \in Accounts /\ a # Empty /\ a \in Names /\ Svc!user(l) = a
      /\ ArgsNow[l].password = secret[l]
  BY LoginsArgs, AccountIs
<1>2. <<a, e>> \in filed
  BY <1>1 DEF Steady, ServerInd, AuthInd, SeenIsFiled
<1>3. PICK s \in Runs : /\ client[s] # "idle" /\ e.owner = s /\ e.pw = password[s]
                        /\ e.sealedUnder = s
  BY <1>1, <1>2, FiledByAdmitted
<1>4. s \notin Svc!Phases /\ ArgsNow[s].password = password[s]
  BY <1>3, RunsArgs, ContractAssumption DEF Svc!Phases
<1>5. AccountNow[a] = IF e.kU = e.sealedUnder THEN s ELSE "spoilt"
  <2>1. envelope[a] # NoEnvelope
    OBVIOUS
  <2> HIDE DEF a
  <2> QED
    BY <1>1, <1>3, <2>1 DEF AccountNow
<1> QED
  BY <1>1, <1>3, <1>4, <1>5 DEF Svc!Opens, Svc!Phases, Opens

LEMMA LoadIsOpen ==
  ASSUME Steady, NEW l \in Logins, UNCHANGED <<registration, faulted, broken>>,
         LoadUserEnvelope(l), l \in Awaiting,
         ~(serving'[l] = "badRequest" /\ envelope[user[l]] # NoEnvelope),
         TakesEffect(l, IF serving'[l] = "badRequest" THEN "rejected"
                        ELSE IF Opens(envelope[user[l]], secret[l]) THEN "save"
                        ELSE "thrown")
  PROVE  Svc!ServiceNext
<1>1. /\ LoginStep(l) /\ login[l] # "idle" /\ stage[l] = "open"
      /\ UNCHANGED <<session, login>>
  BY AtLogin DEF LoginStep, HandlerStep, LoadUserEnvelope, LoginAgrees, store
<1>2. UNCHANGED <<AccountNow, AdmittedNow, SessionNow, ArgsNow, Awaiting>>
  BY <1>1, LoginGoingOn, SessionStays, AwaitingStays
<1>3. Svc!user(l) = user[l] /\ user[l] \in Accounts
  BY <1>1, LoginsArgs
<1>4. AccountNow[user[l]] \in {"free", "reserved"} <=> envelope[user[l]] = NoEnvelope
  BY <1>3, AccountIs
<1>5. serving'[l] = "badRequest" <=> envelope[user[l]] = NoEnvelope
  BY AtLogin DEF LoadUserEnvelope, TypeOK
<1>6. Svc!OpenEnvelope(l)
  <2>1. CASE envelope[user[l]] = NoEnvelope
    BY <1>1, <1>2, <1>3, <1>4, <1>5, <2>1 DEF Svc!OpenEnvelope, Svc!Moves, Svc!store, TakesEffect
  <2>2. CASE envelope[user[l]] # NoEnvelope
    BY <1>1, <1>2, <1>3, <1>4, <1>5, <2>2, OpensAsServed
       DEF Svc!OpenEnvelope, Svc!Moves, Svc!store, TakesEffect
  <2> QED
    BY <2>1, <2>2
<1> QED
  BY <1>6, ServiceCalls DEF Svc!ServiceNext, Svc!Serving, Svc!ServiceStep

\* A token refused when nothing goes wrong: its nonce was pushed out, or another
\* registration was let into the account.
LEMMA RefusalHasCause ==
  ASSUME IsFiniteSet(Logins), Steady, CauseInd, Faults = {}, NEW l \in Logins,
         FindNonce(l) \/ VerifyToken(l), serving'[l] = "badRequest", login[l] # "idle"
  PROVE  Svc!Contested(user[l]) \/ Svc!Crowded(l)
<1>1. /\ user[l] \in Accounts /\ user[l] # Empty /\ Svc!user(l) = user[l]
      /\ serving[l] \in {"findNonce", "verify"}
      /\ seen[l] # NoEnvelope /\ <<user[l], seen[l]>> \in filed
      /\ ~RedisMayFail(l) /\ TypeOK /\ user[l] \in Names
  <2>1. serving[l] \in {"findNonce", "verify"}
    BY DEF FindNonce, VerifyToken
  <2>2. onFile[l] # {} /\ ~RedisMayFail(l)
    BY <2>1, AtLogin DEF Finalizing, LoginGoesRight, RedisMayFail
  <2> QED
    BY <2>1, <2>2, AtLogin, LoginsArgs, AccountIs DEF Steady, ServerInd, AuthInd, SeenIsFiled
<1>2. CASE FindNonce(l)
  <2>1. Challenged(l) /\ ~NonceKnown(l)
    BY <1>1, <1>2 DEF FindNonce, Challenged, TypeOK
  <2>2. Cardinality(Rivals(l)) > MaxNonces
    BY <2>1, PushedOutByRivals DEF Steady, ServerInd, CauseInd, Lists
  <2>3. Rivals(l) \subseteq Svc!Rivals(l)
    <3> SUFFICES ASSUME NEW m \in Rivals(l) PROVE m \in Svc!Rivals(l)
      OBVIOUS
    <3>1. m \in Logins /\ m # l /\ user[m] = user[l] /\ seen[m] # NoEnvelope
      BY DEF Rivals, Challenged
    <3>2. login[m] # "idle"
      BY <3>1 DEF Steady, ServerInd, AuthInd, StagesAgree
    <3>3. ArgsNow[m].op = "login" /\ Svc!user(m) = user[l] /\ ~Svc!Panics(ArgsNow[m])
      BY <3>1, <3>2, LoginsArgs
    <3> QED
      BY <1>1, <3>1, <3>3, ServiceCalls DEF Svc!Rivals
  <2>4. IsFiniteSet(Rivals(l))
    BY FS_Subset DEF Rivals
  <2> QED
    BY <2>2, <2>3, <2>4, ServiceCounts DEF Svc!Crowded
<1>3. CASE VerifyToken(l)
  <2>1. Token(l) # Expected(l) /\ envelope[user[l]] # NoEnvelope
    <3>1. envelope[user[l]] # NoEnvelope
      BY <1>1, AtLogin DEF LoginGoesRight
    <3> QED
      BY <1>1, <1>3, <3>1 DEF VerifyToken, TypeOK
  <2>2. <<user[l], envelope[user[l]]>> \in filed
    BY <1>1, <2>1 DEF Steady, ServerInd, AuthInd, SeenIsFiled
  <2>3. PICK s \in admitted[user[l]] : seen[l].owner = s
    BY <1>1, FiledByAdmitted
  <2>4. PICK t \in admitted[user[l]] : envelope[user[l]].owner = t
    BY <1>1, <2>2, FiledByAdmitted
  <2>5. s # t
    BY <2>1, <2>3, <2>4 DEF Token, Expected, SessionToken
  <2>6. AdmittedNow[user[l]] = admitted[user[l]]
    BY <1>1 DEF AdmittedNow
  <2> QED
    BY <2>5, <2>6 DEF Svc!Contested
<1> QED
  BY <1>2, <1>3

LEMMA RefusalIsRefused ==
  ASSUME IsFiniteSet(Logins), Steady, CauseInd, Faults = {}, NEW l \in Logins,
         UNCHANGED <<registration, faulted, broken>>,
         FindNonce(l) \/ VerifyToken(l), serving'[l] = "badRequest", TakesEffect(l, "rejected")
  PROVE  Svc!ServiceNext
<1>1. /\ LoginStep(l) /\ login[l] # "idle" /\ stage[l] = "save"
      /\ UNCHANGED <<session, login>>
  BY AtLogin DEF LoginStep, HandlerStep, FindNonce, VerifyToken, LoginAgrees, store
<1>2. UNCHANGED <<AccountNow, AdmittedNow, SessionNow, ArgsNow, Awaiting>>
  BY <1>1, LoginGoingOn, SessionStays, AwaitingStays
<1>3. Svc!Contested(Svc!user(l)) \/ Svc!Crowded(l)
  BY <1>1, RefusalHasCause, LoginsArgs
<1>4. Svc!SaveSession(l)
  BY <1>1, <1>2, <1>3 DEF Svc!SaveSession, Svc!Moves, TakesEffect
<1> QED
  BY <1>4, ServiceCalls DEF Svc!ServiceNext, Svc!Serving, Svc!ServiceStep

LEMMA SavedSession ==
  ASSUME Steady, NEW l \in Logins, login[l] # "idle", session' \in {session, Saved(l)},
         session'[user[l]] = Token(l)
  PROVE  SessionNow' = [SessionNow EXCEPT ![Svc!user(l)] = l]
<1> DEFINE a == user[l]
<1>1. a \in Accounts /\ a # Empty /\ a \in Names /\ Svc!user(l) = a
  BY LoginsArgs, AccountIs
<1>2. \A b \in Accounts : b # a => session'[b] = session[b]
  BY <1>1, AtLogin DEF Saved, TypeOK
<1>3. session'[a].nonce = l
  BY DEF Token, SessionToken
<1> HIDE DEF a
<1>4. ASSUME NEW b \in Names PROVE SessionNow'[b] = IF b = a THEN l ELSE SessionNow[b]
  BY <1>1, <1>2, <1>3 DEF SessionNow, Names
<1>5. /\ SessionNow = [b \in Names |-> SessionNow[b]]
      /\ SessionNow' = [b \in Names |-> SessionNow'[b]]
  BY DEF SessionNow
<1> QED
  BY <1>1, <1>4, <1>5

LEMMA SaveIsSave ==
  ASSUME Steady, NEW l \in Logins, UNCHANGED <<registration, broken>>, LoginWrites(l)
  PROVE  [Svc!ServiceNext]_(Svc!service)
<1>1. /\ LoginStep(l) /\ login[l] # "idle" /\ serving[l] = "saveSession"
      /\ UNCHANGED login
      /\ session' \in {session, Saved(l)}
  BY AtLogin DEF LoginWrites, LoginStep, HandlerStep, StoreSessionToken, LoseReply
<1>2. stage[l] = "save" \/ (stage[l] = "ok" /\ "resend" \in Faults)
  BY <1>1, AtLogin DEF LoginAgrees
<1>3. UNCHANGED <<AccountNow, AdmittedNow, ArgsNow, Awaiting>>
  BY <1>1, LoginGoingOn, AwaitingStays
<1>4. session \in [Accounts -> Tokens \cup {NoToken}] /\ user[l] \in Accounts
  BY <1>1, AtLogin DEF TypeOK
<1>5. CASE session'[user[l]] # Token(l) /\ Keeps /\ UNCHANGED faulted
  <2>1. session' = session
    BY <1>1, <1>4, <1>5 DEF Saved
  <2> QED
    BY <1>3, <1>5, <2>1, SessionStays, Unseen DEF Keeps
<1>6. CASE session'[user[l]] = Token(l) /\ stage[l] = "save" /\ TakesEffect(l, "ok")
             /\ UNCHANGED faulted
  <2>1. Svc!SaveSession(l)
    BY <1>1, <1>3, <1>6, SavedSession DEF Svc!SaveSession, Svc!Moves, TakesEffect
  <2> QED
    BY <2>1, ServiceCalls DEF Svc!ServiceNext, Svc!Serving, Svc!ServiceStep
<1>7. CASE session'[user[l]] = Token(l) /\ Keeps /\ faulted' = TRUE
             /\ Faults \cap {"redis", "resend"} # {}
  <2>1. "repeat" \in FaultsNow
    BY <1>7 DEF FaultsNow
  <2>2. ArgsNow[l].op = "login"
    BY <1>1, LoginsArgs
  <2>3. Svc!RepeatCommand(l)
    BY <1>1, <1>2, <1>3, <1>7, <2>1, <2>2, SavedSession DEF Svc!RepeatCommand, Keeps
  <2> QED
    BY <2>3, ServiceCalls DEF Svc!ServiceNext, Svc!Serving
<1>8. CASE IF session'[user[l]] # Token(l) THEN Keeps /\ UNCHANGED faulted
           ELSE IF stage[l] = "save" THEN TakesEffect(l, "ok") /\ UNCHANGED faulted
           ELSE Keeps /\ faulted' = TRUE
  BY <1>2, <1>5, <1>6, <1>7, <1>8
<1>9. CASE LoseReply(l) /\ Keeps /\ faulted' = TRUE
  BY <1>1, <1>4, <1>7, <1>9 DEF LoseReply, Saved
<1> QED
  BY <1>8, <1>9 DEF LoginWrites

LEMMA LoginSettlesAs ==
  ASSUME Steady, NEW l \in Logins, LoginSettles(l), UNCHANGED <<registration, broken>>
  PROVE  Svc!ServiceNext
<1>1. /\ login[l] \in {"starting", "deriving", "finalizing"}
      /\ login'[l] \in {"loggedIn", "failed"}
      /\ LoginStep(l)
      /\ UNCHANGED session
  BY AtLogin DEF LoginSettles, ReceiveChallenge, ReceiveAccepted, ReceiveRefusal, LoseConnection,
                 Waiting, LoginStep, ClientStep, store, TypeOK
<1>2. /\ UNCHANGED <<AccountNow, AdmittedNow, ArgsNow, SessionNow>>
      /\ \A m \in Logins \ {l} : login'[m] = login[m]
      /\ UNCHANGED client
  BY <1>1, LoginGoingOn, SessionStays
<1>3. l \in Awaiting /\ Awaiting' = Awaiting \ {l}
  <2>1. l \notin broken
    BY <1>1, CallsApart DEF ContractTypeOK, Steady, ContractInd
  <2> QED
    BY <1>1, <1>2, <2>1, CallsApart DEF Awaiting
<1>4. ContractTypeOK /\ l \in AllCalls /\ ~Svc!Panics(ArgsNow[l])
  BY <1>1, AtLogin, LoginsArgs
<1>5. PICK outcome \in {"ok", "thrown", "rejected"} :
        /\ Ends(l, outcome)
        /\ stage[l] # outcome => outcome = "rejected" /\ Faults # {}
  <2>1. LoginAgrees(l) /\ (Faults = {} => LoginGoesRight(l)) /\ TypeOK
    BY AtLogin
  <2>2. CASE ReceiveChallenge(l) /\ login'[l] = "failed" /\ Ends(l, "thrown")
    BY <2>1, <2>2 DEF ReceiveChallenge, LoginAgrees, TypeOK
  <2>3. CASE ReceiveAccepted(l) /\ Ends(l, "ok")
    BY <2>1, <2>3 DEF ReceiveAccepted, LoginAgrees
  <2>4. CASE ReceiveRefusal(l) /\ Ends(l, "rejected")
    BY <2>1, <2>4 DEF ReceiveRefusal, LoginGoesRight
  <2>5. CASE LoseConnection(l) /\ Ends(l, "rejected")
    BY <2>5 DEF LoseConnection
  <2> QED
    BY <2>2, <2>3, <2>4, <2>5 DEF LoginSettles
<1>6. outcome \in Svc!Outcomes
  BY DEF Svc!Outcomes
<1> QED
  BY <1>2, <1>3, <1>4, <1>5, <1>6, SettlesAs

LEMMA LoginIsServices ==
  ASSUME IsFiniteSet(Logins), Steady, CauseInd,
         NEW l \in Logins, LoggingIn(l), UNCHANGED <<registration, broken>>
  PROVE  [Svc!ServiceNext]_(Svc!service)
<1>1. CASE LoginSettles(l)
  BY <1>1, LoginSettlesAs
<1>2. CASE LoginWrites(l)
  BY <1>2, SaveIsSave
<1>3. CASE LoginGoesOn(l) /\ UNCHANGED faulted
  <2>1. CASE BeginLogin(l) /\ TakesEffect(l, "open")
    BY <1>3, <2>1, BeginLoginSends
  <2>2. CASE LoadUserEnvelope(l) /\ Keeps
    BY <1>3, <2>2, QuietLogin
  <2>3. CASE /\ LoadUserEnvelope(l) /\ l \in Awaiting
             /\ ~(serving'[l] = "badRequest" /\ envelope[user[l]] # NoEnvelope)
             /\ TakesEffect(l, IF serving'[l] = "badRequest" THEN "rejected"
                               ELSE IF Opens(envelope[user[l]], secret[l]) THEN "save"
                               ELSE "thrown")
    BY <1>3, <2>3, LoadIsOpen
  <2>4. CASE (FindNonce(l) \/ VerifyToken(l)) /\ Keeps
    BY <1>3, <2>4, QuietLogin
  <2>5. CASE /\ FindNonce(l) \/ VerifyToken(l)
             /\ Faults = {} /\ serving'[l] = "badRequest" /\ TakesEffect(l, "rejected")
    BY <1>3, <2>5, RefusalIsRefused
  <2>6. CASE /\ \/ PushNonce(l) \/ TrimNonces(l) \/ SendToken(l) \/ ResendToken(l) \/ BodyCutShort(l)
                \/ serving[l] # "saveSession" /\ LoseReply(l)
                \/ ReceiveChallenge(l) /\ login'[l] # "failed"
             /\ Keeps
    BY <1>3, <2>6, QuietLogin
  <2> QED
    BY <1>3, <2>1, <2>2, <2>3, <2>4, <2>5, <2>6 DEF LoginGoesOn
<1> QED
  BY <1>1, <1>2, <1>3 DEF LoggingIn

-----------------------------------------------------------------------------
(* Time, a restart, and what it breaks off.                                  *)

LEMMA ExpiryIsExpiry ==
  ASSUME Steady, NEW a \in Accounts, ExpireSession(a), Keeps, faulted' = TRUE,
         UNCHANGED <<registration, broken>>
  PROVE  Svc!ServiceNext
<1>1. /\ UNCHANGED <<userRequest, envelope, admitted, client, login, account, password>>
      /\ UNCHANGED <<user, secret>>
  BY DEF ExpireSession, registration, local, inputs
<1>2. UNCHANGED <<AccountNow, AdmittedNow, ArgsNow, Awaiting>>
  BY <1>1, AccountStays, AdmittedStays, ArgsStay, AwaitingStays
<1>3. /\ a \in Names /\ a # Empty
      /\ session \in [Accounts -> Tokens \cup {NoToken}]
      /\ session[a] # NoToken /\ session' = [session EXCEPT ![a] = NoToken]
      /\ "expiry" \in FaultsNow
  BY AccountIs DEF ExpireSession, Steady, ServerInd, AuthInd, TypeOK, FaultsNow
<1>4. SessionNow[a] # None
  BY <1>3, AuthenticationAssumption DEF SessionNow, Tokens
<1>5. SessionNow' = [SessionNow EXCEPT ![a] = None]
  <2>1. ASSUME NEW b \in Names PROVE SessionNow'[b] = IF b = a THEN None ELSE SessionNow[b]
    BY <1>3 DEF SessionNow, Names, NoToken
  <2>2. /\ SessionNow = [b \in Names |-> SessionNow[b]]
        /\ SessionNow' = [b \in Names |-> SessionNow'[b]]
    BY DEF SessionNow
  <2> QED
    BY <1>3, <2>1, <2>2
<1>6. Svc!ExpireSession(a)
  BY <1>2, <1>3, <1>4, <1>5 DEF Svc!ExpireSession, Keeps
<1> QED
  BY <1>3, <1>6 DEF Svc!ServiceNext, Svc!Serving

LEMMA RestartForgetsAll ==
  ASSUME Steady, ContractRestart
  PROVE  [Svc!ServiceNext]_(Svc!service)
<1>1. /\ UNCHANGED <<stage, account, password, admitted, user, secret>>
      /\ \A r \in Runs :
           client'[r] = IF client[r] \in {"starting", "finalizing"} THEN "failed" ELSE client[r]
      /\ \A l \in Logins :
           login'[l] = IF login[l] \in {"starting", "finalizing"} THEN "failed" ELSE login[l]
      /\ broken' = broken \cup {r \in Runs : client[r] \in {"starting", "finalizing"}}
                          \cup {l \in Logins : login[l] \in {"starting", "finalizing"}}
      /\ "restart" \in Faults
      /\ faulted' = (faulted \/ ~Persistent)
  BY DEF ContractRestart, ServerRestart, Crash, Reg!Crash, Keeps, Reg!Waiting, Waiting,
         local, inputs, Reg!inputs
<1>2. UNCHANGED <<AdmittedNow, ArgsNow>>
  BY <1>1, AdmittedStays, ArgsStay
<1>3. Awaiting' = Awaiting
  BY <1>1 DEF Awaiting
<1>4. CASE Persistent
  <2>1. UNCHANGED <<userRequest, envelope, session>>
    BY <1>4 DEF ContractRestart, ServerRestart, Crash, Reg!Crash, store, Reg!store
  <2>2. faulted' = faulted
    BY <1>1, <1>4 DEF Steady, ContractInd, ContractTypeOK
  <2> QED
    BY <1>1, <1>2, <1>3, <2>1, <2>2, AccountStays, SessionStays, Unseen
<1>5. CASE ~Persistent
  <2>1. /\ userRequest' = [a \in Accounts |-> None]
        /\ envelope' = [a \in Accounts |-> NoEnvelope]
        /\ session' = [a \in Accounts |-> NoToken]
    BY <1>5 DEF ContractRestart, ServerRestart, Crash, Reg!Crash
  <2>2. AccountNow' = [u \in Names |-> "free"]
    BY <2>1 DEF AccountNow, Names
  <2>3. SessionNow' = [u \in Names |-> None]
    BY <2>1 DEF SessionNow, Names, NoToken
  <2>4. faulted' = TRUE /\ "restart" \in FaultsNow
    BY <1>1, <1>5 DEF FaultsNow
  <2>5. Svc!ForgetAll
    BY <1>1, <1>2, <1>3, <2>2, <2>3, <2>4 DEF Svc!ForgetAll
  <2> QED
    BY <2>5 DEF Svc!ServiceNext, Svc!Serving
<1> QED
  BY <1>4, <1>5

LEMMA BrokenSettlesAs ==
  ASSUME Steady, NEW c \in AllCalls, BrokenSettles(c)
  PROVE  Svc!ServiceNext
<1>1. /\ UNCHANGED <<userRequest, envelope, admitted, client, account, password>>
      /\ UNCHANGED <<login, user, secret, session>>
  BY DEF BrokenSettles, serverVars, vars, registration
<1>2. UNCHANGED <<AccountNow, AdmittedNow, SessionNow, ArgsNow>>
  BY <1>1, AccountStays, AdmittedStays, SessionStays, ArgsStay
<1>3. /\ c \in broken /\ broken' = broken \ {c} /\ Ends(c, "rejected")
      /\ ContractTypeOK /\ Faults # {}
      /\ (c \in Runs /\ client[c] = "failed") \/ (c \in Logins /\ login[c] = "failed")
  BY DEF BrokenSettles, Steady, ContractInd, ContractTypeOK
<1>4. c \in Awaiting /\ Awaiting' = Awaiting \ {c}
  BY <1>1, <1>3, CallsApart DEF Awaiting
<1>5. ~Svc!Panics(ArgsNow[c])
  BY <1>3, RunsArgs, LoginsArgs
<1>6. "rejected" \in Svc!Outcomes
  BY DEF Svc!Outcomes
<1> QED
  BY <1>2, <1>3, <1>4, <1>5, <1>6, SettlesAs

LEMMA NothingHappens ==
  ASSUME UNCHANGED contractVars
           \/ (Reg!Finished /\ Finished /\ UNCHANGED <<stage, faulted, broken>>)
  PROVE  UNCHANGED Svc!service
<1>1. /\ UNCHANGED <<userRequest, envelope, admitted, client, account, password>>
      /\ UNCHANGED <<login, user, secret, session, stage, faulted, broken>>
  BY DEF contractVars, serverVars, vars, registration, Reg!Finished, Reg!vars, Finished
<1> QED
  BY <1>1, AccountStays, AdmittedStays, SessionStays, ArgsStay, AwaitingStays, Unseen

LEMMA ContractStepIsServices ==
  ASSUME IsFiniteSet(Logins), Steady, CauseInd, [ContractNext]_contractVars
  PROVE  [Svc!ServiceNext]_(Svc!service)
BY RegistrationIsServices, LoginIsServices, ExpiryIsExpiry, RestartForgetsAll, BrokenSettlesAs,
   NothingHappens
   DEF ContractNext

LEMMA ContractInitIsServices == ContractInit => Svc!ServiceInit
<1> SUFFICES ASSUME ContractInit PROVE Svc!ServiceInit
  OBVIOUS
<1> USE DEF ContractInit, ServerInit, Init, Reg!Init
<1>1. AccountNow = [u \in Names |-> "free"]
  BY DEF AccountNow, Names
<1>2. AdmittedNow = [u \in Names |-> {}] /\ SessionNow = [u \in Names |-> None]
  BY DEF AdmittedNow, SessionNow, Names, NoToken
<1>3. ArgsNow = [c \in AllCalls |-> Svc!NoArgs]
  BY DEF ArgsNow, Asked, Svc!NoArgs
<1>4. Awaiting = {}
  BY DEF Awaiting
<1> QED
  BY <1>1, <1>2, <1>3, <1>4, ServiceCalls DEF Svc!ServiceInit

\* Whatever the auth server and the SDK do for any number of registrations and any
\* finite set of logins, command by command, with every fault and either store, is
\* what Service promises a client: in particular a call settles with the outcome it
\* has taken effect with, and without faults it never does otherwise.
THEOREM ContractImplementsService ==
  ASSUME IsFiniteSet(Logins) PROVE ContractSpec => ImplementsService
<1>1. ContractInit => Svc!ServiceInit
  BY ContractInitIsServices
<1>2. AuthInd /\ FilingInd /\ CauseInd /\ ContractInd /\ [ContractNext]_contractVars
        => [Svc!ServiceNext]_(Svc!service)
  BY ContractStepIsServices DEF Steady, ServerInd
<1>3. ContractSpec => [](AuthInd /\ FilingInd)
  BY ContractIsTheServer, ServerInductive, PTL
<1>4. ContractSpec => []CauseInd
  BY ContractIsTheServer, ServerImplementsAuthentication, CauseInductive, PTL
     DEF ImplementsAuthentication
<1> QED
  BY <1>1, <1>2, <1>3, <1>4, ContractInductive, PTL
     DEF ContractSpec, ImplementsService, Svc!ServiceSpec
=====================================================================================
