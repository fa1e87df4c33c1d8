------------------------------ MODULE AuthServerProofs ------------------------------
(***********************************************************************************)
(* Proofs about AuthServer: the registration and the authentication handlers, over  *)
(* one store, behave each as it does alone, and a session leads back to the         *)
(* password of a registration.                                                      *)
(***********************************************************************************)
EXTENDS AuthServer, AuthenticationProofs

USE DEF Reg!ClientMoves, Reg!HandlerMoves

ServerInd == AuthInd /\ FilingInd

\* The part of the invariant that is about registrations alone.
RegistrationInd == Reg!TypeOK /\ StagesFit /\ Reg!AdmittedFirst /\ KeysAreAdmitted

-----------------------------------------------------------------------------
(* Registrations keep their half: one lemma per action.                      *)

LEMMA BeginKeepsRegistration ==
  ASSUME RegistrationInd, NEW r \in Runs, Reg!BeginRegistration(r)
  PROVE  RegistrationInd'
<1> PICK a \in Accounts, p \in Passwords :
      /\ account' = [account EXCEPT ![r] = a]
      /\ password' = [password EXCEPT ![r] = p]
  BY DEF Reg!BeginRegistration
<1> USE NoneIsNoRun DEF RegistrationInd, Reg!BeginRegistration, Reg!store, Reg!TypeOK
<1>1. Reg!TypeOK'
  BY DEF Reg!ClientStages, Reg!HandlerStages, Reg!Working, Reg!Replies, Reg!Refusals,
         StagesFit, KeysAreAdmitted, Reg!AdmittedFirst
<1>2. StagesFit'
  BY DEF StagesFit
<1>3. Reg!AdmittedFirst'
  BY DEF Reg!AdmittedFirst, StagesFit
<1>4. KeysAreAdmitted'
  BY DEF KeysAreAdmitted, Reg!AdmittedFirst, StagesFit
<1> QED
  BY <1>1, <1>2, <1>3, <1>4

LEMMA EvaluationKeepsRegistration ==
  ASSUME RegistrationInd, NEW r \in Runs, Reg!ReceiveEvaluation(r)
  PROVE  RegistrationInd'
<1> USE NoneIsNoRun DEF RegistrationInd, Reg!ReceiveEvaluation, Reg!store, Reg!inputs, Reg!TypeOK
<1>1. Reg!TypeOK'
  BY DEF Reg!ClientStages, Reg!HandlerStages, Reg!Working, Reg!Replies, Reg!Refusals,
         StagesFit, KeysAreAdmitted, Reg!AdmittedFirst
<1>2. StagesFit'
  BY DEF StagesFit
<1>3. Reg!AdmittedFirst'
  BY DEF Reg!AdmittedFirst, StagesFit
<1>4. KeysAreAdmitted'
  BY DEF KeysAreAdmitted, Reg!AdmittedFirst, StagesFit
<1> QED
  BY <1>1, <1>2, <1>3, <1>4

LEMMA SendEnvelopeKeepsRegistration ==
  ASSUME RegistrationInd, NEW r \in Runs, Reg!SendEnvelope(r)
  PROVE  RegistrationInd'
<1> USE NoneIsNoRun DEF RegistrationInd, Reg!SendEnvelope, Reg!store, Reg!inputs, Reg!TypeOK
<1>1. Reg!TypeOK'
  BY DEF Reg!ClientStages, Reg!HandlerStages, Reg!Working, Reg!Replies, Reg!Refusals,
         StagesFit, KeysAreAdmitted, Reg!AdmittedFirst
<1>2. StagesFit'
  BY DEF StagesFit
<1>3. Reg!AdmittedFirst'
  BY DEF Reg!AdmittedFirst, StagesFit
<1>4. KeysAreAdmitted'
  BY DEF KeysAreAdmitted, Reg!AdmittedFirst, StagesFit
<1> QED
  BY <1>1, <1>2, <1>3, <1>4

LEMMA StoredKeepsRegistration ==
  ASSUME RegistrationInd, NEW r \in Runs, Reg!ReceiveStored(r)
  PROVE  RegistrationInd'
<1> USE NoneIsNoRun DEF RegistrationInd, Reg!ReceiveStored, Reg!store, Reg!inputs, Reg!TypeOK
<1>1. Reg!TypeOK'
  BY DEF Reg!ClientStages, Reg!HandlerStages, Reg!Working, Reg!Replies, Reg!Refusals,
         StagesFit, KeysAreAdmitted, Reg!AdmittedFirst
<1>2. StagesFit'
  BY DEF StagesFit
<1>3. Reg!AdmittedFirst'
  BY DEF Reg!AdmittedFirst, StagesFit
<1>4. KeysAreAdmitted'
  BY DEF KeysAreAdmitted, Reg!AdmittedFirst, StagesFit
<1> QED
  BY <1>1, <1>2, <1>3, <1>4

LEMMA RegistrationRefusalKeepsRegistration ==
  ASSUME RegistrationInd, NEW r \in Runs, Reg!ReceiveRefusal(r)
  PROVE  RegistrationInd'
<1> USE NoneIsNoRun DEF RegistrationInd, Reg!ReceiveRefusal, Reg!store, Reg!inputs, Reg!Waiting, Reg!Refusals, Reg!TypeOK
<1>1. Reg!TypeOK'
  BY DEF Reg!ClientStages, Reg!HandlerStages, Reg!Working, Reg!Replies, Reg!Refusals,
         StagesFit, KeysAreAdmitted, Reg!AdmittedFirst
<1>2. StagesFit'
  BY DEF StagesFit
<1>3. Reg!AdmittedFirst'
  BY DEF Reg!AdmittedFirst, StagesFit
<1>4. KeysAreAdmitted'
  BY DEF KeysAreAdmitted, Reg!AdmittedFirst, StagesFit
<1> QED
  BY <1>1, <1>2, <1>3, <1>4

LEMMA CheckKeepsRegistration ==
  ASSUME RegistrationInd, NEW r \in Runs, Reg!CheckRegistered(r)
  PROVE  RegistrationInd'
<1> USE NoneIsNoRun DEF RegistrationInd, Reg!CheckRegistered, Reg!store, Reg!inputs, Reg!TypeOK
<1>1. Reg!TypeOK'
  BY DEF Reg!ClientStages, Reg!HandlerStages, Reg!Working, Reg!Replies, Reg!Refusals,
         StagesFit, KeysAreAdmitted, Reg!AdmittedFirst
<1>2. StagesFit'
  BY DEF StagesFit
<1>3. Reg!AdmittedFirst'
  BY DEF Reg!AdmittedFirst, StagesFit
<1>4. KeysAreAdmitted'
  BY DEF KeysAreAdmitted, Reg!AdmittedFirst, StagesFit
<1> QED
  BY <1>1, <1>2, <1>3, <1>4

LEMMA StoreRequestKeepsRegistration ==
  ASSUME RegistrationInd, NEW r \in Runs, Reg!StoreUserRequest(r)
  PROVE  RegistrationInd'
<1> USE NoneIsNoRun DEF RegistrationInd, Reg!StoreUserRequest, Reg!store, Reg!inputs, Reg!TypeOK
<1>1. Reg!TypeOK'
  BY DEF Reg!ClientStages, Reg!HandlerStages, Reg!Working, Reg!Replies, Reg!Refusals,
         StagesFit, KeysAreAdmitted, Reg!AdmittedFirst
<1>2. StagesFit'
  BY DEF StagesFit
<1>3. Reg!AdmittedFirst'
  BY DEF Reg!AdmittedFirst, StagesFit
<1>4. KeysAreAdmitted'
  BY DEF KeysAreAdmitted, Reg!AdmittedFirst, StagesFit
<1> QED
  BY <1>1, <1>2, <1>3, <1>4

LEMMA LoadRequestKeepsRegistration ==
  ASSUME RegistrationInd, NEW r \in Runs, Reg!LoadUserRequest(r)
  PROVE  RegistrationInd'
<1> USE NoneIsNoRun DEF RegistrationInd, Reg!LoadUserRequest, Reg!store, Reg!inputs, Reg!TypeOK
<1>1. Reg!TypeOK'
  BY DEF Reg!ClientStages, Reg!HandlerStages, Reg!Working, Reg!Replies, Reg!Refusals,
         StagesFit, KeysAreAdmitted, Reg!AdmittedFirst
<1>2. StagesFit'
  BY DEF StagesFit
<1>3. Reg!AdmittedFirst'
  BY DEF Reg!AdmittedFirst, StagesFit
<1>4. KeysAreAdmitted'
  BY DEF KeysAreAdmitted, Reg!AdmittedFirst, StagesFit
<1> QED
  BY <1>1, <1>2, <1>3, <1>4

LEMMA StoreEnvelopeKeepsRegistration ==
  ASSUME RegistrationInd, NEW r \in Runs, Reg!StoreUserEnvelope(r)
  PROVE  RegistrationInd'
<1> USE NoneIsNoRun DEF RegistrationInd, Reg!StoreUserEnvelope, Reg!store, Reg!inputs, Reg!Filed, Reg!UserEnvelope, Reg!Envelopes, Reg!TypeOK
<1>1. Reg!TypeOK'
  BY DEF Reg!ClientStages, Reg!HandlerStages, Reg!Working, Reg!Replies, Reg!Refusals,
         StagesFit, KeysAreAdmitted, Reg!AdmittedFirst
<1>2. StagesFit'
  BY DEF StagesFit
<1>3. Reg!AdmittedFirst'
  BY DEF Reg!AdmittedFirst, StagesFit
<1>4. KeysAreAdmitted'
  BY DEF KeysAreAdmitted, Reg!AdmittedFirst, StagesFit
<1> QED
  BY <1>1, <1>2, <1>3, <1>4

LEMMA LoseRegistrationKeepsRegistration ==
  ASSUME RegistrationInd, NEW r \in Runs, Reg!LoseConnection(r)
  PROVE  RegistrationInd'
<1> USE NoneIsNoRun DEF RegistrationInd, Reg!LoseConnection, Reg!store, Reg!inputs, Reg!Waiting, Reg!Refusals, Reg!TypeOK
<1>1. Reg!TypeOK'
  BY DEF Reg!ClientStages, Reg!HandlerStages, Reg!Working, Reg!Replies, Reg!Refusals,
         StagesFit, KeysAreAdmitted, Reg!AdmittedFirst
<1>2. StagesFit'
  BY DEF StagesFit
<1>3. Reg!AdmittedFirst'
  BY DEF Reg!AdmittedFirst, StagesFit
<1>4. KeysAreAdmitted'
  BY DEF KeysAreAdmitted, Reg!AdmittedFirst, StagesFit
<1> QED
  BY <1>1, <1>2, <1>3, <1>4

LEMMA CutShortKeepsRegistration ==
  ASSUME RegistrationInd, NEW r \in Runs, Reg!BodyCutShort(r)
  PROVE  RegistrationInd'
<1> USE NoneIsNoRun DEF RegistrationInd, Reg!BodyCutShort, Reg!store, Reg!inputs, Reg!TypeOK
<1>1. Reg!TypeOK'
  BY DEF Reg!ClientStages, Reg!HandlerStages, Reg!Working, Reg!Replies, Reg!Refusals,
         StagesFit, KeysAreAdmitted, Reg!AdmittedFirst
<1>2. StagesFit'
  BY DEF StagesFit
<1>3. Reg!AdmittedFirst'
  BY DEF Reg!AdmittedFirst, StagesFit
<1>4. KeysAreAdmitted'
  BY DEF KeysAreAdmitted, Reg!AdmittedFirst, StagesFit
<1> QED
  BY <1>1, <1>2, <1>3, <1>4

LEMMA RepeatSetKeepsRegistration ==
  ASSUME RegistrationInd, NEW r \in Runs, Reg!LoseReply(r)
  PROVE  RegistrationInd'
<1> USE NoneIsNoRun DEF RegistrationInd, Reg!LoseReply, Reg!store, Reg!inputs, Reg!Filed, Reg!UserEnvelope, Reg!Envelopes, Reg!TypeOK
<1>1. Reg!TypeOK'
  BY DEF Reg!ClientStages, Reg!HandlerStages, Reg!Working, Reg!Replies, Reg!Refusals,
         StagesFit, KeysAreAdmitted, Reg!AdmittedFirst
<1>2. StagesFit'
  BY DEF StagesFit
<1>3. Reg!AdmittedFirst'
  BY DEF Reg!AdmittedFirst, StagesFit
<1>4. KeysAreAdmitted'
  BY DEF KeysAreAdmitted, Reg!AdmittedFirst, StagesFit
<1> QED
  BY <1>1, <1>2, <1>3, <1>4

LEMMA CrashKeepsRegistration ==
  ASSUME RegistrationInd, Reg!Crash
  PROVE  RegistrationInd'
<1> USE NoneIsNoRun DEF RegistrationInd, Reg!Crash, Reg!store, Reg!inputs, Reg!TypeOK
<1>1. Reg!TypeOK'
  BY DEF Reg!ClientStages, Reg!HandlerStages
<1>2. StagesFit'
  BY DEF StagesFit, Reg!Waiting
<1>3. Reg!AdmittedFirst'
  BY DEF Reg!AdmittedFirst, Reg!Waiting
<1>4. KeysAreAdmitted'
  BY DEF KeysAreAdmitted
<1> QED
  BY <1>1, <1>2, <1>3, <1>4

-----------------------------------------------------------------------------
(* What a step of a registration does to the envelopes.                      *)

LEMMA RegistrationStepKeepsRegistration ==
  ASSUME RegistrationInd, NEW r \in Runs, RegistrationStep(r)
  PROVE  RegistrationInd'
BY BeginKeepsRegistration, EvaluationKeepsRegistration, SendEnvelopeKeepsRegistration,
   StoredKeepsRegistration, RegistrationRefusalKeepsRegistration, CheckKeepsRegistration,
   StoreRequestKeepsRegistration, LoadRequestKeepsRegistration,
   StoreEnvelopeKeepsRegistration, LoseRegistrationKeepsRegistration,
   CutShortKeepsRegistration, RepeatSetKeepsRegistration
   DEF RegistrationStep, Reg!ClientStep, Reg!HandlerStep

\* What a run has filed stays the one thing it has to file.
LEMMA FiledStaysFiled ==
  ASSUME RegistrationInd, NEW r \in Runs, RegistrationStep(r),
         NEW s \in Runs, NEW f, HasFiled(s, f)
  PROVE  HasFiled(s, f)'
<1> USE DEF RegistrationInd, StagesFit, HasFiled, Reg!TypeOK, Reg!Filed, Reg!UserEnvelope,
            Reg!store, Reg!inputs
<1>1. CASE Reg!BeginRegistration(r)
  BY <1>1 DEF Reg!BeginRegistration
<1>2. CASE Reg!ReceiveEvaluation(r) \/ Reg!SendEnvelope(r)
  BY <1>2 DEF Reg!ReceiveEvaluation, Reg!SendEnvelope
<1>3. CASE Reg!ReceiveStored(r) \/ Reg!ReceiveRefusal(r)
  BY <1>3 DEF Reg!ReceiveStored, Reg!ReceiveRefusal
<1>4. CASE Reg!CheckRegistered(r)
  BY <1>4 DEF Reg!CheckRegistered
<1>5. CASE Reg!StoreUserRequest(r)
  BY <1>5 DEF Reg!StoreUserRequest
<1>6. CASE Reg!LoadUserRequest(r)
  BY <1>6 DEF Reg!LoadUserRequest
<1>7. CASE Reg!StoreUserEnvelope(r)
  BY <1>7 DEF Reg!StoreUserEnvelope
<1>8. CASE Reg!LoseConnection(r) \/ Reg!BodyCutShort(r)
  BY <1>8 DEF Reg!LoseConnection, Reg!BodyCutShort
<1>9. CASE Reg!LoseReply(r)
  BY <1>9 DEF Reg!LoseReply
<1> QED
  BY <1>1, <1>2, <1>3, <1>4, <1>5, <1>6, <1>7, <1>8, <1>9
     DEF RegistrationStep, Reg!ClientStep, Reg!HandlerStep

\* Only a run about to file its envelope files one, and it has then.
LEMMA FilesItsOwn ==
  ASSUME RegistrationInd, NEW r \in Runs, RegistrationStep(r), envelope' # envelope
  PROVE  /\ handler[r] = "save"
         /\ account[r] \in Accounts
         /\ Reg!Filed(r) \in Envelopes
         /\ envelope' = [envelope EXCEPT ![account[r]] = Reg!Filed(r)]
         /\ \A f : f = <<account[r], Reg!Filed(r)>> => HasFiled(r, f)'
<1> USE DEF RegistrationInd, StagesFit, Reg!TypeOK, Reg!store, Reg!inputs
<1>1. Reg!StoreUserEnvelope(r) \/ Reg!LoseReply(r)
  BY DEF RegistrationStep, Reg!ClientStep, Reg!HandlerStep, Reg!BeginRegistration,
         Reg!ReceiveEvaluation, Reg!SendEnvelope, Reg!ReceiveStored, Reg!ReceiveRefusal,
         Reg!CheckRegistered, Reg!StoreUserRequest, Reg!LoadUserRequest,
         Reg!LoseConnection, Reg!BodyCutShort
<1>2. /\ handler[r] = "save"
      /\ envelope' = [envelope EXCEPT ![account[r]] = Reg!Filed(r)]
      /\ UNCHANGED <<client, account, password, loadedKu, admitted>>
      /\ handler'[r] \in {"save", "stored", "serverError"}
      /\ handler'[r] = "save" => "redis" \in Faults
  BY <1>1 DEF Reg!StoreUserEnvelope, Reg!LoseReply
<1>3. /\ account[r] \in Accounts /\ password[r] \in Passwords
      /\ loadedKu[r] \in admitted[account[r]] /\ r \in admitted[account[r]]
      /\ client[r] \in {"finalizing", "failed"}
  BY <1>2 DEF KeysAreAdmitted, Reg!AdmittedFirst
<1>4. Reg!Filed(r) \in Envelopes
  BY <1>3 DEF Reg!Filed, Reg!UserEnvelope, Envelopes
<1>5. ASSUME NEW f, f = <<account[r], Reg!Filed(r)>> PROVE HasFiled(r, f)'
  BY <1>2, <1>3, <1>5 DEF HasFiled, Reg!Filed, Reg!UserEnvelope
<1> QED
  BY <1>2, <1>3, <1>4, <1>5

\* So everything that is or was on file was filed by a run that was let in.
LEMMA FilingKeepsFiled ==
  ASSUME RegistrationInd, FiledByRuns, NEW r \in Runs, RegistrationStep(r), Filing
  PROVE  FiledByRuns'
<1>1. CASE envelope' = envelope
  <2>1. filed' = filed
    BY <1>1 DEF Filing
  <2> QED
    BY <2>1, FiledStaysFiled DEF FiledByRuns
<1>2. CASE envelope' # envelope
  <2> DEFINE new == <<account[r], Reg!Filed(r)>>
  <2>1. /\ account[r] \in Accounts /\ Reg!Filed(r) \in Envelopes
        /\ envelope' = [envelope EXCEPT ![account[r]] = Reg!Filed(r)]
        /\ \A f : f = new => HasFiled(r, f)'
    BY <1>2, FilesItsOwn
  <2>2. filed' = filed \cup {new}
    BY <1>2, <2>1 DEF Filing, RegistrationInd, Reg!TypeOK
  <2> HIDE DEF new
  <2>3. \A f \in filed : \E s \in Runs : HasFiled(s, f)'
    BY FiledStaysFiled DEF FiledByRuns
  <2>4. new \in Accounts \X Envelopes
    BY <2>1 DEF new
  <2>5. filed' \subseteq Accounts \X Envelopes
    BY <2>2, <2>4 DEF FiledByRuns
  <2>6. \A f \in filed' : \E s \in Runs : HasFiled(s, f)'
    <3> SUFFICES ASSUME NEW f \in filed' PROVE \E s \in Runs : HasFiled(s, f)'
      OBVIOUS
    <3>1. CASE f \in filed
      BY <2>3, <3>1
    <3>2. CASE f = new
      <4>1. HasFiled(r, f)'
        BY <2>1, <3>2
      <4> QED
        BY <4>1
    <3> QED
      BY <2>2, <3>1, <3>2
  <2> QED
    BY <2>5, <2>6 DEF FiledByRuns
<1> QED
  BY <1>1, <1>2

-----------------------------------------------------------------------------
(* What the logins see of it.                                                *)

\* A step of a registration files an envelope as Authentication has it, or is none.
LEMMA FilingIsAssumed ==
  ASSUME ServerInd, NEW r \in Runs, RegistrationStep(r), Filing
  PROVE  [Next]_vars
<1> USE DEF ServerInd, FilingInd, AuthInd
<1>1. CASE envelope' = envelope
  <2>1. filed' = filed
    BY <1>1 DEF Filing
  <2>2. onFile' = onFile
    BY <1>1 DEF Filing, TypeOK
  <2> QED
    BY <1>1, <2>1, <2>2 DEF Filing, vars, local, inputs
<1>2. CASE envelope' # envelope
  <2> DEFINE a == account[r]
             e == Reg!Filed(r)
  <2>1. /\ handler[r] = "save" /\ a \in Accounts /\ e \in Envelopes
        /\ envelope' = [envelope EXCEPT ![a] = e]
    BY <1>2, FilesItsOwn DEF RegistrationInd
  <2>2. e.sealedUnder = e.owner /\ e.owner = r
    BY DEF Reg!Filed, Reg!UserEnvelope
  <2>3. ASSUME NEW f \in filed, f[2].owner = e.owner
        PROVE  f = <<a, e>> /\ "redis" \in Faults
    <3>1. PICK s \in Runs : HasFiled(s, f)
      BY DEF FiledByRuns
    <3>2. s = r
      BY <2>2, <2>3, <3>1 DEF HasFiled, Reg!Filed, Reg!UserEnvelope
    <3> QED
      BY <2>1, <3>1, <3>2 DEF HasFiled
  <2> HIDE DEF a, e
  <2>4. {x \in Accounts : envelope'[x] # envelope[x]} = {a}
    BY <1>2, <2>1 DEF TypeOK
  <2>5. envelope'[a] = e
    BY <2>1 DEF TypeOK
  <2>6. /\ filed' = filed \cup {<<a, e>>}
        /\ onFile' = [l \in Logins |-> IF onFile[l] # {} /\ user[l] = a
                                        THEN onFile[l] \cup {e.owner}
                                        ELSE onFile[l]]
        /\ UNCHANGED <<nonces, session, login, serving, local, expired>>
    BY <2>4, <2>5 DEF Filing
  <2>7. \A f \in filed : f[2].owner = e.owner => f = <<a, e>> /\ "redis" \in Faults
    BY <2>3
  <2>8. FileEnvelope(a, e)
    BY <2>1, <2>2, <2>6, <2>7 DEF FileEnvelope
  <2> QED
    BY <2>1, <2>8 DEF Next
<1> QED
  BY <1>1, <1>2

LEMMA RestartIsAssumed ==
  ASSUME ServerInd, ServerRestart
  PROVE  [Next]_vars
<1>1. CASE ~Persistent \/ \E l \in Logins : serving[l] # "none"
  BY <1>1 DEF ServerRestart, Next, Restart
<1>2. CASE Persistent /\ \A l \in Logins : serving[l] = "none"
  <2>1. \A l \in Logins : login[l] \notin Waiting
    BY <1>2 DEF ServerInd, FilingInd, LoginsAreServed, Waiting
  <2>2. UNCHANGED <<login, serving>>
    BY <1>2, <2>1 DEF ServerRestart, Crash, ServerInd, AuthInd, TypeOK
  <2> QED
    BY <1>2, <2>2 DEF ServerRestart, Crash, vars, store, local, inputs, history
<1> QED
  BY <1>1, <1>2

LEMMA ServerStepIsAssumed == ServerInd /\ [ServerNext]_serverVars => [Next]_vars
<1> SUFFICES ASSUME ServerInd, [ServerNext]_serverVars PROVE [Next]_vars
  OBVIOUS
<1>1. ASSUME NEW l \in Logins, LoginStep(l) PROVE Next
  BY <1>1 DEF LoginStep, Next
<1>2. CASE UNCHANGED serverVars
  BY <1>2 DEF serverVars
<1>3. CASE Finished
  BY <1>3 DEF Next
<1> QED
  BY <1>1, <1>2, <1>3, FilingIsAssumed, RestartIsAssumed DEF ServerNext, Next

-----------------------------------------------------------------------------
(* The invariant of the server.                                              *)

\* A login changes nothing registration relies on.
LEMMA LoginLeavesRegistration ==
  ASSUME NEW l \in Logins, LoginStep(l)
  PROVE  UNCHANGED <<envelope, filed>>
BY DEF LoginStep, ClientStep, HandlerStep, BeginLogin, ReceiveChallenge, SendToken,
       ReceiveAccepted, ReceiveRefusal, LoadUserEnvelope, PushNonce, TrimNonces,
       FindNonce, VerifyToken, StoreSessionToken, LoseConnection, BodyCutShort, LoseReply, ResendToken,
       store, history

LEMMA LoginKeepsServed ==
  ASSUME TypeOK, LoginsAreServed, NEW l \in Logins, LoginStep(l)
  PROVE  LoginsAreServed'
<1>0. login \in [Logins -> LoginStages] /\ serving \in [Logins -> ServingStages]
  BY DEF TypeOK
<1> USE <1>0 DEF LoginsAreServed, LoginMoves, ServingMoves
<1>1. CASE BeginLogin(l)
  BY <1>1 DEF BeginLogin
<1>2. CASE ClientStep(l)
  BY <1>2 DEF ClientStep, ReceiveChallenge, SendToken, ReceiveAccepted, ReceiveRefusal
<1>3. CASE HandlerStep(l)
  BY <1>3 DEF HandlerStep, LoadUserEnvelope, PushNonce, TrimNonces, FindNonce, VerifyToken,
              StoreSessionToken
<1>4. CASE LoseConnection(l) \/ BodyCutShort(l) \/ LoseReply(l) \/ ResendToken(l)
  BY <1>4 DEF LoseConnection, BodyCutShort, LoseReply, ResendToken
<1> QED
  BY <1>1, <1>2, <1>3, <1>4 DEF LoginStep

LEMMA ServerInitInd == ServerInit => ServerInd
<1> SUFFICES ASSUME ServerInit PROVE ServerInd
  OBVIOUS
<1>1. AuthInd
  BY InitInd DEF ServerInit
<1> USE NoneIsNoRun DEF ServerInit, Init, Reg!Init
<1>2. Reg!TypeOK
  BY DEF Reg!TypeOK, Reg!ClientStages, Reg!HandlerStages
<1>3. StagesFit /\ KeysAreAdmitted /\ Reg!AdmittedFirst
  BY DEF StagesFit, KeysAreAdmitted, Reg!AdmittedFirst
<1>4. FiledByRuns /\ LoginsAreServed
  BY DEF FiledByRuns, LoginsAreServed
<1> QED
  BY <1>1, <1>2, <1>3, <1>4 DEF ServerInd, FilingInd

\* FilingInd depends on these variables only.
LEMMA NothingToRegister ==
  ASSUME FilingInd, UNCHANGED <<envelope, filed, registration>>, LoginsAreServed'
  PROVE  FilingInd'
<1> USE DEF registration, FilingInd
<1>1. RegistrationInd'
  BY DEF RegistrationInd, Reg!TypeOK, StagesFit, Reg!AdmittedFirst, KeysAreAdmitted
<1>2. FiledByRuns'
  BY DEF FiledByRuns, HasFiled, Reg!Filed
<1> QED
  BY <1>1, <1>2 DEF RegistrationInd

LEMMA ServerNextKeepsInd == ServerInd /\ [ServerNext]_serverVars => ServerInd'
<1> SUFFICES ASSUME ServerInd, [ServerNext]_serverVars PROVE ServerInd'
  OBVIOUS
<1>1. AuthInd'
  BY ServerStepIsAssumed, NextKeepsInd DEF ServerInd
<1> USE DEF ServerInd
<1>2. ASSUME NEW r \in Runs, RegistrationStep(r), Filing PROVE FilingInd'
  <2>1. RegistrationInd'
    BY <1>2, RegistrationStepKeepsRegistration DEF FilingInd, RegistrationInd
  <2>2. FiledByRuns'
    BY <1>2, FilingKeepsFiled DEF FilingInd, RegistrationInd
  <2>3. LoginsAreServed'
    BY <1>2 DEF Filing, FilingInd, LoginsAreServed
  <2> QED
    BY <2>1, <2>2, <2>3 DEF FilingInd, RegistrationInd
<1>3. ASSUME NEW l \in Logins, LoginStep(l), UNCHANGED registration PROVE FilingInd'
  <2>1. UNCHANGED <<envelope, filed>> /\ LoginsAreServed'
    BY <1>3, LoginLeavesRegistration, LoginKeepsServed DEF AuthInd, FilingInd
  <2> QED
    BY <1>3, <2>1, NothingToRegister
<1>4. ASSUME NEW a \in Accounts, ExpireSession(a), UNCHANGED registration PROVE FilingInd'
  BY <1>4, NothingToRegister DEF ExpireSession, history, FilingInd, LoginsAreServed
<1>5. CASE ServerRestart
  <2>1. RegistrationInd'
    BY <1>5, CrashKeepsRegistration DEF ServerRestart, FilingInd, RegistrationInd
  <2>2. FiledByRuns'
    <3>1. filed' = filed
      BY <1>5 DEF ServerRestart, Crash, history
    <3>2. ASSUME NEW r \in Runs, NEW f, HasFiled(r, f) PROVE HasFiled(r, f)'
      BY <1>5, <3>2 DEF ServerRestart, Reg!Crash, Reg!inputs, HasFiled, Reg!Filed,
                        Reg!Waiting, FilingInd, Reg!TypeOK
    <3> QED
      BY <3>1, <3>2 DEF FilingInd, FiledByRuns
  <2>3. LoginsAreServed'
    BY <1>5 DEF ServerRestart, Crash, LoginsAreServed, Waiting
  <2> QED
    BY <1>1, <2>1, <2>2, <2>3 DEF FilingInd, RegistrationInd
<1>6. CASE UNCHANGED serverVars
  BY <1>1, <1>6, NothingToRegister DEF serverVars, vars, FilingInd, LoginsAreServed
<1>7. CASE Reg!Finished /\ Finished
  BY <1>1, <1>7, NothingToRegister
     DEF Reg!Finished, Reg!vars, Finished, vars, registration, FilingInd, LoginsAreServed
<1> QED
  BY <1>1, <1>2, <1>3, <1>4, <1>5, <1>6, <1>7 DEF ServerNext

-----------------------------------------------------------------------------
\* Both invariants hold together: that of the logins, and that of what was filed.
THEOREM ServerInductive == ServerSpec => [](AuthInd /\ FilingInd)
<1>1. ServerInit => ServerInd
  BY ServerInitInd
<1>2. ServerInd /\ [ServerNext]_serverVars => ServerInd'
  BY ServerNextKeepsInd
<1>3. ServerInd <=> AuthInd /\ FilingInd
  BY DEF ServerInd
<1> QED
  BY <1>1, <1>2, <1>3, PTL DEF ServerSpec

\* The server implements Authentication: what StoreUserData files, repeats and
\* loses is what a login is prepared for.
THEOREM ServerImplementsAuthentication == ServerSpec => ImplementsAuthentication
<1>1. ServerInit => Init
  BY DEF ServerInit
<1>2. AuthInd /\ FilingInd /\ [ServerNext]_serverVars => [Next]_vars
  BY ServerStepIsAssumed DEF ServerInd
<1> QED
  BY <1>1, <1>2, ServerInductive, PTL DEF ServerSpec, Spec, ImplementsAuthentication

\* The server implements Registration: no login disturbs one.
THEOREM ServerImplementsRegistration == ServerSpec => ImplementsRegistration
<1>1. ServerInit => Reg!Init
  BY DEF ServerInit
<1>2. FilingInd /\ [ServerNext]_serverVars => [Reg!Next]_(Reg!vars)
  <2> SUFFICES ASSUME FilingInd, [ServerNext]_serverVars PROVE [Reg!Next]_(Reg!vars)
    OBVIOUS
  <2>1. ASSUME NEW r \in Runs, RegistrationStep(r) PROVE Reg!Next
    BY <2>1 DEF RegistrationStep, Reg!Next
  <2>2. ASSUME UNCHANGED <<envelope, registration>> PROVE UNCHANGED Reg!vars
    BY <2>2 DEF Reg!vars, registration
  <2>3. ASSUME NEW l \in Logins, LoginStep(l), UNCHANGED registration
        PROVE  UNCHANGED Reg!vars
    BY <2>2, <2>3, LoginLeavesRegistration
  <2>4. ASSUME NEW a \in Accounts, ExpireSession(a), UNCHANGED registration
        PROVE  UNCHANGED Reg!vars
    BY <2>2, <2>4 DEF ExpireSession
  <2>5. ASSUME ServerRestart PROVE [Reg!Next]_(Reg!vars)
    <3>1. CASE ~Persistent \/ \E r \in Runs : handler[r] # "none"
      BY <2>5, <3>1 DEF ServerRestart, Reg!Next, Reg!Restart
    <3>2. CASE Persistent /\ \A r \in Runs : handler[r] = "none"
      <4>1. \A r \in Runs : client[r] \notin Reg!Waiting
        BY <3>2 DEF FilingInd, StagesFit, Reg!Waiting
      <4>2. UNCHANGED <<client, handler>>
        BY <2>5, <3>2, <4>1 DEF ServerRestart, Reg!Crash, FilingInd, Reg!TypeOK
      <4> QED
        BY <2>5, <3>2, <4>2 DEF ServerRestart, Reg!Crash, Reg!vars, Reg!store, Reg!inputs
    <3> QED
      BY <3>1, <3>2
  <2>6. CASE UNCHANGED serverVars
    BY <2>2, <2>6 DEF serverVars, vars
  <2>7. CASE Reg!Finished
    BY <2>7 DEF Reg!Next
  <2> QED
    BY <2>1, <2>3, <2>4, <2>5, <2>6, <2>7 DEF ServerNext
<1> QED
  BY <1>1, <1>2, ServerInductive, PTL DEF ServerSpec, Reg!Spec, ImplementsRegistration

\* A session leads back, over the envelope its login opened and the run that filed it,
\* to the password of a registration the account let in.
THEOREM SessionsAreRegistrants == ServerSpec => []SessionIsRegistrants
<1>1. AuthInd /\ FilingInd => SessionIsRegistrants
  <2> SUFFICES ASSUME AuthInd, FilingInd, NEW a \in Accounts, session[a] # NoToken
               PROVE  \E l \in Logins, r \in admitted[a] :
                        session[a] = Token(l) /\ user[l] = a /\ secret[l] = password[r]
    BY DEF SessionIsRegistrants
  <2>1. PICK l \in Logins :
          user[l] = a /\ session[a] = Token(l) /\ Opens(seen[l], secret[l])
    BY DEF AuthInd, SessionIsEarned
  <2>2. session[a] \in Tokens
    BY DEF AuthInd, TypeOK
  <2>3. seen[l] # NoEnvelope
    BY <2>1, <2>2, NoneIsNoRun DEF Tokens, Token, SessionToken, NoEnvelope
  <2>4. <<a, seen[l]>> \in filed
    BY <2>1, <2>3 DEF AuthInd, SeenIsFiled
  <2>5. PICK r \in Runs : HasFiled(r, <<a, seen[l]>>)
    BY <2>4 DEF FilingInd, FiledByRuns
  <2>6. r \in admitted[a] /\ seen[l].pw = password[r]
    BY <2>5 DEF HasFiled, Reg!Filed, Reg!UserEnvelope
  <2> QED
    BY <2>1, <2>6 DEF Opens
<1> QED
  BY <1>1, ServerInductive, PTL

\* A sole registrant's password opens what a login is challenged with, and only it does.
THEOREM RightPasswordsOpen == ServerSpec => []RightPasswordOpens
<1>1. AuthInd /\ FilingInd => RightPasswordOpens
  <2> SUFFICES ASSUME AuthInd, FilingInd, NEW l \in Logins, NEW r \in Runs,
                      seen[l] # NoEnvelope, admitted[user[l]] = {r}
               PROVE  Opens(seen[l], secret[l]) <=> secret[l] = password[r]
    BY DEF RightPasswordOpens
  <2>1. <<user[l], seen[l]>> \in filed
    BY DEF AuthInd, SeenIsFiled
  <2>2. PICK s \in Runs : HasFiled(s, <<user[l], seen[l]>>)
    BY <2>1 DEF FilingInd, FiledByRuns
  <2>3. s = r /\ loadedKu[s] = r
    BY <2>2 DEF HasFiled
  <2> QED
    BY <2>2, <2>3 DEF HasFiled, Reg!Filed, Reg!UserEnvelope, Opens
<1> QED
  BY <1>1, ServerInductive, PTL
=====================================================================================
