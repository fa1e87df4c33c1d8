----------------------------- MODULE RegistrationProofs -----------------------------
(***********************************************************************************)
(* Proofs about Registration, for any sets of runs, accounts and passwords, with or *)
(* without a persistent store and under any set of faults.                          *)
(***********************************************************************************)
EXTENDS Registration, TLAPS

\* The stages are distinct strings; all a step needs to know of them.
USE DEF ClientMoves, HandlerMoves

LEMMA InitInd == Init => IndInv
<1> SUFFICES ASSUME Init PROVE IndInv
  OBVIOUS
<1> USE NoneIsNoRun DEF Init
<1>1. TypeOK
  BY DEF TypeOK, ClientStages, HandlerStages, NoEnvelope
<1>2. BegunHasInputs
  BY DEF BegunHasInputs
<1>3. AdmittedFirst
  BY DEF AdmittedFirst
<1>4. KeysAreAdmitted
  BY DEF KeysAreAdmitted, NoEnvelope
<1>5. StoreKeepsUp /\ EnrolledStaysReserved
  BY DEF StoreKeepsUp, EnrolledStaysReserved
<1> QED
  BY <1>1, <1>2, <1>3, <1>4, <1>5 DEF IndInv

LEMMA BeginKeepsInd ==
  ASSUME IndInv, NEW r \in Runs, BeginRegistration(r)
  PROVE  IndInv'
<1> PICK a \in Accounts, p \in Passwords :
      /\ account' = [account EXCEPT ![r] = a]
      /\ password' = [password EXCEPT ![r] = p]
  BY DEF BeginRegistration
<1> USE NoneIsNoRun DEF IndInv, BeginRegistration, store, TypeOK
<1>1. TypeOK'
  BY DEF ClientStages, HandlerStages, Working
<1>2. BegunHasInputs'
  BY DEF BegunHasInputs
<1>3. AdmittedFirst'
  BY DEF AdmittedFirst, BegunHasInputs
<1>4. KeysAreAdmitted'
  BY DEF KeysAreAdmitted, AdmittedFirst, UserEnvelope
<1>5. StoreKeepsUp' /\ EnrolledStaysReserved'
  BY DEF StoreKeepsUp, EnrolledStaysReserved, BegunHasInputs
<1> QED
  BY <1>1, <1>2, <1>3, <1>4, <1>5 DEF IndInv

LEMMA EvaluationKeepsInd ==
  ASSUME IndInv, NEW r \in Runs, ReceiveEvaluation(r)
  PROVE  IndInv'
<1> USE NoneIsNoRun DEF IndInv, ReceiveEvaluation, store, inputs, TypeOK
<1>1. TypeOK'
  BY DEF ClientStages, HandlerStages, Working, Replies, Refusals
<1>2. BegunHasInputs'
  BY DEF BegunHasInputs
<1>3. AdmittedFirst'
  BY DEF AdmittedFirst, BegunHasInputs
<1>4. KeysAreAdmitted'
  BY DEF KeysAreAdmitted, AdmittedFirst, BegunHasInputs
<1>5. StoreKeepsUp' /\ EnrolledStaysReserved'
  BY DEF StoreKeepsUp, EnrolledStaysReserved, BegunHasInputs
<1> QED
  BY <1>1, <1>2, <1>3, <1>4, <1>5 DEF IndInv

LEMMA SendKeepsInd ==
  ASSUME IndInv, NEW r \in Runs, SendEnvelope(r)
  PROVE  IndInv'
<1> USE NoneIsNoRun DEF IndInv, SendEnvelope, store, inputs, TypeOK
<1>1. TypeOK'
  BY DEF ClientStages, HandlerStages, Working, Replies, Refusals
<1>2. BegunHasInputs'
  BY DEF BegunHasInputs
<1>3. AdmittedFirst'
  BY DEF AdmittedFirst, BegunHasInputs
<1>4. KeysAreAdmitted'
  BY DEF KeysAreAdmitted, AdmittedFirst, BegunHasInputs
<1>5. StoreKeepsUp' /\ EnrolledStaysReserved'
  BY DEF StoreKeepsUp, EnrolledStaysReserved, BegunHasInputs
<1> QED
  BY <1>1, <1>2, <1>3, <1>4, <1>5 DEF IndInv

LEMMA StoredKeepsInd ==
  ASSUME IndInv, NEW r \in Runs, ReceiveStored(r)
  PROVE  IndInv'
<1> USE NoneIsNoRun DEF IndInv, ReceiveStored, store, inputs, TypeOK
<1>1. TypeOK'
  BY DEF ClientStages, HandlerStages, Working, Replies, Refusals
<1>2. BegunHasInputs'
  BY DEF BegunHasInputs
<1>3. AdmittedFirst'
  BY DEF AdmittedFirst, BegunHasInputs
<1>4. KeysAreAdmitted'
  BY DEF KeysAreAdmitted, AdmittedFirst, BegunHasInputs
<1>5. StoreKeepsUp' /\ EnrolledStaysReserved'
  BY DEF StoreKeepsUp, EnrolledStaysReserved, BegunHasInputs
<1> QED
  BY <1>1, <1>2, <1>3, <1>4, <1>5 DEF IndInv

LEMMA RefusalKeepsInd ==
  ASSUME IndInv, NEW r \in Runs, ReceiveRefusal(r)
  PROVE  IndInv'
<1> USE NoneIsNoRun DEF IndInv, ReceiveRefusal, store, inputs, TypeOK, Waiting, Refusals
<1>1. TypeOK'
  BY DEF ClientStages, HandlerStages, Working, Replies, Refusals
<1>2. BegunHasInputs'
  BY DEF BegunHasInputs
<1>3. AdmittedFirst'
  BY DEF AdmittedFirst, BegunHasInputs
<1>4. KeysAreAdmitted'
  BY DEF KeysAreAdmitted, AdmittedFirst, BegunHasInputs
<1>5. StoreKeepsUp' /\ EnrolledStaysReserved'
  BY DEF StoreKeepsUp, EnrolledStaysReserved, BegunHasInputs
<1> QED
  BY <1>1, <1>2, <1>3, <1>4, <1>5 DEF IndInv

LEMMA CheckKeepsInd ==
  ASSUME IndInv, NEW r \in Runs, CheckRegistered(r)
  PROVE  IndInv'
<1> USE NoneIsNoRun DEF IndInv, CheckRegistered, store, inputs, TypeOK
<1>1. TypeOK'
  BY DEF ClientStages, HandlerStages, Working, Replies, Refusals
<1>2. BegunHasInputs'
  BY DEF BegunHasInputs
<1>3. AdmittedFirst'
  BY DEF AdmittedFirst, BegunHasInputs
<1>4. KeysAreAdmitted'
  BY DEF KeysAreAdmitted, AdmittedFirst, BegunHasInputs
<1>5. StoreKeepsUp' /\ EnrolledStaysReserved'
  BY DEF StoreKeepsUp, EnrolledStaysReserved, BegunHasInputs
<1> QED
  BY <1>1, <1>2, <1>3, <1>4, <1>5 DEF IndInv

LEMMA StoreRequestKeepsInd ==
  ASSUME IndInv, NEW r \in Runs, StoreUserRequest(r)
  PROVE  IndInv'
<1> USE NoneIsNoRun DEF IndInv, StoreUserRequest, store, inputs, TypeOK
<1>1. TypeOK'
  BY DEF ClientStages, HandlerStages, Working, Replies, Refusals
<1>2. BegunHasInputs'
  BY DEF BegunHasInputs
<1>3. AdmittedFirst'
  BY DEF AdmittedFirst, BegunHasInputs
<1>4. KeysAreAdmitted'
  BY DEF KeysAreAdmitted, AdmittedFirst, BegunHasInputs
<1>5. StoreKeepsUp' /\ EnrolledStaysReserved'
  BY DEF StoreKeepsUp, EnrolledStaysReserved, BegunHasInputs
<1> QED
  BY <1>1, <1>2, <1>3, <1>4, <1>5 DEF IndInv

LEMMA LoadKeepsInd ==
  ASSUME IndInv, NEW r \in Runs, LoadUserRequest(r)
  PROVE  IndInv'
<1> USE NoneIsNoRun DEF IndInv, LoadUserRequest, store, inputs, TypeOK
<1>1. TypeOK'
  BY DEF ClientStages, HandlerStages, Working, Replies, Refusals, BegunHasInputs
<1>2. BegunHasInputs'
  BY DEF BegunHasInputs
<1>3. AdmittedFirst'
  BY DEF AdmittedFirst, BegunHasInputs
<1>4. KeysAreAdmitted'
  BY DEF KeysAreAdmitted, AdmittedFirst, BegunHasInputs
<1>5. StoreKeepsUp' /\ EnrolledStaysReserved'
  BY DEF StoreKeepsUp, EnrolledStaysReserved, BegunHasInputs
<1> QED
  BY <1>1, <1>2, <1>3, <1>4, <1>5 DEF IndInv

LEMMA StoreEnvelopeKeepsInd ==
  ASSUME IndInv, NEW r \in Runs, StoreUserEnvelope(r)
  PROVE  IndInv'
<1> USE NoneIsNoRun DEF IndInv, StoreUserEnvelope, Filed, store, inputs, TypeOK
<1>1. TypeOK'
  BY DEF ClientStages, HandlerStages, Working, Replies, Refusals,
         BegunHasInputs, KeysAreAdmitted, UserEnvelope, Envelopes
<1>2. BegunHasInputs'
  BY DEF BegunHasInputs
<1>3. AdmittedFirst'
  BY DEF AdmittedFirst, BegunHasInputs
<1>4. KeysAreAdmitted'
  BY DEF KeysAreAdmitted, AdmittedFirst, BegunHasInputs
<1>5. StoreKeepsUp' /\ EnrolledStaysReserved'
  BY DEF StoreKeepsUp, EnrolledStaysReserved, BegunHasInputs, UserEnvelope, NoEnvelope
<1> QED
  BY <1>1, <1>2, <1>3, <1>4, <1>5 DEF IndInv

LEMMA LoseKeepsInd ==
  ASSUME IndInv, NEW r \in Runs, LoseConnection(r)
  PROVE  IndInv'
<1> USE NoneIsNoRun DEF IndInv, LoseConnection, store, inputs, TypeOK, Waiting, Refusals
<1>1. TypeOK'
  BY DEF ClientStages, HandlerStages, Working, Replies, Refusals
<1>2. BegunHasInputs'
  BY DEF BegunHasInputs
<1>3. AdmittedFirst'
  BY DEF AdmittedFirst, BegunHasInputs
<1>4. KeysAreAdmitted'
  BY DEF KeysAreAdmitted, AdmittedFirst, BegunHasInputs
<1>5. StoreKeepsUp' /\ EnrolledStaysReserved'
  BY DEF StoreKeepsUp, EnrolledStaysReserved, BegunHasInputs
<1> QED
  BY <1>1, <1>2, <1>3, <1>4, <1>5 DEF IndInv

LEMMA CutShortKeepsInd ==
  ASSUME IndInv, NEW r \in Runs, BodyCutShort(r)
  PROVE  IndInv'
<1> USE NoneIsNoRun DEF IndInv, BodyCutShort, store, inputs, TypeOK
<1>1. TypeOK'
  BY DEF ClientStages, HandlerStages, Working, Replies, Refusals
<1>2. BegunHasInputs'
  BY DEF BegunHasInputs
<1>3. AdmittedFirst'
  BY DEF AdmittedFirst, BegunHasInputs
<1>4. KeysAreAdmitted'
  BY DEF KeysAreAdmitted, AdmittedFirst, BegunHasInputs
<1>5. StoreKeepsUp' /\ EnrolledStaysReserved'
  BY DEF StoreKeepsUp, EnrolledStaysReserved, BegunHasInputs
<1> QED
  BY <1>1, <1>2, <1>3, <1>4, <1>5 DEF IndInv

LEMMA LoseReplyKeepsInd ==
  ASSUME IndInv, NEW r \in Runs, LoseReply(r)
  PROVE  IndInv'
<1> USE NoneIsNoRun DEF IndInv, LoseReply, Filed, store, inputs, TypeOK
<1>1. TypeOK'
  BY DEF BegunHasInputs, KeysAreAdmitted, UserEnvelope, Envelopes
<1>2. BegunHasInputs'
  BY DEF BegunHasInputs
<1>3. AdmittedFirst'
  BY DEF AdmittedFirst, BegunHasInputs
<1>4. KeysAreAdmitted'
  BY DEF KeysAreAdmitted, AdmittedFirst, BegunHasInputs
<1>5. StoreKeepsUp' /\ EnrolledStaysReserved'
  BY DEF StoreKeepsUp, EnrolledStaysReserved, BegunHasInputs, UserEnvelope, NoEnvelope
<1> QED
  BY <1>1, <1>2, <1>3, <1>4, <1>5 DEF IndInv

LEMMA RestartKeepsInd ==
  ASSUME IndInv, Restart
  PROVE  IndInv'
<1> USE NoneIsNoRun DEF IndInv, Restart, Crash, store, inputs, TypeOK
<1>1. TypeOK'
  BY DEF ClientStages, HandlerStages
<1>2. BegunHasInputs'
  BY DEF BegunHasInputs, Waiting
<1>3. AdmittedFirst'
  BY DEF AdmittedFirst, Waiting
<1>4. KeysAreAdmitted'
  BY DEF KeysAreAdmitted
<1>5. StoreKeepsUp' /\ EnrolledStaysReserved'
  BY DEF StoreKeepsUp, EnrolledStaysReserved, Waiting
<1> QED
  BY <1>1, <1>2, <1>3, <1>4, <1>5 DEF IndInv

LEMMA NextKeepsInd == IndInv /\ [Next]_vars => IndInv'
<1> SUFFICES ASSUME IndInv, [Next]_vars PROVE IndInv'
  OBVIOUS
<1>1. ASSUME NEW r \in Runs, ClientStep(r) PROVE IndInv'
  BY <1>1, EvaluationKeepsInd, SendKeepsInd, StoredKeepsInd, RefusalKeepsInd
     DEF ClientStep
<1>2. ASSUME NEW r \in Runs, HandlerStep(r) PROVE IndInv'
  BY <1>2, CheckKeepsInd, StoreRequestKeepsInd, LoadKeepsInd, StoreEnvelopeKeepsInd
     DEF HandlerStep
<1>3. CASE UNCHANGED vars
  BY <1>3 DEF vars, IndInv, TypeOK, BegunHasInputs, AdmittedFirst, KeysAreAdmitted,
              StoreKeepsUp, EnrolledStaysReserved
<1> QED
  BY <1>1, <1>2, <1>3, BeginKeepsInd, LoseKeepsInd, CutShortKeepsInd, LoseReplyKeepsInd, RestartKeepsInd
     DEF Next, Finished

-----------------------------------------------------------------------------
\* Every reachable state satisfies the inductive invariant.
THEOREM RegistrationInductive == Spec => []IndInv
<1>1. Init => IndInv
  BY InitInd
<1>2. IndInv /\ [Next]_vars => IndInv'
  BY NextKeepsInd
<1> QED
  BY <1>1, <1>2, PTL DEF Spec

\* The variables keep their types: in particular the store only ever holds keys
\* and envelopes that some run produced.
THEOREM TypeCorrect == Spec => []TypeOK
<1>1. IndInv => TypeOK
  BY DEF IndInv
<1> QED
  BY <1>1, RegistrationInductive, PTL

\* The reservation that answers 403 outlives every enrolment.
THEOREM EnrolmentKeepsReservation == Spec => []EnrolledStaysReserved
<1>1. IndInv => EnrolledStaysReserved
  BY DEF IndInv
<1> QED
  BY <1>1, RegistrationInductive, PTL

\* An account no two runs were let into has an envelope that can be opened.
THEOREM UnsharedAccountsOpen == Spec => []UnsharedAccountOpens
<1>1. IndInv => UnsharedAccountOpens
  <2> SUFFICES ASSUME IndInv, NEW a \in Accounts, NEW r \in Runs,
                      admitted[a] \subseteq {r}, envelope[a] # NoEnvelope
               PROVE  envelope[a].kU = envelope[a].sealedUnder
    BY DEF UnsharedAccountOpens
  <2>1. PICK q, k \in admitted[a] : envelope[a] = UserEnvelope(q, password[q], q, k)
    BY DEF IndInv, KeysAreAdmitted
  <2>2. q = k
    OBVIOUS
  <2> QED
    BY <2>1, <2>2 DEF UserEnvelope
<1> QED
  BY <1>1, RegistrationInductive, PTL

\* With a persistent store, success told to the only run let into an account
\* means its password opens the envelope on file.
THEOREM SoleRegistrantsCanLogIn == Spec => []SoleRegistrantCanLogIn
<1>1. IndInv => SoleRegistrantCanLogIn
  <2> SUFFICES ASSUME IndInv, Persistent, NEW r \in Runs,
                      client[r] = "registered", admitted[account[r]] = {r}
               PROVE  Opens(envelope[account[r]], password[r])
    BY DEF SoleRegistrantCanLogIn
  <2>1. account[r] \in Accounts /\ envelope[account[r]] # NoEnvelope
    BY DEF IndInv, BegunHasInputs, StoreKeepsUp
  <2>2. envelope[account[r]] = UserEnvelope(r, password[r], r, r)
    BY <2>1 DEF IndInv, KeysAreAdmitted
  <2> QED
    BY <2>2 DEF Opens, UserEnvelope
<1> QED
  BY <1>1, RegistrationInductive, PTL

\* No run passes the check of an account that has an envelope.
THEOREM EnrolledAccountsAreClosed == Spec => EnrolledAccountIsClosed
<1>1. IndInv /\ [Next]_vars
        => [\A r \in Runs : handler[r] = "check" /\ handler'[r] = "store"
                              => envelope[account[r]] = NoEnvelope]_vars
  <2> SUFFICES ASSUME IndInv, [Next]_vars, NEW r \in Runs,
                      handler[r] = "check", handler'[r] = "store"
               PROVE  envelope[account[r]] = NoEnvelope
    OBVIOUS
  <2>1. account[r] \in Accounts
    BY DEF IndInv, BegunHasInputs
  <2>2. userRequest[account[r]] = None
    <3>1. ASSUME NEW q \in Runs, ClientStep(q) PROVE FALSE
      BY <3>1 DEF ClientStep, ReceiveEvaluation, SendEnvelope, ReceiveStored,
                  ReceiveRefusal, IndInv, TypeOK
    <3>2. ASSUME NEW q \in Runs, HandlerStep(q) PROVE userRequest[account[r]] = None
      BY <3>2 DEF HandlerStep, CheckRegistered, StoreUserRequest, LoadUserRequest,
                  StoreUserEnvelope, IndInv, TypeOK
    <3>3. ASSUME NEW q \in Runs,
                 BeginRegistration(q) \/ LoseConnection(q) \/ BodyCutShort(q) \/ LoseReply(q)
          PROVE  FALSE
      BY <3>3 DEF BeginRegistration, LoseConnection, BodyCutShort, LoseReply, IndInv, TypeOK
    <3>4. ASSUME Restart \/ Finished \/ UNCHANGED vars PROVE FALSE
      BY <3>4 DEF Restart, Crash, Finished, vars
    <3> QED
      BY <3>1, <3>2, <3>3, <3>4 DEF Next
  <2> QED
    BY <2>1, <2>2 DEF IndInv, EnrolledStaysReserved
<1> QED
  BY <1>1, RegistrationInductive, PTL DEF Spec, EnrolledAccountIsClosed

-----------------------------------------------------------------------------
(* The refinement: one step of the directory, or none, for each action.      *)

\* Only the two SETs and a restart change the phase of an account.
LEMMA StoreUntouchedPhase ==
  ASSUME UNCHANGED store
  PROVE  Phase' = Phase
BY DEF store, Phase

\* Filing a request reserves a free account, and leaves any other as it was.
LEMMA RequestReserves ==
  ASSUME IndInv, NEW r \in Runs, handler[r] = "store", UNCHANGED envelope,
         \/ userRequest' = [userRequest EXCEPT ![account[r]] = r]
         \/ UNCHANGED userRequest
  PROVE  [Directory!Next]_Phase
<1> DEFINE a == account[r]
<1>1. a \in Accounts /\ r # None
  BY NoneIsNoRun DEF IndInv, BegunHasInputs
<1>2. CASE UNCHANGED userRequest
  BY <1>2, StoreUntouchedPhase DEF store
<1>3. CASE userRequest' = [userRequest EXCEPT ![a] = r]
  <2>1. userRequest \in [Accounts -> Runs \cup {None}]
    BY DEF IndInv, TypeOK
  <2>2. CASE Phase[a] = "free"
    <3>1. Phase' = [Phase EXCEPT ![a] = "reserved"]
      BY <1>1, <1>3, <2>1, <2>2 DEF Phase
    <3> QED
      BY <1>1, <2>2, <3>1 DEF Directory!Next, Directory!Reserve
  <2>3. CASE Phase[a] # "free"
    <3>1. Phase' = Phase
      BY <1>1, <1>3, <2>1, <2>3 DEF Phase
    <3> QED
      BY <3>1
  <2> QED
    BY <2>2, <2>3
<1> QED
  BY <1>2, <1>3

\* Filing an envelope enrols a reserved account, and leaves an enrolled one so.
LEMMA EnvelopeEnrols ==
  ASSUME IndInv, NEW r \in Runs, handler[r] = "save", UNCHANGED userRequest,
         \/ envelope' = [envelope EXCEPT ![account[r]] = Filed(r)]
         \/ UNCHANGED envelope
  PROVE  [Directory!Next]_Phase
<1> DEFINE a == account[r]
<1>1. a \in Accounts /\ userRequest[a] # None /\ Filed(r) # NoEnvelope
  BY NoneIsNoRun
     DEF IndInv, BegunHasInputs, StoreKeepsUp, Filed, UserEnvelope, NoEnvelope
<1>2. CASE UNCHANGED envelope
  BY <1>2, StoreUntouchedPhase DEF store
<1>3. CASE envelope' = [envelope EXCEPT ![a] = Filed(r)]
  <2>1. envelope \in [Accounts -> Envelopes \cup {NoEnvelope}]
    BY DEF IndInv, TypeOK
  <2>2. envelope'[a] # NoEnvelope /\ \A b \in Accounts \ {a} : envelope'[b] = envelope[b]
    BY <1>1, <1>3, <2>1
  <2>3. CASE Phase[a] = "reserved"
    <3>1. Phase' = [Phase EXCEPT ![a] = "enrolled"]
      BY <1>1, <2>1, <2>2, <2>3 DEF Phase
    <3> QED
      BY <1>1, <2>3, <3>1 DEF Directory!Next, Directory!Enroll
  <2>4. CASE Phase[a] # "reserved"
    <3>1. Phase' = Phase
      BY <1>1, <2>1, <2>2, <2>4 DEF Phase
    <3> QED
      BY <3>1
  <2> QED
    BY <2>3, <2>4
<1> QED
  BY <1>2, <1>3

\* A restart forgets the accounts with miniredis, and nothing with a real Redis.
LEMMA RestartForgets ==
  ASSUME Restart
  PROVE  [Directory!Next]_Phase
<1>1. CASE Persistent
  BY <1>1, StoreUntouchedPhase DEF Restart, Crash
<1>2. CASE ~Persistent
  <2>1. Phase' = [a \in Accounts |-> "free"]
    BY <1>2 DEF Restart, Crash, Phase
  <2> QED
    BY <1>2, <2>1 DEF Directory!Next, Directory!Forget
<1> QED
  BY <1>1, <1>2

\* Registration, with its races and faults, implements the account directory:
\* an account is reserved, then enrolled, and never goes back.
THEOREM RegistrationImplementsDirectory == Spec => ImplementsDirectory
<1>1. Init => Directory!Init
  BY DEF Init, Directory!Init, Phase, NoEnvelope
<1>2. IndInv /\ [Next]_vars => [Directory!Next]_Phase
  <2> SUFFICES ASSUME IndInv, [Next]_vars PROVE [Directory!Next]_Phase
    OBVIOUS
  <2>1. ASSUME NEW r \in Runs,
               ClientStep(r) \/ BeginRegistration(r) \/ LoseConnection(r) \/ BodyCutShort(r)
        PROVE  UNCHANGED store
    BY <2>1 DEF ClientStep, ReceiveEvaluation, SendEnvelope, ReceiveStored,
                ReceiveRefusal, BeginRegistration, LoseConnection, BodyCutShort
  <2>2. ASSUME NEW r \in Runs, HandlerStep(r) PROVE [Directory!Next]_Phase
    <3>1. CASE CheckRegistered(r) \/ LoadUserRequest(r)
      BY <3>1, StoreUntouchedPhase DEF CheckRegistered, LoadUserRequest
    <3>2. CASE StoreUserRequest(r)
      BY <3>2, RequestReserves DEF StoreUserRequest
    <3>3. CASE StoreUserEnvelope(r)
      BY <3>3, EnvelopeEnrols DEF StoreUserEnvelope
    <3> QED
      BY <2>2, <3>1, <3>2, <3>3 DEF HandlerStep
  <2>3. CASE Finished \/ UNCHANGED vars
    BY <2>3, StoreUntouchedPhase DEF Finished, vars, store
  <2>4. ASSUME NEW r \in Runs, LoseReply(r) PROVE [Directory!Next]_Phase
    BY <2>4, RequestReserves, EnvelopeEnrols DEF LoseReply
  <2> QED
    BY <2>1, <2>2, <2>3, <2>4, StoreUntouchedPhase, RestartForgets DEF Next
<1> QED
  BY <1>1, <1>2, RegistrationInductive, PTL DEF Spec, ImplementsDirectory, Directory!Spec
=====================================================================================
