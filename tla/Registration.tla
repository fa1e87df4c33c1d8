-------------------------------- MODULE Registration --------------------------------
(***********************************************************************************)
(* Password registration: run_password_reg in the SDK, the two registration         *)
(* handlers of the auth server, and the Redis keys they share.                      *)
(*                                                                                  *)
(* A handler runs in a goroutine of its own and the store is reached one Redis      *)
(* command at a time, so each Redis command is one action; everything a handler or  *)
(* a client does between two commands belongs to the action that ends with it.      *)
(***********************************************************************************)
EXTENDS Opaque

CONSTANTS
  Persistent,  \* TRUE: an external Redis; FALSE: miniredis inside the process
  Faults       \* the faults that may happen: "redis", "link", "restart"

ASSUME RegistrationAssumption ==
  /\ Persistent \in BOOLEAN
  /\ Faults \subseteq {"redis", "link", "restart"}

VARIABLES
  userRequest,  \* reg:*:request per account: the run whose kU it holds, or None
  envelope,     \* reg:*:envelope per account
  client,       \* where each run_password_reg call stands
  handler,      \* where the server stands with the run's current request
  account,      \* the account a run registers
  password,     \* the password it registers it with
  loadedKu,     \* StoreUserData's local userReq
  admitted      \* history: the runs HasUserRequest has let through, per account

vars == <<userRequest, envelope, client, handler, account, password, loadedKu, admitted>>

-----------------------------------------------------------------------------
ClientStages == {"idle", "starting", "sealing", "finalizing", "registered", "failed"}

Waiting == {"starting", "finalizing"}        \* awaiting a response
Working == {"check", "store", "load", "save"}   \* the next Redis command of the handler
Refusals == {"forbidden", "badRequest", "serverError"}
Replies == Refusals \cup {"evaluated", "stored", "empty"}   \* "empty": a 200 and nothing else
HandlerStages == {"none"} \cup Working \cup Replies

TypeOK ==
  /\ userRequest \in [Accounts -> Runs \cup {None}]
  /\ envelope \in [Accounts -> Envelopes \cup {NoEnvelope}]
  /\ client \in [Runs -> ClientStages]
  /\ handler \in [Runs -> HandlerStages]
  /\ account \in [Runs -> Accounts \cup {None}]
  /\ password \in [Runs -> Passwords \cup {None}]
  /\ loadedKu \in [Runs -> Runs \cup {None}]
  /\ admitted \in [Accounts -> SUBSET Runs]

Init ==
  /\ userRequest = [a \in Accounts |-> None]
  /\ envelope = [a \in Accounts |-> NoEnvelope]
  /\ client = [r \in Runs |-> "idle"]
  /\ handler = [r \in Runs |-> "none"]
  /\ account = [r \in Runs |-> None]
  /\ password = [r \in Runs |-> None]
  /\ loadedKu = [r \in Runs |-> None]
  /\ admitted = [a \in Accounts |-> {}]

store == <<userRequest, envelope>>
inputs == <<account, password>>

\* A handler whose client has hung up runs on under a cancelled context, and
\* its Redis commands may then fail on a healthy Redis too.
RedisMayFail(r) == "redis" \in Faults \/ client[r] = "failed"

ClientMoves(r, stage) == client' = [client EXCEPT ![r] = stage]
HandlerMoves(r, stage) == handler' = [handler EXCEPT ![r] = stage]

-----------------------------------------------------------------------------
(* The client: run_password_reg.                                             *)

\* Blind the password and post it to /start_password_registration.
BeginRegistration(r) ==
  /\ client[r] = "idle"
  /\ \E a \in Accounts, p \in Passwords :
       /\ account' = [account EXCEPT ![r] = a]
       /\ password' = [password EXCEPT ![r] = p]
  /\ ClientMoves(r, "starting")
  /\ HandlerMoves(r, "check")
  /\ UNCHANGED <<store, loadedKu, admitted>>

\* The evaluation arrives; hardening it and sealing envU takes the client seconds.
ReceiveEvaluation(r) ==
  /\ client[r] = "starting"
  /\ handler[r] = "evaluated"
  /\ ClientMoves(r, "sealing")
  /\ HandlerMoves(r, "none")
  /\ UNCHANGED <<store, inputs, loadedKu, admitted>>

\* envU is sealed: post it to /finalize_password_registration.
SendEnvelope(r) ==
  /\ client[r] = "sealing"
  /\ ClientMoves(r, "finalizing")
  /\ HandlerMoves(r, "load")
  /\ UNCHANGED <<store, inputs, loadedKu, admitted>>

\* Any 200 will do: the SDK does not look at what comes with it.
ReceiveStored(r) ==
  /\ client[r] = "finalizing"
  /\ handler[r] \in {"stored", "empty"}
  /\ ClientMoves(r, "registered")
  /\ HandlerMoves(r, "none")
  /\ UNCHANGED <<store, inputs, loadedKu, admitted>>

\* Mutation: only a 500 ends the run.
ReceiveRefusalOnly500(r) ==
  /\ client[r] \in Waiting
  /\ handler[r] = "serverError"
  /\ ClientMoves(r, "failed")
  /\ HandlerMoves(r, "none")
  /\ UNCHANGED <<store, inputs, loadedKu, admitted>>

\* axios rejects on any status that is not 2xx, and the run ends with it; so it
\* does when a 200 lacks the evaluation.
ReceiveRefusal(r) ==
  /\ client[r] \in Waiting
  /\ handler[r] \in Refusals \cup (IF client[r] = "starting" THEN {"empty"} ELSE {})
  /\ ClientMoves(r, "failed")
  /\ HandlerMoves(r, "none")
  /\ UNCHANGED <<store, inputs, loadedKu, admitted>>

-----------------------------------------------------------------------------
(* The server: handleStartPasswordRegistration.                              *)

\* Mutation: the new request is written first, and the answer decided after.
CheckRegisteredTooLate(r) ==
  /\ handler[r] = "check"
  /\ userRequest' = [userRequest EXCEPT ![account[r]] = r]
  /\ IF userRequest[account[r]] = None
       THEN /\ HandlerMoves(r, "store")
            /\ admitted' = [admitted EXCEPT ![account[r]] = @ \cup {r}]
       ELSE HandlerMoves(r, "forbidden") /\ UNCHANGED admitted
  /\ UNCHANGED <<envelope, client, inputs, loadedKu>>

\* IsRegistered, which asks whether a UserRequest exists.
CheckRegistered(r) ==
  LET a == account[r] IN
  /\ handler[r] = "check"
  /\ \/ /\ userRequest[a] = None
        /\ HandlerMoves(r, "store")
        /\ admitted' = [admitted EXCEPT ![a] = @ \cup {r}]
     \/ /\ userRequest[a] # None
        /\ HandlerMoves(r, "forbidden")
        /\ UNCHANGED admitted
     \/ /\ RedisMayFail(r)
        /\ HandlerMoves(r, "badRequest")
        /\ UNCHANGED admitted
  /\ UNCHANGED <<store, client, inputs, loadedKu>>

\* Mutation: a SET that reports an error is undone with a DEL.
StoreUserRequestUndone(r) ==
  /\ handler[r] = "store"
  /\ \/ /\ userRequest' = [userRequest EXCEPT ![account[r]] = r]
        /\ HandlerMoves(r, "evaluated")
     \/ /\ RedisMayFail(r)
        /\ userRequest' = [userRequest EXCEPT ![account[r]] = None]
        /\ HandlerMoves(r, "badRequest")
  /\ UNCHANGED <<envelope, client, inputs, loadedKu, admitted>>

\* HandleNewUserRequest: draw kU, evaluate under it, SET the request.  A SET
\* that reports an error may or may not have reached Redis.
StoreUserRequest(r) ==
  /\ handler[r] = "store"
  /\ \/ /\ userRequest' = [userRequest EXCEPT ![account[r]] = r]
        /\ HandlerMoves(r, "evaluated")
     \/ /\ RedisMayFail(r)
        /\ \/ userRequest' = [userRequest EXCEPT ![account[r]] = r]
           \/ UNCHANGED userRequest
        /\ HandlerMoves(r, "badRequest")
  /\ UNCHANGED <<envelope, client, inputs, loadedKu, admitted>>

-----------------------------------------------------------------------------
(* The server: handleFinalizePasswordRegistration.                           *)

\* Mutation: the error of the GET is dropped and the empty request used.
LoadUserRequestUnchecked(r) ==
  /\ handler[r] = "load"
  /\ \/ loadedKu' = [loadedKu EXCEPT ![r] = userRequest[account[r]]]
     \/ RedisMayFail(r) /\ UNCHANGED loadedKu
  /\ HandlerMoves(r, "save")
  /\ UNCHANGED <<store, client, inputs, admitted>>

\* StoreUserData reads the UserRequest back; a missing key is an error.
LoadUserRequest(r) ==
  LET found == userRequest[account[r]] IN
  /\ handler[r] = "load"
  /\ \/ /\ found # None
        /\ loadedKu' = [loadedKu EXCEPT ![r] = found]
        /\ HandlerMoves(r, "save")
     \/ /\ found = None \/ RedisMayFail(r)
        /\ HandlerMoves(r, "serverError")
        /\ UNCHANGED loadedKu
  /\ UNCHANGED <<store, client, inputs, admitted>>

\* What goes into the SET: the kU that was read, the rest as the client sent it.
Filed(r) == UserEnvelope(r, password[r], r, loadedKu[r])

\* Mutation: the UserRequest is removed once it has served its purpose.
StoreUserEnvelopeConsuming(r) ==
  /\ handler[r] = "save"
  /\ envelope' = [envelope EXCEPT ![account[r]] = Filed(r)]
  /\ userRequest' = [userRequest EXCEPT ![account[r]] = None]
  /\ HandlerMoves(r, "stored")
  /\ UNCHANGED <<client, inputs, loadedKu, admitted>>

\* ... and files the kU it read with the envelope the client sealed.
StoreUserEnvelope(r) ==
  /\ handler[r] = "save"
  /\ \/ envelope' = [envelope EXCEPT ![account[r]] = Filed(r)] /\ HandlerMoves(r, "stored")
     \/ /\ RedisMayFail(r)
        /\ \/ envelope' = [envelope EXCEPT ![account[r]] = Filed(r)]
           \/ UNCHANGED envelope
        /\ HandlerMoves(r, "serverError")
  /\ UNCHANGED <<userRequest, client, inputs, loadedKu, admitted>>

-----------------------------------------------------------------------------
(* Faults.                                                                   *)

\* The connection breaks or the page is closed: the call ends, the handler
\* does not know and carries on.
LoseConnection(r) ==
  /\ "link" \in Faults
  /\ client[r] \in Waiting \cup {"sealing"}
  /\ ClientMoves(r, "failed")
  /\ UNCHANGED <<store, handler, inputs, loadedKu, admitted>>

\* Mutation: the server stops waiting for a body that is slow to come.
BodyCutShortAnyway(r) ==
  /\ handler[r] \in {"check", "load"}
  /\ HandlerMoves(r, "empty")
  /\ UNCHANGED <<store, client, inputs, loadedKu, admitted>>

\* It broke before all of the body had come: the dump of the request fails, and
\* the handler returns without a status, which is a 200.
BodyCutShort(r) ==
  /\ client[r] = "failed"
  /\ handler[r] \in {"check", "load"}
  /\ HandlerMoves(r, "empty")
  /\ UNCHANGED <<store, client, inputs, loadedKu, admitted>>

\* A SET reaches Redis and its reply is lost: the Redis client, with the default
\* retries, issues it again, and other handlers' commands may go in between.
LoseReply(r) ==
  /\ "redis" \in Faults
  /\ \/ /\ handler[r] = "store"
        /\ userRequest' = [userRequest EXCEPT ![account[r]] = r]
        /\ UNCHANGED envelope
     \/ /\ handler[r] = "save"
        /\ envelope' = [envelope EXCEPT ![account[r]] = Filed(r)]
        /\ UNCHANGED userRequest
  /\ UNCHANGED <<client, handler, inputs, loadedKu, admitted>>

\* The auth server dies with every handler and connection, and starts again;
\* miniredis lives in the same process and dies with it.
Crash ==
  /\ "restart" \in Faults
  /\ handler' = [r \in Runs |-> "none"]
  /\ client' = [r \in Runs |-> IF client[r] \in Waiting THEN "failed" ELSE client[r]]
  /\ IF Persistent
       THEN UNCHANGED store
       ELSE /\ userRequest' = [a \in Accounts |-> None]
            /\ envelope' = [a \in Accounts |-> NoEnvelope]
  /\ UNCHANGED <<inputs, loadedKu, admitted>>

\* With Redis outside, a restart that interrupts no request goes unnoticed.
Restart == (~Persistent \/ \E r \in Runs : handler[r] # "none") /\ Crash

-----------------------------------------------------------------------------
ClientStep(r) ==
  \/ ReceiveEvaluation(r)
  \/ SendEnvelope(r)
  \/ ReceiveStored(r)
  \/ ReceiveRefusal(r)

HandlerStep(r) ==
  \/ CheckRegistered(r)
  \/ StoreUserRequest(r)
  \/ LoadUserRequest(r)
  \/ StoreUserEnvelope(r)

\* Every call has ended and no handler has anything left to do.
Finished ==
  /\ \A r \in Runs : client[r] \in {"registered", "failed"} /\ handler[r] \notin Working
  /\ UNCHANGED vars

Next ==
  \/ \E r \in Runs : BeginRegistration(r) \/ ClientStep(r) \/ HandlerStep(r)
                     \/ LoseConnection(r) \/ BodyCutShort(r) \/ LoseReply(r)
  \/ Restart
  \/ Finished

Spec == Init /\ [][Next]_vars

\* A goroutine that can run is run and a JavaScript promise that is settled is
\* resumed.  Nobody owes a registration, a fault or a restart.
Fairness == \A r \in Runs : WF_vars(ClientStep(r)) /\ WF_vars(HandlerStep(r))

FairSpec == Spec /\ Fairness

-----------------------------------------------------------------------------
(* Properties.                                                               *)

\* An account that has an envelope keeps its reservation: the 403 that guards
\* it, which looks at the UserRequest and never at the envelope, stays in force.
EnrolledStaysReserved ==
  \A a \in Accounts : envelope[a] # NoEnvelope => userRequest[a] # None

\* Nobody is let into an account that is enrolled already: the server never
\* answers a start request with an evaluation once an envelope was there when
\* it checked, although the check and the writes are separate commands. That closes
\* it to clients of the SDK, which start with this request; the second request
\* itself is not checked for who reserved the account.
EnrolledAccountIsClosed ==
  [][\A r \in Runs : handler[r] = "check" /\ handler'[r] = "store"
                       => envelope[account[r]] = NoEnvelope]_vars

\* The only way to an envelope nobody can open is two runs that both passed the
\* check: while an account has let in at most one run, the kU filed with its
\* envelope is the one the envelope was sealed under, whatever faults occur.
UnsharedAccountOpens ==
  \A a \in Accounts, r \in Runs :
    admitted[a] \subseteq {r} /\ envelope[a] # NoEnvelope
      => envelope[a].kU = envelope[a].sealedUnder

\* A user who was told "Password registration successful", on an account no
\* other run was let into, can log in with the password given, for good.
SoleRegistrantCanLogIn ==
  Persistent =>
    \A r \in Runs :
      client[r] = "registered" /\ admitted[account[r]] = {r}
        => Opens(envelope[account[r]], password[r])

\* Every call of run_password_reg comes to an end, under every fault.
RunsFinish ==
  \A r \in Runs : client[r] = "starting" ~> client[r] \in {"registered", "failed"}

\* What the SDK can see of an account follows the account directory's life
\* cycle: free, reserved, enrolled, and never back.
Phase ==
  [a \in Accounts |-> IF envelope[a] # NoEnvelope THEN "enrolled"
                      ELSE IF userRequest[a] # None THEN "reserved"
                      ELSE "free"]

Directory == INSTANCE AccountDirectory WITH phase <- Phase, Forgetful <- ~Persistent

ImplementsDirectory == Directory!Spec

-----------------------------------------------------------------------------
(* The inductive invariant behind the safety properties.                     *)

\* A run that has begun has its inputs; one that has not has no handler.  Nobody
\* waits for the answer to a body that was cut short.
BegunHasInputs ==
  \A r \in Runs :
    /\ client[r] = "idle" => handler[r] = "none"
    /\ client[r] # "idle" => account[r] \in Accounts /\ password[r] \in Passwords
    /\ handler[r] = "empty" => client[r] = "failed"

\* A run is let into its own account only, and goes past the check only if it was.
AdmittedFirst ==
  /\ \A a \in Accounts : \A r \in admitted[a] : client[r] # "idle" /\ account[r] = a
  /\ \A r \in Runs :
       \/ client[r] \in {"sealing", "finalizing", "registered"}
       \/ handler[r] \in {"store", "evaluated", "load", "save", "stored"}
       => r \in admitted[account[r]]

\* Every OPRF key on file, or on its way there, was drawn by an admitted run.
KeysAreAdmitted ==
  /\ \A a \in Accounts : userRequest[a] \in admitted[a] \cup {None}
  /\ \A r \in Runs : handler[r] = "save" => loadedKu[r] \in admitted[account[r]]
  /\ \A a \in Accounts :
       envelope[a] # NoEnvelope =>
         \E r, k \in admitted[a] : envelope[a] = UserEnvelope(r, password[r], r, k)

\* What a later step relies on finding in the store.
StoreKeepsUp ==
  /\ \A r \in Runs : handler[r] = "save" => userRequest[account[r]] # None
  /\ \A r \in Runs : Persistent /\ (handler[r] = "stored" \/ client[r] = "registered")
                       => envelope[account[r]] # NoEnvelope

IndInv ==
  /\ TypeOK
  /\ BegunHasInputs
  /\ AdmittedFirst
  /\ KeysAreAdmitted
  /\ StoreKeepsUp
  /\ EnrolledStaysReserved

-----------------------------------------------------------------------------
(* What the repository says and the code does not do.                        *)

\* README: "Register your username and password ... Now login with your new
\* credentials".  When all is quiet on an account and somebody was told the
\* registration succeeded, the password of somebody who was told so opens it.
\* It fails when two runs pass the check together: the envelope of one is
\* filed with the kU of the other, and nobody can ever log in.
EnrolledAccountOpens ==
  \A a \in Accounts :
    LET here == {r \in Runs : account[r] = a}
        told == {r \in here : client[r] = "registered"}
    IN (\A r \in here : client[r] \in {"registered", "failed"} /\ handler[r] \notin Working)
         => (told # {} => \E r \in told : Opens(envelope[a], password[r]))

\* storage.go: "For this flow to work, you should expire the UserRequest after X
\* seconds".  A reservation nobody completes goes away.  It does not: the SET
\* has no expiry, and the account answers 403 from then on.
AbandonedReservationExpires ==
  \A a \in Accounts :
    Phase[a] = "reserved" ~> Phase[a] # "reserved"
=====================================================================================
