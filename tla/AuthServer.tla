--------------------------------- MODULE AuthServer ---------------------------------
(***********************************************************************************)
(* The auth server process: the registration and the authentication handlers over   *)
(* one store, dying and starting again together.  Authentication alone assumes what *)
(* registration may file; here registration files it.                               *)
(***********************************************************************************)
EXTENDS Authentication

VARIABLES
  userRequest, client, handler, account, password, loadedKu, admitted

Reg == INSTANCE Registration

registration == <<userRequest, client, handler, account, password, loadedKu, admitted>>
serverVars == <<vars, registration>>

ServerInit == Init /\ Reg!Init

-----------------------------------------------------------------------------
\* What the logins see of a step of a registration: an envelope they did not find before.
Filing ==
  LET replaced == {a \in Accounts : envelope'[a] # envelope[a]} IN
  /\ filed' = filed \cup {<<a, envelope'[a]>> : a \in replaced}
  /\ onFile' = [l \in Logins |->
                  IF onFile[l] # {} /\ user[l] \in replaced
                    THEN onFile[l] \cup {envelope'[user[l]].owner}
                    ELSE onFile[l]]
  /\ UNCHANGED <<nonces, session, login, serving, local, expired>>

RegistrationStep(r) ==
  \/ Reg!BeginRegistration(r) \/ Reg!ClientStep(r) \/ Reg!HandlerStep(r)
  \/ Reg!LoseConnection(r) \/ Reg!BodyCutShort(r) \/ Reg!LoseReply(r)

LoginStep(l) ==
  \/ BeginLogin(l) \/ ClientStep(l) \/ HandlerStep(l)
  \/ LoseConnection(l) \/ BodyCutShort(l) \/ LoseReply(l) \/ ResendToken(l)

\* mainErr: the handlers of both die together, and miniredis with them.
ServerRestart ==
  /\ \/ ~Persistent
     \/ \E r \in Runs : handler[r] # "none"
     \/ \E l \in Logins : serving[l] # "none"
  /\ Reg!Crash
  /\ Crash

ServerNext ==
  \/ \E r \in Runs : RegistrationStep(r) /\ Filing
  \/ \E l \in Logins : LoginStep(l) /\ UNCHANGED registration
  \/ \E a \in Accounts : ExpireSession(a) /\ UNCHANGED registration
  \/ ServerRestart
  \/ Reg!Finished /\ Finished

ServerSpec == ServerInit /\ [][ServerNext]_serverVars

\* As each half has it: goroutines that can run are run, settled promises resumed.
ServerFairness ==
  /\ \A r \in Runs : /\ WF_serverVars(Reg!ClientStep(r) /\ Filing)
                     /\ WF_serverVars(Reg!HandlerStep(r) /\ Filing)
  /\ \A l \in Logins : /\ WF_serverVars(ClientStep(l) /\ UNCHANGED registration)
                       /\ WF_serverVars(HandlerStep(l) /\ UNCHANGED registration)

-----------------------------------------------------------------------------
(* Properties.                                                               *)

\* Nothing a login does disturbs a registration.
ImplementsRegistration == Reg!Spec

\* What the registration handlers file, repeat and lose in a crash is what
\* Authentication assumes of them, so all that holds of it holds of the server.
ImplementsAuthentication == Spec

\* Whoever holds a session of an account knows the password of a registration that
\* was let into it, whatever is lost, repeated or restarted in between.
SessionIsRegistrants ==
  \A a \in Accounts :
    session[a] # NoToken =>
      \E l \in Logins, r \in admitted[a] :
        session[a] = Token(l) /\ user[l] = a /\ secret[l] = password[r]

\* While one registration has been let into an account, its password opens the
\* envelope a login is challenged with, and no other password does.
RightPasswordOpens ==
  \A l \in Logins, r \in Runs :
    seen[l] # NoEnvelope /\ admitted[user[l]] = {r}
      => (Opens(seen[l], secret[l]) <=> secret[l] = password[r])

\* Every call of run_password_reg comes to an end, whatever the logins do.
RunsFinish == Reg!RunsFinish

-----------------------------------------------------------------------------
(* The inductive invariant: what is on file was put there by registrations.  *)

\* The server works on the request the client has made, or has given up on.
StagesFit ==
  \A r \in Runs :
    /\ client[r] \in {"idle", "sealing"} => handler[r] = "none"
    /\ client[r] \in {"starting", "finalizing"} => handler[r] # "none"
    /\ client[r] # "idle" => account[r] \in Accounts /\ password[r] \in Passwords
    /\ handler[r] \in {"check", "forbidden", "store", "evaluated"} =>
         client[r] \in {"starting", "failed"}
    /\ handler[r] \in {"load", "save", "stored"} => client[r] \in {"finalizing", "failed"}

\* Nobody waits for a server that has forgotten the request.
LoginsAreServed ==
  \A l \in Logins : login[l] \in {"starting", "finalizing"} => serving[l] # "none"

\* Keys on their way to an envelope were drawn by runs that were let in.
KeysAreAdmitted ==
  /\ \A a \in Accounts : userRequest[a] \in admitted[a] \cup {None}
  /\ \A r \in Runs : handler[r] = "save" => loadedKu[r] \in admitted[account[r]]

\* A run that has filed its envelope files no other: it has only this one left to repeat.
HasFiled(r, f) ==
  /\ f = <<account[r], Reg!Filed(r)>>
  /\ r \in admitted[account[r]] /\ loadedKu[r] \in admitted[account[r]]
  /\ client[r] \in {"finalizing", "registered", "failed"}
  /\ handler[r] \notin {"check", "store", "evaluated", "load"}
  /\ handler[r] = "save" => "redis" \in Faults

FiledByRuns ==
  /\ filed \subseteq Accounts \X Envelopes
  /\ \A f \in filed : \E r \in Runs : HasFiled(r, f)

FilingInd ==
  /\ Reg!TypeOK
  /\ StagesFit
  /\ Reg!AdmittedFirst
  /\ KeysAreAdmitted
  /\ FiledByRuns
  /\ LoginsAreServed
=====================================================================================
