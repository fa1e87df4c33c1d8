---------------------------------- MODULE Contract ----------------------------------
(***********************************************************************************)
(* What AuthServer and the SDK do for a client, in the terms of Service: each run   *)
(* and each login is one of its calls.  Nothing is added to AuthServer but history, *)
(* which records at which command a call has taken effect.                          *)
(***********************************************************************************)
EXTENDS AuthServer

CONSTANT Empty   \* the empty text, which the bindings let nobody send

ASSUME ContractAssumption ==
  /\ Runs \cap Logins = {}
  /\ (Runs \cup Logins) \cap {"register", "login", "put", "get", "free", "reserved", "spoilt"} = {}
  /\ Empty \notin Accounts \cup Passwords
  /\ None \notin Accounts \cup Passwords \cup {Empty, "register", "login", "put", "get"}

VARIABLES
  stage,     \* history: how far each call has taken effect
  faulted,   \* history: a fault has shown
  broken     \* history: the calls whose connection a restart broke, until they settle

contractVars == <<serverVars, stage, faulted, broken>>

-----------------------------------------------------------------------------
(* The state of the server as Service has it.                                *)

Names == Accounts \cup {Empty}
AllCalls == Runs \cup Logins \cup {"register", "login", "put", "get"}

AccountNow ==
  [a \in Names |->
     IF a = Empty THEN "free"
     ELSE IF envelope[a] = NoEnvelope
       THEN IF userRequest[a] = None THEN "free" ELSE "reserved"
       ELSE IF envelope[a].kU = envelope[a].sealedUnder THEN envelope[a].owner ELSE "spoilt"]

AdmittedNow == [a \in Names |-> IF a = Empty THEN {} ELSE admitted[a]]
SessionNow == [a \in Names |-> IF a = Empty THEN None ELSE session[a].nonce]

Asked(op, a, p) == [op |-> op, username |-> a, password |-> p, token |-> None]
ArgsNow ==
  [c \in AllCalls |->
     IF c \in Runs /\ client[c] # "idle" THEN Asked("register", account[c], password[c])
     ELSE IF c \in Logins /\ login[c] # "idle" THEN Asked("login", user[c], secret[c])
     ELSE Asked(None, None, None)]

Awaiting ==
  {r \in Runs : client[r] \in {"starting", "sealing", "finalizing"}}
    \cup {l \in Logins : login[l] \in {"starting", "deriving", "finalizing"}}
    \cup broken

\* Any fault but an expiry may break a call off.
FaultsNow ==
  (IF Faults = {} THEN {} ELSE {"link"})
    \cup (IF Faults \cap {"redis", "resend"} = {} THEN {} ELSE {"repeat"})
    \cup (IF "restart" \in Faults /\ ~Persistent THEN {"restart"} ELSE {})
    \cup (IF SessionsExpire THEN {"expiry"} ELSE {})

Svc == INSTANCE Service WITH
  FormCalls <- Runs \cup Logins, Usernames <- Names, Passwords <- Passwords \cup {Empty},
  Faults <- FaultsNow,
  account <- AccountNow, admitted <- AdmittedNow, session <- SessionNow,
  haircut <- [a \in Names |-> None],
  args <- ArgsNow, got <- [c \in AllCalls |-> None],
  awaiting <- Awaiting, raced <- [c \in AllCalls |-> FALSE]

-----------------------------------------------------------------------------
ContractInit ==
  /\ ServerInit
  /\ stage = [c \in AllCalls |-> "idle"]
  /\ faulted = FALSE
  /\ broken = {}

Keeps == UNCHANGED stage
TakesEffect(c, s) == stage' = [stage EXCEPT ![c] = s]

\* The promise of a call settles, with the outcome that was decided or over a fault.
Ends(c, outcome) == Keeps /\ faulted' = (faulted \/ stage[c] # outcome)

-----------------------------------------------------------------------------
(* Registrations.                                                            *)

RegistrationSettles(r) ==
  \/ Reg!ReceiveStored(r) /\ Ends(r, "ok")
  \/ Reg!ReceiveRefusal(r) /\ Ends(r, IF client[r] = "starting" THEN "thrown" ELSE "rejected")
  \/ Reg!LoseConnection(r) /\ Ends(r, "rejected")

\* The first SET of the request to be carried out counts, of the envelope the last.
RegistrationWrites(r) ==
  \/ /\ Reg!StoreUserRequest(r) \/ (handler[r] = "store" /\ Reg!LoseReply(r))
     /\ IF stage[r] = "reserve" /\ userRequest'[account[r]] = r
          THEN TakesEffect(r, IF r \in Awaiting THEN "enroll" ELSE "rejected")
          ELSE Keeps
     /\ UNCHANGED faulted
  \/ /\ Reg!StoreUserEnvelope(r)
     /\ IF envelope'[account[r]] = Reg!Filed(r) THEN TakesEffect(r, "ok") ELSE Keeps
     /\ UNCHANGED faulted
  \/ /\ handler[r] = "save" /\ Reg!LoseReply(r)
     /\ Keeps /\ faulted' = TRUE

RegistrationMoves(r) ==
  \/ /\ Reg!BeginRegistration(r)
     /\ TakesEffect(r, "check") /\ UNCHANGED faulted
  \/ /\ Reg!CheckRegistered(r)
     /\ \/ handler'[r] = "store" /\ TakesEffect(r, "reserve")
        \/ handler'[r] = "forbidden" /\ TakesEffect(r, "thrown")
        \/ handler'[r] = "badRequest" /\ Keeps
     /\ UNCHANGED faulted
  \/ /\ Reg!ReceiveEvaluation(r) \/ Reg!SendEnvelope(r) \/ Reg!LoadUserRequest(r)
        \/ Reg!BodyCutShort(r)
     /\ Keeps /\ UNCHANGED faulted

-----------------------------------------------------------------------------
(* Logins.                                                                   *)

LoginSettles(l) ==
  \/ ReceiveChallenge(l) /\ login'[l] = "failed" /\ Ends(l, "thrown")
  \/ ReceiveAccepted(l) /\ Ends(l, "ok")
  \/ ReceiveRefusal(l) /\ Ends(l, "rejected")
  \/ LoseConnection(l) /\ Ends(l, "rejected")

\* A token that is stored once more has been stored before.
LoginWrites(l) ==
  \/ /\ StoreSessionToken(l)
     /\ IF session'[user[l]] # Token(l) THEN Keeps /\ UNCHANGED faulted
        ELSE IF stage[l] = "save" THEN TakesEffect(l, "ok") /\ UNCHANGED faulted
        ELSE Keeps /\ faulted' = TRUE
  \/ /\ serving[l] = "saveSession" /\ LoseReply(l)
     /\ Keeps /\ faulted' = TRUE

\* What the answer to the first request will be is settled when the envelope is
\* loaded; a refusal of the second is one for good where nothing can go wrong.
LoginGoesOn(l) ==
  \/ BeginLogin(l) /\ TakesEffect(l, "open")
  \/ /\ LoadUserEnvelope(l)
     /\ IF l \notin Awaiting \/ (serving'[l] = "badRequest" /\ envelope[user[l]] # NoEnvelope)
          THEN Keeps
          ELSE TakesEffect(l, IF serving'[l] = "badRequest" THEN "rejected"
                              ELSE IF Opens(envelope[user[l]], secret[l]) THEN "save"
                              ELSE "thrown")
  \/ /\ FindNonce(l) \/ VerifyToken(l)
     /\ IF Faults = {} /\ serving'[l] = "badRequest" THEN TakesEffect(l, "rejected") ELSE Keeps
  \/ /\ \/ PushNonce(l) \/ TrimNonces(l) \/ SendToken(l) \/ ResendToken(l) \/ BodyCutShort(l)
        \/ serving[l] # "saveSession" /\ LoseReply(l)
        \/ ReceiveChallenge(l) /\ login'[l] # "failed"
     /\ Keeps

LoggingIn(l) == LoginSettles(l) \/ LoginWrites(l) \/ (LoginGoesOn(l) /\ UNCHANGED faulted)
Registering(r) == RegistrationSettles(r) \/ RegistrationWrites(r) \/ RegistrationMoves(r)

-----------------------------------------------------------------------------
(* The server as a whole.                                                    *)

\* The promises of the calls it breaks off are rejected one after the other.
ContractRestart ==
  /\ ServerRestart
  /\ broken' = broken \cup {r \in Runs : client[r] \in Reg!Waiting}
                      \cup {l \in Logins : login[l] \in Waiting}
  /\ Keeps
  /\ faulted' = (faulted \/ ~Persistent)

BrokenSettles(c) ==
  /\ c \in broken
  /\ broken' = broken \ {c}
  /\ Ends(c, "rejected")
  /\ UNCHANGED serverVars

ContractNext ==
  \/ \E r \in Runs : Registering(r) /\ Filing /\ UNCHANGED broken
  \/ \E l \in Logins : LoggingIn(l) /\ UNCHANGED <<registration, broken>>
  \/ /\ \E a \in Accounts : ExpireSession(a)
     /\ Keeps /\ faulted' = TRUE
     /\ UNCHANGED <<registration, broken>>
  \/ ContractRestart
  \/ \E c \in AllCalls : BrokenSettles(c)
  \/ Reg!Finished /\ Finished /\ UNCHANGED <<stage, faulted, broken>>

ContractSpec == ContractInit /\ [][ContractNext]_contractVars

FairContractSpec == ContractSpec /\ ServerFairness

-----------------------------------------------------------------------------
(* Properties.                                                               *)

\* Whatever the handlers and the SDK do, command by command and under every fault,
\* is what Service promises the clients: a call takes effect at most at the points
\* Service has, and settles as it does.
ImplementsService == Svc!ServiceSpec

-----------------------------------------------------------------------------
(* The inductive invariant behind it: where the servers and the SDK stand with a *)
(* call tells how far it has taken effect.                                       *)

ContractTypeOK ==
  /\ stage \in [AllCalls -> {"idle"} \cup Svc!AtServer \cup Svc!Outcomes]
  /\ faulted \in BOOLEAN
  /\ broken \subseteq {r \in Runs : client[r] = "failed"} \cup {l \in Logins : login[l] = "failed"}
  /\ broken # {} => Faults # {}

\* A run that is past its first SET and still at it is only repeating it.
RunAgrees(r) ==
  /\ client[r] = "idle" => stage[r] = "idle"
  /\ handler[r] = "check" => stage[r] = "check"
  /\ handler[r] = "store" =>
       \/ stage[r] = "reserve"
       \/ stage[r] = "enroll" /\ userRequest[account[r]] # None
       \/ stage[r] = "rejected" /\ userRequest[account[r]] # None /\ client[r] # "starting"
  /\ \/ handler[r] = "evaluated" /\ client[r] = "starting"
     \/ client[r] = "sealing"
     \/ handler[r] \in {"load", "save"}
     => stage[r] = "enroll"
  /\ handler[r] = "forbidden" => stage[r] = "thrown"
  /\ handler[r] = "stored" => stage[r] = "ok"
  /\ handler[r] = "empty" => client[r] = "failed"

\* The reservation outlasts what relies on it.
ReservationsStand ==
  /\ \A a \in Accounts : envelope[a] # NoEnvelope => userRequest[a] # None
  /\ \A r \in Runs :
       handler[r] = "save" \/ (Faults = {} /\ stage[r] = "enroll") => userRequest[account[r]] # None

LoginAgrees(l) ==
  /\ login[l] = "idle" => stage[l] = "idle"
  /\ serving[l] = "loadEnvelope" => stage[l] = "open"
  /\ login[l] = "starting" /\ serving[l] \in {"pushNonce", "trimNonces", "challenged"}
       => stage[l] = IF Opens(seen[l], secret[l]) THEN "save" ELSE "thrown"
  /\ login[l] = "deriving" => stage[l] = "save"
  /\ serving[l] \in {"findNonce", "verify", "saveSession"}
       => stage[l] = "save" \/ (stage[l] = "ok" /\ "resend" \in Faults)
  /\ serving[l] = "accepted" => stage[l] = "ok"
  /\ onFile[l] # {} => stage[l] \in {"save", "ok"} \/ Faults = {}

\* Nothing is refused but for what Service has a call refused for.
RunGoesRight(r) ==
  /\ handler[r] \notin {"badRequest", "serverError"}
  /\ client[r] = "failed" => handler[r] = "none"

LoginGoesRight(l) ==
  /\ serving[l] \in Refusals => stage[l] = "rejected"
  /\ login[l] = "failed" => serving[l] = "none"
  /\ seen[l] # NoEnvelope => envelope[user[l]] # NoEnvelope

NothingGoesWrong ==
  Faults = {} => (\A r \in Runs : RunGoesRight(r)) /\ (\A l \in Logins : LoginGoesRight(l))

ContractInd ==
  /\ ContractTypeOK
  /\ \A r \in Runs : RunAgrees(r)
  /\ \A l \in Logins : LoginAgrees(l)
  /\ ReservationsStand
  /\ NothingGoesWrong
=====================================================================================
