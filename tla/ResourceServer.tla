------------------------------- MODULE ResourceServer -------------------------------
(***********************************************************************************)
(* The example resource server, and the /check-credentials handler it asks about    *)
(* every request.  net/http runs each request in a goroutine of its own, and all of *)
(* them assign and test one variable: the err of main, which the closures capture.  *)
(***********************************************************************************)
CONSTANTS
  Requests,  \* calls of /get-resource and /put-resource; a put is named by its value
  Accounts,
  Tokens,    \* session tokens
  None,
  Faults     \* the faults that may happen: "redis", "restart"

ASSUME ResourceAssumption ==
  /\ None \notin Requests \cup Tokens
  /\ Faults \subseteq {"redis", "restart"}

VARIABLES
  agree,      \* what the auth server has stored under the app token, see Agreements
  session,    \* tokens:*:token per account, in the auth server's Redis
  haircut,    \* *:last_haircut per account, in the resource server's miniredis
  err,        \* the captured variable: TRUE when it is not nil
  request,    \* where the resource server stands with a request
  check,      \* where the auth server stands with the request's /check-credentials
  kind,       \* "get" or "put"
  account,    \* the account a request names
  presented,  \* the session token it carries
  verdict,    \* what checkCredentials returned to the request
  alone       \* history: no other request has been in flight together with this one

vars == <<agree, session, haircut, err, request, check, kind, account, presented,
          verdict, alone>>

-----------------------------------------------------------------------------
InFlightStages == {"checking", "test", "get", "put", "testPut"}
Answers == {"ok", "unauthorized", "serverError", "lost"}

\* The two servers are configured apart: with the same app secret, with two
\* secrets, or the auth server has no secret for the app token at all.
Agreements == {"same", "different", "missing"}

Statuses == {"valid", "invalid", "failed"}   \* 200, 401 and 500
CheckStages == {"none", "secret", "token"} \cup Statuses

TypeOK ==
  /\ agree \in Agreements
  /\ session \in [Accounts -> Tokens \cup {None}]
  /\ haircut \in [Accounts -> Requests \cup {None}]
  /\ err \in BOOLEAN
  /\ request \in [Requests -> {"idle"} \cup InFlightStages \cup Answers]
  /\ check \in [Requests -> CheckStages]
  /\ kind \in [Requests -> {"get", "put"}]
  /\ account \in [Requests -> Accounts \cup {None}]
  /\ presented \in [Requests -> Tokens \cup {None}]
  /\ verdict \in [Requests -> {"none", "passed", "failed"}]
  /\ alone \in [Requests -> BOOLEAN]

Init ==
  /\ agree \in Agreements
  /\ session = [a \in Accounts |-> None]
  /\ haircut = [a \in Accounts |-> None]
  /\ err = FALSE
  /\ request = [q \in Requests |-> "idle"]
  /\ check = [q \in Requests |-> "none"]
  /\ kind = [q \in Requests |-> "get"]
  /\ account = [q \in Requests |-> None]
  /\ presented = [q \in Requests |-> None]
  /\ verdict = [q \in Requests |-> "none"]
  /\ alone = [q \in Requests |-> TRUE]

inputs == <<kind, account, presented>>

InFlight == {q \in Requests : request[q] \in InFlightStages}

RequestMoves(q, stage) == request' = [request EXCEPT ![q] = stage]
CheckMoves(q, stage) == check' = [check EXCEPT ![q] = stage]

-----------------------------------------------------------------------------
(* The auth server: sessions come and go, handleCheckCredentials looks.      *)

SaveSession(a, t) ==
  /\ session' = [session EXCEPT ![a] = t]
  /\ UNCHANGED <<agree, haircut, err, request, check, inputs, verdict, alone>>

ExpireSession(a) ==
  /\ session[a] # None
  /\ session' = [session EXCEPT ![a] = None]
  /\ UNCHANGED <<agree, haircut, err, request, check, inputs, verdict, alone>>

\* HasAppSecret; the auth server stores the secrets it knows when it starts.  A
\* wrong secret is a 401, but a missing one is a Redis error.
CheckAppSecret(q) ==
  /\ check[q] = "secret"
  /\ \/ agree = "same" /\ CheckMoves(q, "token")
     \/ agree = "different" /\ CheckMoves(q, "invalid")
     \/ (agree = "missing" \/ "redis" \in Faults) /\ CheckMoves(q, "failed")
  /\ UNCHANGED <<agree, session, haircut, err, request, inputs, verdict, alone>>

\* HasSessionToken: a wrong token is a 401, but a missing one is a Redis error.
CheckSessionToken(q) ==
  LET saved == session[account[q]] IN
  /\ check[q] = "token"
  /\ \/ saved = presented[q] /\ CheckMoves(q, "valid")
     \/ saved \notin {presented[q], None} /\ CheckMoves(q, "invalid")
     \/ (saved = None \/ "redis" \in Faults) /\ CheckMoves(q, "failed")
  /\ UNCHANGED <<agree, session, haircut, err, request, inputs, verdict, alone>>

-----------------------------------------------------------------------------
(* The resource server: /get-resource and /put-resource.                     *)

\* A request arrives with a token its client was once given, and checkCredentials
\* asks the auth server about it.
Receive(q) ==
  /\ request[q] = "idle"
  /\ \E k \in {"get", "put"}, a \in Accounts, t \in Tokens :
       /\ kind' = [kind EXCEPT ![q] = k]
       /\ account' = [account EXCEPT ![q] = a]
       /\ presented' = [presented EXCEPT ![q] = t]
  /\ RequestMoves(q, "checking")
  /\ CheckMoves(q, "secret")
  /\ alone' = [r \in Requests |->
                 IF r = q THEN InFlight = {} ELSE alone[r] /\ r \notin InFlight]
  /\ UNCHANGED <<agree, session, haircut, err, verdict>>

\* Mutation: the status code is not looked at.
AssignErrUnchecked(q) ==
  /\ request[q] = "checking"
  /\ check[q] \in Statuses
  /\ verdict' = [verdict EXCEPT ![q] = IF check[q] = "valid" THEN "passed" ELSE "failed"]
  /\ err' = FALSE
  /\ RequestMoves(q, "test")
  /\ UNCHANGED <<agree, session, haircut, check, inputs, alone>>

\* Mutation: err is assigned when the check fails and otherwise left as it is.
AssignErrSticky(q) ==
  /\ request[q] = "checking"
  /\ check[q] \in Statuses
  /\ verdict' = [verdict EXCEPT ![q] = IF check[q] = "valid" THEN "passed" ELSE "failed"]
  /\ err' = (err \/ check[q] # "valid")
  /\ RequestMoves(q, "test")
  /\ UNCHANGED <<agree, session, haircut, check, inputs, alone>>

\* The answer is in, and `_, err = checkCredentials(...)' assigns.
AssignErr(q) ==
  /\ request[q] = "checking"
  /\ check[q] \in Statuses
  /\ verdict' = [verdict EXCEPT ![q] = IF check[q] = "valid" THEN "passed" ELSE "failed"]
  /\ err' = (check[q] # "valid")
  /\ RequestMoves(q, "test")
  /\ UNCHANGED <<agree, session, haircut, check, inputs, alone>>

\* Mutation: no deadline, so only an answer of the auth server ends the wait.
GiveUpNever(q) ==
  /\ request[q] = "checking"
  /\ check[q] = "failed"
  /\ verdict' = [verdict EXCEPT ![q] = "failed"]
  /\ err' = TRUE
  /\ RequestMoves(q, "test")
  /\ UNCHANGED <<agree, session, haircut, check, inputs, alone>>

\* Mutation: the deadline ends the wait and leaves err nil.
GiveUpSilently(q) ==
  /\ request[q] = "checking"
  /\ verdict' = [verdict EXCEPT ![q] = "failed"]
  /\ err' = FALSE
  /\ RequestMoves(q, "test")
  /\ UNCHANGED <<agree, session, haircut, check, inputs, alone>>

\* Five seconds have passed, or the connection to the auth server broke.
GiveUp(q) ==
  /\ request[q] = "checking"
  /\ verdict' = [verdict EXCEPT ![q] = "failed"]
  /\ err' = TRUE
  /\ RequestMoves(q, "test")
  /\ UNCHANGED <<agree, session, haircut, check, inputs, alone>>

\* `if err != nil' reads what this goroutine wrote, from a register, or what
\* the variable holds by now.
TestErr(q) ==
  /\ request[q] = "test"
  /\ \E failed \in {verdict[q] = "failed", err} :
       RequestMoves(q, IF failed THEN "unauthorized" ELSE kind[q])
  /\ UNCHANGED <<agree, session, haircut, err, check, inputs, verdict, alone>>

\* `val, err :=' declares an err of its own; a value never put is an error.
GetValue(q) ==
  /\ request[q] = "get"
  /\ RequestMoves(q, IF haircut[account[q]] = None THEN "serverError" ELSE "ok")
  /\ UNCHANGED <<agree, session, haircut, err, check, inputs, verdict, alone>>

\* `err = m.Set(...)' assigns the captured err again; this Set does not fail.
PutValue(q) ==
  /\ request[q] = "put"
  /\ haircut' = [haircut EXCEPT ![account[q]] = q]
  /\ err' = FALSE
  /\ RequestMoves(q, "testPut")
  /\ UNCHANGED <<agree, session, check, inputs, verdict, alone>>

TestPutErr(q) ==
  /\ request[q] = "testPut"
  /\ \E failed \in {FALSE, err} : RequestMoves(q, IF failed THEN "serverError" ELSE "ok")
  /\ UNCHANGED <<agree, session, haircut, err, check, inputs, verdict, alone>>

\* The resource server dies, and its miniredis with it.
Restart ==
  /\ "restart" \in Faults
  /\ InFlight # {} \/ \E a \in Accounts : haircut[a] # None
  /\ haircut' = [a \in Accounts |-> None]
  /\ err' = FALSE
  /\ request' = [q \in Requests |-> IF q \in InFlight THEN "lost" ELSE request[q]]
  /\ UNCHANGED <<agree, session, check, inputs, verdict, alone>>

-----------------------------------------------------------------------------
ServerStep(q) ==
  \/ AssignErr(q)
  \/ GiveUp(q)
  \/ TestErr(q)
  \/ GetValue(q)
  \/ PutValue(q)
  \/ TestPutErr(q)

Next ==
  \/ \E a \in Accounts, t \in Tokens : SaveSession(a, t)
  \/ \E a \in Accounts : ExpireSession(a)
  \/ \E q \in Requests : Receive(q) \/ CheckAppSecret(q) \/ CheckSessionToken(q) \/ ServerStep(q)
  \/ Restart

Spec == Init /\ [][Next]_vars

\* The goroutines of the resource server run and its timers fire; the auth
\* server, another machine, owes nothing.
FairSpec == Spec /\ \A q \in Requests : WF_vars(ServerStep(q))

-----------------------------------------------------------------------------
(* Properties.                                                               *)

\* Got through: answered with the resource, or about to touch it, or has.
Served(q) ==
  \/ request[q] \in {"get", "put", "testPut", "ok"}
  \/ \E a \in Accounts : haircut[a] = q

\* A request that was never in flight with another is served only if its own
\* check passed: an err left behind by an earlier request is never taken for it.
ServedAloneWasChecked ==
  \A q \in Requests : Served(q) /\ alone[q] => verdict[q] = "passed"

\* A request that was never in flight with another is not turned away when its own
\* check passed, and its put is acknowledged: no error outlives its request.
PassedAloneIsNotRefused ==
  \A q \in Requests : verdict[q] = "passed" /\ alone[q] =>
    request[q] # "unauthorized" /\ (kind[q] = "put" => request[q] # "serverError")

\* Nothing is served, whatever the goroutines do to err, before the auth server
\* has confirmed the token of some request.
ServedAfterSomeCheck ==
  (\E q \in Requests : Served(q)) => \E q \in Requests : verdict[q] = "passed"

\* Every request is answered, although the auth server may never answer.
RequestsAnswered ==
  \A q \in Requests : request[q] = "checking" ~> request[q] \in Answers

-----------------------------------------------------------------------------
(* The inductive invariant behind the safety properties.                     *)

\* While a request that has been alone is about to test err, err is its own.
ErrIsOwn ==
  \A q \in Requests : alone[q] =>
    /\ request[q] = "test" => err = (verdict[q] = "failed")
    /\ request[q] = "testPut" => ~err

SomePassed == \E q \in Requests : verdict[q] = "passed"

\* Where a failed request may find err to be nil, somebody who passed cleared it.
ErrIsClearedByAPass ==
  \A q \in Requests :
    request[q] = "test" /\ verdict[q] = "failed" /\ ~err => SomePassed

\* A request has one verdict, from the moment its check ends, and stays a get or a put.
VerdictStands ==
  \A q \in Requests :
    /\ request[q] \in {"idle", "checking"} => verdict[q] = "none"
    /\ request[q] = "test" => verdict[q] # "none"
    /\ request[q] = "get" => kind[q] = "get"

AloneMeansAlone ==
  /\ \A q, r \in InFlight : q # r => ~alone[q]
  /\ \A q \in Requests : request[q] = "idle" => alone[q]

ResourceInd ==
  /\ TypeOK
  /\ ErrIsOwn
  /\ ErrIsClearedByAPass
  /\ VerdictStands
  /\ AloneMeansAlone
  /\ ServedAloneWasChecked
  /\ PassedAloneIsNotRefused
  /\ ServedAfterSomeCheck

-----------------------------------------------------------------------------
(* What the repository says and the code does not do.                        *)

\* README: "plissken-example-resource-server would verify your instance by
\* talking with plissken-auth-server".  A request is answered with the resource
\* only if that conversation, its own, went well.  With two requests in flight
\* one can pass on the other's err.
ServedWasChecked ==
  \A q \in Requests : request[q] = "ok" => verdict[q] = "passed"
=====================================================================================
