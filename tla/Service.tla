----------------------------------- MODULE Service -----------------------------------
(***********************************************************************************)
(* What a client application sees of the SDK and the two servers: calls that take   *)
(* effect while they are awaited, one after the other or interleaved, and settle.   *)
(* Registration and Authentication say how the SDK calls do this and ResourceServer *)
(* how the resource calls do; here each has only the steps that a second call can   *)
(* get between, and the outcomes that the theorems about those modules leave open.  *)
(* That the auth server has no others is the subject of Contract.                   *)
(***********************************************************************************)
EXTENDS Naturals, FiniteSets

CONSTANTS
  FormCalls,   \* calls made by the web login form
  Usernames,
  Passwords,
  Empty,       \* the empty text, which may be typed for either
  None,
  MaxNonces,   \* authNoncesMaxCount, 20 in the code
  Faults       \* the faults that may happen: "link", "repeat", "restart", "expiry"

\* The Node.js client makes one call of each kind; they go by the name of the kind.
Ops == {"register", "login", "put", "get"}

Calls == FormCalls \cup Ops

ASSUME ServiceAssumption ==
  /\ FormCalls \cap Ops = {}
  /\ Empty \in Usernames \cap Passwords
  /\ None \notin Calls \cup Usernames \cup Passwords
  /\ {"free", "reserved", "spoilt"} \cap Calls = {}
  /\ MaxNonces \in Nat
  /\ Faults \subseteq {"link", "repeat", "restart", "expiry"}

VARIABLES
  account,   \* per username: free, reserved, spoilt, or the call whose password opens it
  admitted,  \* per username: the registrations that passed the 403
  session,   \* per username: the login call whose token is on file
  haircut,   \* per username: the put call whose time stamp is on file
  stage,     \* where the servers stand with each call, or what came of it
  args,      \* what each call was made with
  got,       \* what each get was answered with
  awaiting,  \* the calls whose promise has not settled
  raced,     \* the resource calls that were at the resource server with another
  faulted    \* history: one of the faults has happened

service == <<account, admitted, session, haircut, stage, args, got, awaiting, raced, faulted>>

-----------------------------------------------------------------------------
Phases == {"free", "reserved", "spoilt"}
Outcomes == {"ok", "rejected", "thrown"}   \* a value, an axios error, any other error
AtServer == {"check", "reserve", "enroll", "open", "save", "token", "touch"}
FirstStage == [register |-> "check", login |-> "open", put |-> "token", get |-> "token"]

Args == [op : Ops, username : Usernames, password : Passwords \cup {None}, token : Calls \cup {None}]
NoArgs == [op |-> None, username |-> None, password |-> None, token |-> None]

Register(u, p) == [op |-> "register", username |-> u, password |-> p, token |-> None]
Login(u, p) == [op |-> "login", username |-> u, password |-> p, token |-> None]
Put(u, t) == [op |-> "put", username |-> u, password |-> None, token |-> t]
Get(u, t) == [op |-> "get", username |-> u, password |-> None, token |-> t]

ServiceTypeOK ==
  /\ account \in [Usernames -> Phases \cup Calls]
  /\ admitted \in [Usernames -> SUBSET Calls]
  /\ session \in [Usernames -> Calls \cup {None}]
  /\ haircut \in [Usernames -> Calls \cup {None}]
  /\ stage \in [Calls -> {"idle"} \cup AtServer \cup Outcomes]
  /\ args \in [Calls -> Args \cup {NoArgs}]
  /\ got \in [Calls -> Calls \cup {None}]
  /\ awaiting \subseteq Calls
  /\ raced \in [Calls -> BOOLEAN]
  /\ faulted \in BOOLEAN

ServiceInit ==
  /\ account = [u \in Usernames |-> "free"]
  /\ admitted = [u \in Usernames |-> {}]
  /\ session = [u \in Usernames |-> None]
  /\ haircut = [u \in Usernames |-> None]
  /\ stage = [c \in Calls |-> "idle"]
  /\ args = [c \in Calls |-> NoArgs]
  /\ got = [c \in Calls |-> None]
  /\ awaiting = {}
  /\ raced = [c \in Calls |-> FALSE]
  /\ faulted = FALSE

user(c) == args[c].username
store == <<account, admitted, session, haircut>>
AtResource == {c \in Calls : stage[c] \in {"token", "touch"}}

Moves(c, s) == stage' = [stage EXCEPT ![c] = s]

\* The bindings panic before any request is made.
Panics(a) == a.op \in {"register", "login"} /\ (a.username = Empty \/ a.password = Empty)

\* A client makes a call.  Resource calls that meet at the resource server share
\* its err.
Send(c, a) ==
  /\ stage[c] = "idle"
  /\ Moves(c, IF Panics(a) THEN "thrown" ELSE FirstStage[a.op])
  /\ args' = [args EXCEPT ![c] = a]
  /\ awaiting' = awaiting \cup {c}
  /\ raced' = IF a.op \in {"put", "get"} /\ AtResource # {}
                THEN [d \in Calls |-> raced[d] \/ d \in AtResource \cup {c}]
                ELSE raced
  /\ UNCHANGED <<store, got, faulted>>

\* The promise of a call settles as the servers decided, or is rejected because a
\* command failed or the connection was lost, in which case the servers carry on.
\* The SDK words any answer but a 200 to the first request of a registration as an
\* error of its own.
Settles(c, outcome) ==
  /\ c \in awaiting
  /\ \/ outcome = stage[c] /\ UNCHANGED faulted
     \/ /\ outcome \in {"rejected"} \cup (IF args[c].op = "register" THEN {"thrown"} ELSE {})
        /\ ~Panics(args[c])
        /\ "link" \in Faults
        /\ faulted' = TRUE
  /\ awaiting' = awaiting \ {c}
  /\ UNCHANGED <<store, stage, args, got, raced>>

-----------------------------------------------------------------------------
(* Registration: the check, the reservation, the envelope.                   *)

CheckRegistered(c) ==
  /\ stage[c] = "check"
  /\ IF account[user(c)] = "free"
       THEN /\ admitted' = [admitted EXCEPT ![user(c)] = @ \cup {c}]
            /\ Moves(c, "reserve")
       ELSE Moves(c, "thrown") /\ UNCHANGED admitted
  /\ UNCHANGED <<account, session, haircut, args, got, awaiting, raced, faulted>>

\* ... after which the SDK posts the envelope, if it is still there.
Reserve(c) ==
  /\ stage[c] = "reserve"
  /\ account' = [account EXCEPT ![user(c)] = IF @ = "free" THEN "reserved" ELSE @]
  /\ Moves(c, IF c \in awaiting THEN "enroll" ELSE "rejected")
  /\ UNCHANGED <<admitted, session, haircut, args, got, awaiting, raced, faulted>>

\* Where two calls were let in, the envelope of one may be filed under the OPRF key
\* of the other.
Files(c) ==
  \E owner \in {c} \cup (IF admitted[user(c)] = {c} THEN {} ELSE {"spoilt"}) :
    account' = [account EXCEPT ![user(c)] = owner]

\* The second request.
Enroll(c) ==
  /\ stage[c] = "enroll"
  /\ Files(c)
  /\ Moves(c, "ok")
  /\ UNCHANGED <<admitted, session, haircut, args, got, awaiting, raced, faulted>>

-----------------------------------------------------------------------------
(* Authentication: the envelope, the session.                                *)

Opens(c) ==
  LET owner == account[user(c)] IN owner \notin Phases /\ args[owner].password = args[c].password

\* The first request and what the SDK does with the answer.  No envelope is a
\* 400; one that does not open makes the bindings panic.
OpenEnvelope(c) ==
  /\ stage[c] = "open" /\ c \in awaiting
  /\ Moves(c, IF account[user(c)] \in {"free", "reserved"} THEN "rejected"
              ELSE IF Opens(c) THEN "save" ELSE "thrown")
  /\ UNCHANGED <<store, args, got, awaiting, raced, faulted>>

Contested(u) == \E c, d \in admitted[u] : c # d

\* The nonce of a login is forgotten when more than MaxNonces others, whatever
\* their passwords, have been started for its user.
Rivals(c) == {d \in Calls \ {c} : args[d].op = "login" /\ user(d) = user(c) /\ ~Panics(args[d])}
Crowded(c) == \E ds \in SUBSET Rivals(c) : IsFiniteSet(ds) /\ Cardinality(ds) > MaxNonces

\* The token replaces any other of the user.  An envelope replaced in the meantime,
\* which takes two registrations that were let in, or a nonce forgotten is a 400.
SaveSession(c) ==
  /\ stage[c] = "save"
  /\ \/ /\ session' = [session EXCEPT ![user(c)] = c]
        /\ Moves(c, "ok")
     \/ /\ Contested(user(c)) \/ Crowded(c)
        /\ UNCHANGED session
        /\ Moves(c, "rejected")
  /\ UNCHANGED <<account, admitted, haircut, args, got, awaiting, raced, faulted>>

-----------------------------------------------------------------------------
(* The resource server: the credentials, the resource.                       *)

\* Mutation: any session will do.
CheckCredentialsOfAnybody(c) ==
  /\ stage[c] = "token"
  /\ Moves(c, IF \E u \in Usernames : session[u] = args[c].token /\ args[c].token # None
                THEN "touch" ELSE "rejected")
  /\ UNCHANGED <<store, args, got, awaiting, raced, faulted>>

\* The token must be the one on file for the username, unless the err of another
\* call is tested in the place of this one's.
CheckCredentials(c) ==
  LET valid == args[c].token # None /\ session[user(c)] = args[c].token IN
  /\ stage[c] = "token"
  /\ \/ (valid \/ raced[c]) /\ Moves(c, "touch")
     \/ (~valid \/ raced[c]) /\ Moves(c, "rejected")
  /\ UNCHANGED <<store, args, got, awaiting, raced, faulted>>

\* Mutation: the key leaves the username out.
PutResourceOfAll(c) ==
  /\ stage[c] = "touch" /\ args[c].op = "put"
  /\ haircut' = [u \in Usernames |-> c]
  /\ \/ Moves(c, "ok")
     \/ raced[c] /\ Moves(c, "rejected")
  /\ UNCHANGED <<account, admitted, session, args, got, awaiting, raced, faulted>>

\* Mutation: a put does not replace what is there.
PutResourceOnce(c) ==
  /\ stage[c] = "touch" /\ args[c].op = "put"
  /\ haircut' = [haircut EXCEPT ![user(c)] = IF @ = None THEN c ELSE @]
  /\ \/ Moves(c, "ok")
     \/ raced[c] /\ Moves(c, "rejected")
  /\ UNCHANGED <<account, admitted, session, args, got, awaiting, raced, faulted>>

\* The put may be stored and answered 500: the err it tests is shared as well.
PutResource(c) ==
  /\ stage[c] = "touch" /\ args[c].op = "put"
  /\ haircut' = [haircut EXCEPT ![user(c)] = c]
  /\ \/ Moves(c, "ok")
     \/ raced[c] /\ Moves(c, "rejected")
  /\ UNCHANGED <<account, admitted, session, args, got, awaiting, raced, faulted>>

GetResource(c) ==
  /\ stage[c] = "touch" /\ args[c].op = "get"
  /\ got' = [got EXCEPT ![c] = haircut[user(c)]]
  /\ Moves(c, IF haircut[user(c)] = None THEN "rejected" ELSE "ok")
  /\ UNCHANGED <<store, args, awaiting, raced, faulted>>

-----------------------------------------------------------------------------
(* Faults other than a lost connection, and all of it.                       *)

\* The last SET of either exchange is carried out more than once, because its reply
\* was lost or the token reached the server twice.
RepeatCommand(c) ==
  /\ "repeat" \in Faults
  /\ \/ /\ stage[c] = "enroll"
        /\ Files(c)
        /\ UNCHANGED session
     \/ /\ stage[c] \in {"save", "ok"} /\ args[c].op = "login"
        /\ session' = [session EXCEPT ![user(c)] = c]
        /\ UNCHANGED account
  /\ faulted' = TRUE
  /\ UNCHANGED <<admitted, haircut, stage, args, got, awaiting, raced>>

\* The auth server starts again without an external Redis.
ForgetAll ==
  /\ "restart" \in Faults
  /\ account' = [u \in Usernames |-> "free"]
  /\ session' = [u \in Usernames |-> None]
  /\ faulted' = TRUE
  /\ UNCHANGED <<admitted, haircut, stage, args, got, awaiting, raced>>

\* The resource server starts again: its miniredis is gone, and so are the calls it was at.
ForgetResources ==
  /\ "restart" \in Faults
  /\ haircut' = [u \in Usernames |-> None]
  /\ stage' = [c \in Calls |-> IF c \in AtResource THEN "rejected" ELSE stage[c]]
  /\ faulted' = TRUE
  /\ UNCHANGED <<account, admitted, session, args, got, awaiting, raced>>

ExpireSession(u) ==
  /\ "expiry" \in Faults
  /\ session[u] # None
  /\ session' = [session EXCEPT ![u] = None]
  /\ faulted' = TRUE
  /\ UNCHANGED <<account, admitted, haircut, stage, args, got, awaiting, raced>>

ServiceStep(c) ==
  \/ CheckRegistered(c) \/ Reserve(c) \/ Enroll(c)
  \/ OpenEnvelope(c) \/ SaveSession(c)
  \/ CheckCredentials(c) \/ PutResource(c) \/ GetResource(c)

\* What the servers do by themselves.
Serving ==
  \/ \E c \in Calls : ServiceStep(c) \/ RepeatCommand(c)
  \/ \E u \in Usernames : ExpireSession(u)
  \/ ForgetAll
  \/ ForgetResources

\* A call of any kind.
Sends(c) ==
  /\ stage[c] = "idle"
  /\ \E u \in Usernames :
       \/ \E p \in Passwords : Send(c, Register(u, p)) \/ Send(c, Login(u, p))
       \/ \E t \in Calls \cup {None} : Send(c, Put(u, t)) \/ Send(c, Get(u, t))

\* The servers, whoever calls them with whatever arguments.
ServiceNext ==
  \/ Serving
  \/ \E c \in Calls : Sends(c) \/ \E outcome \in Outcomes : Settles(c, outcome)

ServiceSpec == ServiceInit /\ [][ServiceNext]_service
=====================================================================================
