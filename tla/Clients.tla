----------------------------------- MODULE Clients -----------------------------------
(***********************************************************************************)
(* The two example clients at work on the same servers: a user at the login form    *)
(* and the Node.js script, which may well be using the same account.                *)
(***********************************************************************************)
EXTENDS LoginForm, NodeClient

vars == <<service, form, calm, script, since>>

TypeOK ==
  /\ ServiceTypeOK
  /\ form \in Forms
  /\ calm \in BOOLEAN
  /\ script \in ScriptStages
  /\ since \subseteq Calls

Init == ServiceInit /\ FormInit /\ ScriptInit

Next ==
  \/ FormStep /\ UNCHANGED <<script, since>>
  \/ ScriptStep /\ UNCHANGED <<form, calm>>
  \/ Serving /\ Recording /\ UNCHANGED <<form, calm, script>>

Spec == Init /\ [][Next]_vars

\* The servers work on a call for as long as somebody awaits it, and a promise
\* that is settled is resumed.  Nobody owes a click or a run of the script.
ServerWorks(c) == c \in awaiting /\ ServiceStep(c) /\ Recording /\ UNCHANGED <<form, calm, script>>
FormResumes(c) == FormSettles(c) /\ UNCHANGED <<script, since>>
ScriptResumes == script # "off" /\ ScriptStep /\ UNCHANGED <<form, calm>>

FairSpec ==
  /\ Spec
  /\ \A c \in Calls : WF_vars(ServerWorks(c))
  /\ \A c \in FormCalls : WF_vars(FormResumes(c))
  /\ WF_vars(ScriptResumes)

-----------------------------------------------------------------------------
(* Properties.                                                               *)

\* The password of a login is that of a registration of its username.
KnowsPassword(l) ==
  \E r \in admitted[user(l)] : args[r].password = args[l].password

\* What is on file for a user was put with a token of that user, derived from the
\* user's password, although the form sends whatever is in its field next to
\* whatever token it holds: unless the call met another at the resource server.
PutIsByOwner ==
  \A u \in Usernames :
    LET c == haircut[u] IN
    c # None /\ ~raced[c] =>
      LET l == args[c].token IN l \in Calls /\ user(l) = u /\ KnowsPassword(l)

\* A user who waits for every answer holds, in the label of the form, the token
\* that is on file, unless the script has logged in as that user since, or the
\* next login of the form is under way.
CalmFormHoldsSession ==
  LET shown == form.session_token IN
  calm /\ ~faulted /\ shown # None => session[user(shown)] \in {shown, "login"} \cup Pending

\* Never a success and a failure side by side, whatever order the answers come in,
\* and a success on display is one of a call the servers did complete.
MessagesTellTheTruth ==
  /\ form.info_msg = None \/ form.error_msg = None
  /\ form.info_msg # None =>
       \E c \in FormCalls \ awaiting : args[c].op = form.info_msg /\ stage[c] = "ok"

\* The script fails only over something outside: a fault, a request that met its own
\* at the resource server, a user of the form who registers its username or logs in
\* with its credentials, or more logins as its user, with whatever passwords, than
\* there is room for nonces.
Meddles(c) ==
  /\ user(c) = ScriptUser
  /\ \/ args[c].op = "register"
     \/ args[c].op = "login" /\ args[c].password = ScriptPassword

UndisturbedScriptSucceeds ==
  script = "failed" =>
    \/ faulted \/ raced["put"] \/ raced["get"]
    \/ \E c \in FormCalls : Meddles(c)
    \/ Crowded("login")

\* The script prints what it has put, or what a user of the form put there for the same
\* user after it: never what was there before its own put was stored.
ScriptReadsBack ==
  script = "printed" =>
    /\ got["get"] \in since
    /\ got["get"] \in FormCalls \cup {"put"}
    /\ args[got["get"]].op = "put" /\ user(got["get"]) = ScriptUser

\* Every click is followed by an answer, and the script runs to an end.
ClicksAreAnswered == \A c \in FormCalls : c \in awaiting ~> c \notin awaiting

ScriptEnds == script = "register" ~> script \in {"printed", "failed"}

-----------------------------------------------------------------------------
(* The inductive invariant behind the safety properties.                     *)

\* What a call has got to is a matter of its kind, and the script's calls are
\* made with the script's constants.
ScriptArgs(o) ==
  CASE o = "register" -> Register(ScriptUser, ScriptPassword)
    [] o = "login" -> Login(ScriptUser, ScriptPassword)
    [] o = "put" -> Put(ScriptUser, "login")
    [] o = "get" -> Get(ScriptUser, "login")

CallsMatch ==
  /\ \A c \in Calls :
       /\ IF stage[c] = "idle" THEN args[c] = NoArgs ELSE args[c] \in Args
       /\ stage[c] \in {"check", "reserve", "enroll"} => args[c].op = "register"
       /\ stage[c] \in {"open", "save"} => args[c].op = "login"
       /\ stage[c] \in {"token", "touch"} => args[c].op \in {"put", "get"}
       /\ c \in awaiting => stage[c] # "idle"
  /\ \A o \in Ops : stage[o] # "idle" => args[o] = ScriptArgs(o)

\* Only a registration that was let in changes an account.
AccountsMatch ==
  /\ \A u \in Usernames : \A r \in admitted[u] : args[r].op = "register" /\ user(r) = u
  /\ \A c \in Calls : stage[c] \in {"reserve", "enroll"} => c \in admitted[user(c)]
  /\ \A u \in Usernames : account[u] \in Phases \cup admitted[u]

IsEarned(l) == l \in Calls /\ args[l].op = "login" /\ KnowsPassword(l)

SessionsEarned ==
  /\ \A c \in Calls :
       stage[c] = "save" \/ (stage[c] = "ok" /\ args[c].op = "login") => KnowsPassword(c)
  /\ \A u \in Usernames :
       session[u] # None =>
         /\ user(session[u]) = u /\ IsEarned(session[u])
         /\ stage[session[u]] = "ok" \/ faulted

HasToken(c) == IsEarned(args[c].token) /\ user(args[c].token) = user(c)

HaircutsEarned ==
  /\ \A c \in Calls : stage[c] = "touch" /\ ~raced[c] => HasToken(c)
  /\ \A u \in Usernames, c \in Calls :
       haircut[u] = c => args[c].op = "put" /\ user(c) = u /\ (~raced[c] => HasToken(c))
  /\ \A c, d \in Calls :
       got[c] = d => args[d].op = "put" /\ user(d) = user(c)

\* What the form's promises and its label stand for.
FormKeepsUp ==
  /\ calm => \A c, d \in Pending : c = d
  /\ ~faulted => \A c \in Calls : stage[c] \in AtServer => c \in awaiting
  /\ LET shown == form.session_token IN
       shown # None => shown \notin awaiting /\ stage[shown] = "ok" /\ args[shown].op = "login"
  /\ calm /\ ~faulted =>
       \A c \in Pending : args[c].op = "login" /\ stage[c] = "ok"
                           => session[user(c)] \in {c, "login"}

\* The script makes a call when the one before has gone well.
ScriptInOrder ==
  /\ script = "registered" \/ stage["login"] # "idle" => stage["register"] = "ok"
  /\ script = "loggedIn" \/ stage["put"] # "idle" => stage["login"] = "ok"
  /\ script = "stored" \/ stage["get"] # "idle" => stage["put"] = "ok"
  /\ stage["put"] = "ok" => haircut[ScriptUser] # None \/ faulted
  /\ stage["get"] = "ok" => got["get"] # None
  /\ script = "printed" => stage["get"] = "ok"

\* What is on file once the script's put has been stored is that put or a later one.
PutsAreRecorded ==
  /\ haircut[ScriptUser] = "put" \/ stage["put"] = "ok" => "put" \in since
  /\ "put" \in since /\ haircut[ScriptUser] # None => haircut[ScriptUser] \in since
  /\ stage["get"] = "ok" => got["get"] \in since

\* Left alone, the script finds its account as it left it.
Undisturbed ==
  /\ ~faulted /\ ~raced["put"] /\ ~raced["get"]
  /\ \A c \in FormCalls : ~Meddles(c)
  /\ ~Crowded("login")

ScriptGoesWell ==
  Undisturbed =>
    /\ script # "failed"
    /\ \A o \in Ops : stage[o] \notin {"rejected", "thrown"}
    /\ account[ScriptUser] = CASE stage["register"] = "enroll" -> "reserved"
                                [] stage["register"] = "ok" -> "register"
                                [] OTHER -> "free"
    /\ stage["login"] = "ok" => session[ScriptUser] = "login"

ClientsInd ==
  /\ TypeOK
  /\ CallsMatch
  /\ AccountsMatch
  /\ SessionsEarned
  /\ HaircutsEarned
  /\ FormKeepsUp
  /\ CalmFormHoldsSession
  /\ MessagesTellTheTruth
  /\ ScriptInOrder
  /\ PutsAreRecorded
  /\ ScriptGoesWell
=====================================================================================
