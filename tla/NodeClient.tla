---------------------------------- MODULE NodeClient ----------------------------------
(***********************************************************************************)
(* The Node.js example: register, log in, put a time stamp and get it back, each    *)
(* call awaited before the next is made and any error ending the script.            *)
(***********************************************************************************)
EXTENDS Service

CONSTANTS ScriptUser, ScriptPassword

ASSUME ScriptAssumption ==
  ScriptUser \in Usernames \ {Empty} /\ ScriptPassword \in Passwords \ {Empty}

VARIABLES
  script,   \* the call awaited, or what the last one that was left behind
  since     \* history: the puts on file for the script's user since its own was filed

ScriptStages == {"off", "registered", "loggedIn", "stored", "printed", "failed"} \cup Ops

ScriptInit == script = "off" /\ since = {}

\* Mutation: the put is left out, because the value is thought to be there.
ScriptCallsWithoutPut ==
  \/ script = "off" /\ Send("register", Register(ScriptUser, ScriptPassword)) /\ script' = "register"
  \/ script = "registered" /\ Send("login", Login(ScriptUser, ScriptPassword)) /\ script' = "login"
  \/ script = "loggedIn" /\ Send("get", Get(ScriptUser, "login")) /\ script' = "get"

ScriptCalls ==
  \/ script = "off" /\ Send("register", Register(ScriptUser, ScriptPassword)) /\ script' = "register"
  \/ script = "registered" /\ Send("login", Login(ScriptUser, ScriptPassword)) /\ script' = "login"
  \/ script = "loggedIn" /\ Send("put", Put(ScriptUser, "login")) /\ script' = "put"
  \/ script = "stored" /\ Send("get", Get(ScriptUser, "login")) /\ script' = "get"

Done == [register |-> "registered", login |-> "loggedIn", put |-> "stored", get |-> "printed"]

\* Mutation: the script waits on when a call is refused.
ScriptSettlesOnlyOk ==
  /\ script \in Ops
  /\ \/ Settles(script, "ok") /\ script' = Done[script]
     \/ Settles(script, "thrown") /\ script' = "failed"

\* One catch around everything.
ScriptSettles ==
  /\ script \in Ops
  /\ \/ Settles(script, "ok") /\ script' = Done[script]
     \/ \E outcome \in {"rejected", "thrown"} : Settles(script, outcome) /\ script' = "failed"

ScriptStep == (ScriptCalls \/ ScriptSettles) /\ UNCHANGED since

\* What the script's put and the ones after it have left on file.
Recording ==
  LET filed == haircut'[ScriptUser] IN
  since' = IF filed # haircut[ScriptUser] /\ (filed = "put" \/ (filed # None /\ "put" \in since))
             THEN since \cup {filed} ELSE since
=====================================================================================
