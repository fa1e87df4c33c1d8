---------------------------------- MODULE LoginForm ----------------------------------
(***********************************************************************************)
(* The web login form: a React component with two fields, four buttons and one      *)
(* state, which holds the browser's session token.  A handler captures what it      *)
(* needs when its button is clicked and sets the state when its call settles; the   *)
(* buttons stay enabled in between, so any number of calls may be pending.          *)
(***********************************************************************************)
EXTENDS Service

VARIABLES
  form,   \* this.state
  calm    \* history: no two calls of the form have been pending together

Texts == Ops \cup {None}   \* a message, by the call its wording is about

Forms == [username : Usernames, password : Passwords, session_token : FormCalls \cup {None},
          info_msg : Texts, error_msg : Texts]

DefaultUsername == Empty
DefaultPassword == Empty

\* The session token starts as 64 zeros, which no login derives: None.
FormInit ==
  /\ form = [username |-> DefaultUsername, password |-> DefaultPassword,
             session_token |-> None, info_msg |-> None, error_msg |-> None]
  /\ calm = TRUE

Pending == awaiting \cap FormCalls

-----------------------------------------------------------------------------
(* The fields and the buttons.                                               *)

TypeUsername(u) ==
  /\ form' = [form EXCEPT !.username = u]
  /\ UNCHANGED <<service, calm>>

TypePassword(p) ==
  /\ form' = [form EXCEPT !.password = p]
  /\ UNCHANGED <<service, calm>>

Click(c, a) ==
  /\ Send(c, a)
  /\ calm' = (calm /\ Pending = {})
  /\ UNCHANGED form

ClickLogin(c) == Click(c, Login(form.username, form.password))
ClickRegister(c) == Click(c, Register(form.username, form.password))
ClickPut(c) == Click(c, Put(form.username, form.session_token))
ClickGet(c) == Click(c, Get(form.username, form.session_token))

-----------------------------------------------------------------------------
(* What the handlers do when their call settles.                             *)

Informed(f, text) == [f EXCEPT !.info_msg = text, !.error_msg = None]

\* Mutation: a failure leaves the message of an earlier success standing.
FailedBeside(f, text) == [f EXCEPT !.error_msg = text]

Failed(f, text) == [f EXCEPT !.error_msg = text, !.info_msg = None]

\* Mutation: the token is kept only when there is none yet.
LoginSettlesOnce(c) ==
  /\ args[c].op = "login"
  /\ \/ /\ Settles(c, "ok")
        /\ form' = Informed([form EXCEPT !.session_token = IF @ = None THEN c ELSE @], "login")
     \/ Settles(c, "rejected") /\ form' = Failed(form, "register")
     \/ Settles(c, "thrown") /\ form' = Failed(form, "login")
  /\ UNCHANGED calm

\* The two setState calls of a success follow each other with nothing in between.
\* An axios error is worded as that of a registration.
LoginSettles(c) ==
  /\ args[c].op = "login"
  /\ \/ /\ Settles(c, "ok")
        /\ form' = Informed([form EXCEPT !.session_token = c], "login")
     \/ Settles(c, "rejected") /\ form' = Failed(form, "register")
     \/ Settles(c, "thrown") /\ form' = Failed(form, "login")
  /\ UNCHANGED calm

\* Mutation: the catch rethrows what is not an axios error.
RegisterSettlesOnlyOk(c) ==
  /\ args[c].op = "register"
  /\ Settles(c, "ok") /\ form' = Informed(form, "register")
  /\ UNCHANGED calm

\* Both branches of the catch say the same.
RegisterSettles(c) ==
  /\ args[c].op = "register"
  /\ \/ Settles(c, "ok") /\ form' = Informed(form, "register")
     \/ \E outcome \in {"rejected", "thrown"} :
          Settles(c, outcome) /\ form' = Failed(form, "register")
  /\ UNCHANGED calm

PutSettles(c) ==
  /\ args[c].op = "put"
  /\ \/ Settles(c, "ok") /\ form' = Informed(form, "put")
     \/ Settles(c, "rejected") /\ form' = Failed(form, "put")
  /\ UNCHANGED calm

GetSettles(c) ==
  /\ args[c].op = "get"
  /\ \/ Settles(c, "ok") /\ form' = Informed(form, "get")
     \/ Settles(c, "rejected") /\ form' = Failed(form, "get")
  /\ UNCHANGED calm

FormSettles(c) == LoginSettles(c) \/ RegisterSettles(c) \/ PutSettles(c) \/ GetSettles(c)

FormStep ==
  \/ \E u \in Usernames : TypeUsername(u)
  \/ \E p \in Passwords : TypePassword(p)
  \/ \E c \in FormCalls : ClickLogin(c) \/ ClickRegister(c) \/ ClickPut(c) \/ ClickGet(c)
                          \/ FormSettles(c)
=====================================================================================
