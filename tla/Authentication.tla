------------------------------- MODULE Authentication -------------------------------
(***********************************************************************************)
(* Password authentication: run_password_auth in the SDK, the two authentication    *)
(* handlers of the auth server, and the Redis keys they share.  As in Registration, *)
(* one Redis command is one action.  The envelopes come from the registration       *)
(* handlers, which appear here by the one thing they do to a login: filing one.     *)
(***********************************************************************************)
EXTENDS Opaque, Naturals, Sequences, FiniteSets

CONSTANTS
  Logins,          \* calls of run_password_auth; a login names the nonce drawn for it
  MaxNonces,       \* authNoncesMaxCount, 20 in the code
  Retries,         \* how often the Redis client tries a command again, 3 by default
  Persistent,      \* TRUE: an external Redis; FALSE: miniredis inside the process
  SessionsExpire,  \* TRUE: fifteen minutes may go by
  Faults           \* the faults that may happen: "redis", "link", "restart", "resend"

ASSUME AuthenticationAssumption ==
  /\ None \notin Logins
  /\ MaxNonces \in Nat
  /\ Retries \in Nat
  /\ Persistent \in BOOLEAN
  /\ SessionsExpire \in BOOLEAN
  /\ Faults \subseteq {"redis", "link", "restart", "resend"}

VARIABLES
  envelope,   \* reg:*:envelope per account
  filed,      \* history: the envelopes that have been filed, each with its account
  nonces,     \* auth:*:requests per account, newest first
  session,    \* tokens:*:token per account
  login,      \* where each run_password_auth call stands
  serving,    \* where the server stands with the login's current request
  user,       \* the account a login is for
  secret,     \* the password typed
  seen,       \* the envelope the server answered the login's first request from
  onFile,     \* history: the owners of the envelopes on file since the login sent its token
  expired     \* history: the logins whose token has gone when its fifteen minutes were over

vars == <<envelope, filed, nonces, session, login, serving, user, secret, seen, onFile, expired>>

-----------------------------------------------------------------------------
LoginStages == {"idle", "starting", "deriving", "finalizing", "loggedIn", "failed"}

Waiting == {"starting", "finalizing"}
Working == {"loadEnvelope", "pushNonce", "trimNonces", "findNonce", "verify", "saveSession"}
Refusals == {"badRequest", "serverError"}
Replies == Refusals \cup {"challenged", "accepted", "empty"}   \* "empty": a 200 and nothing else
ServingStages == {"none"} \cup Working \cup Replies

Tokens == [nonce : Logins, owner : Runs]

TypeOK ==
  /\ envelope \in [Accounts -> Envelopes \cup {NoEnvelope}]
  /\ filed \subseteq Accounts \X Envelopes
  /\ nonces \in [Accounts -> Seq(Logins)]
  /\ session \in [Accounts -> Tokens \cup {NoToken}]
  /\ login \in [Logins -> LoginStages]
  /\ serving \in [Logins -> ServingStages]
  /\ user \in [Logins -> Accounts \cup {None}]
  /\ secret \in [Logins -> Passwords \cup {None}]
  /\ seen \in [Logins -> Envelopes \cup {NoEnvelope}]
  /\ onFile \in [Logins -> SUBSET (Runs \cup {None})]
  /\ expired \subseteq Logins

Init ==
  /\ envelope = [a \in Accounts |-> NoEnvelope]
  /\ filed = {}
  /\ nonces = [a \in Accounts |-> <<>>]
  /\ session = [a \in Accounts |-> NoToken]
  /\ login = [l \in Logins |-> "idle"]
  /\ serving = [l \in Logins |-> "none"]
  /\ user = [l \in Logins |-> None]
  /\ secret = [l \in Logins |-> None]
  /\ seen = [l \in Logins |-> NoEnvelope]
  /\ onFile = [l \in Logins |-> {}]
  /\ expired = {}

store == <<envelope, nonces, session>>
inputs == <<user, secret>>
local == <<inputs, seen>>
history == <<filed, onFile, expired>>

RedisMayFail(l) == "redis" \in Faults \/ login[l] = "failed"

LoginMoves(l, stage) == login' = [login EXCEPT ![l] = stage]
ServingMoves(l, stage) == serving' = [serving EXCEPT ![l] = stage]

\* The token of a login, as both sides derive it: from the envelope the client
\* opened, and from the envelope the server has on file.
Token(l) == SessionToken(seen[l], l)
Expected(l) == SessionToken(envelope[user[l]], l)

\* LRANGE s 0 last, and what LTRIM s 0 last leaves: both ends are inclusive.
UpToIndex(s, last) == SubSeq(s, 1, IF last < Len(s) THEN last + 1 ELSE Len(s))

\* What the three commands that write leave.
Pushed(l) == [nonces EXCEPT ![user[l]] = <<l>> \o @]
Trimmed(l) == [nonces EXCEPT ![user[l]] = UpToIndex(@, MaxNonces)]
Saved(l) == [session EXCEPT ![user[l]] = Token(l)]

-----------------------------------------------------------------------------
(* Registration, as a login sees it.                                         *)

\* StoreUserData files an envelope, one per run, perhaps with the kU of another
\* run and perhaps in the place of another envelope.  The Redis client may repeat
\* the SET, also when a later one has gone in between.
FileEnvelope(a, e) ==
  /\ e.sealedUnder = e.owner
  /\ \A f \in filed : f[2].owner = e.owner => f = <<a, e>> /\ "redis" \in Faults
  /\ envelope' = [envelope EXCEPT ![a] = e]
  /\ filed' = filed \cup {<<a, e>>}
  /\ onFile' = [l \in Logins |-> IF onFile[l] # {} /\ user[l] = a
                                  THEN onFile[l] \cup {e.owner}
                                  ELSE onFile[l]]
  /\ UNCHANGED <<nonces, session, login, serving, local, expired>>

-----------------------------------------------------------------------------
(* The client: run_password_auth.                                            *)

\* Blind the password and post it to /start_password_authentication.
BeginLogin(l) ==
  /\ login[l] = "idle"
  /\ \E a \in Accounts, p \in Passwords :
       /\ user' = [user EXCEPT ![l] = a]
       /\ secret' = [secret EXCEPT ![l] = p]
  /\ LoginMoves(l, "starting")
  /\ ServingMoves(l, "loadEnvelope")
  /\ UNCHANGED <<store, seen, history>>

\* The evaluation and the envelope arrive: harden, decrypt, derive the token.
\* The bindings panic when the envelope does not open.
ReceiveChallenge(l) ==
  /\ login[l] = "starting"
  /\ serving[l] = "challenged"
  /\ LoginMoves(l, IF Opens(seen[l], secret[l]) THEN "deriving" ELSE "failed")
  /\ ServingMoves(l, "none")
  /\ UNCHANGED <<store, local, history>>

\* Post the token to /finalize_password_authentication.
SendToken(l) ==
  /\ login[l] = "deriving"
  /\ LoginMoves(l, "finalizing")
  /\ ServingMoves(l, "findNonce")
  /\ onFile' = [onFile EXCEPT ![l] = {envelope[user[l]].owner}]
  /\ UNCHANGED <<store, local, filed, expired>>

ReceiveAccepted(l) ==
  /\ login[l] = "finalizing"
  /\ serving[l] = "accepted"
  /\ LoginMoves(l, "loggedIn")
  /\ ServingMoves(l, "none")
  /\ UNCHANGED <<store, local, history>>

\* Mutation: only a 400 ends the run.
ReceiveRefusalOnly400(l) ==
  /\ login[l] \in Waiting
  /\ serving[l] = "badRequest"
  /\ LoginMoves(l, "failed")
  /\ ServingMoves(l, "none")
  /\ UNCHANGED <<store, local, history>>

ReceiveRefusal(l) ==
  /\ login[l] \in Waiting
  /\ serving[l] \in Refusals
  /\ LoginMoves(l, "failed")
  /\ ServingMoves(l, "none")
  /\ UNCHANGED <<store, local, history>>

-----------------------------------------------------------------------------
(* The server: handleStartPasswordAuthentication.                            *)

\* HandleNewUserAuthentication loads the envelope and evaluates under its kU.
LoadUserEnvelope(l) ==
  LET found == envelope[user[l]] IN
  /\ serving[l] = "loadEnvelope"
  /\ \/ /\ found # NoEnvelope
        /\ seen' = [seen EXCEPT ![l] = found]
        /\ ServingMoves(l, "pushNonce")
     \/ /\ found = NoEnvelope \/ RedisMayFail(l)
        /\ ServingMoves(l, "badRequest")
        /\ UNCHANGED seen
  /\ UNCHANGED <<store, login, inputs, history>>

\* Mutation: RPUSH for LPUSH.
PushNonceLast(l) ==
  /\ serving[l] = "pushNonce"
  /\ nonces' = [nonces EXCEPT ![user[l]] = Append(@, l)]
  /\ \/ ServingMoves(l, "challenged")
     \/ ServingMoves(l, "trimNonces")
  /\ UNCHANGED <<envelope, session, login, local, history>>

\* StoreAuthNonce: LPUSH, then an LTRIM with probability one third.
PushNonce(l) ==
  /\ serving[l] = "pushNonce"
  /\ \/ /\ nonces' = Pushed(l)
        /\ \/ ServingMoves(l, "challenged")
           \/ ServingMoves(l, "trimNonces")
     \/ /\ RedisMayFail(l)
        /\ nonces' \in {nonces, Pushed(l)}
        /\ ServingMoves(l, "badRequest")
  /\ UNCHANGED <<envelope, session, login, local, history>>

\* Mutation: the list is cut shorter than what HasAuthNonce reads.
TrimNoncesShorter(l) ==
  /\ serving[l] = "trimNonces"
  /\ nonces' = [nonces EXCEPT ![user[l]] = UpToIndex(@, MaxNonces - 1)]
  /\ ServingMoves(l, "challenged")
  /\ UNCHANGED <<envelope, session, login, local, history>>

TrimNonces(l) ==
  /\ serving[l] = "trimNonces"
  /\ \/ /\ nonces' = Trimmed(l)
        /\ ServingMoves(l, "challenged")
     \/ /\ RedisMayFail(l)
        /\ nonces' \in {nonces, Trimmed(l)}
        /\ ServingMoves(l, "badRequest")
  /\ UNCHANGED <<envelope, session, login, local, history>>

-----------------------------------------------------------------------------
(* The server: handleFinalizePasswordAuthentication.                         *)

\* HasAuthNonce: is the token's nonce among those LRANGE returns?
NonceKnown(l) ==
  LET recent == UpToIndex(nonces[user[l]], MaxNonces)
  IN \E i \in 1..Len(recent) : recent[i] = l

\* Mutation: the error is tested, the answer is not.
FindNonceUnchecked(l) ==
  /\ serving[l] = "findNonce"
  /\ \/ ServingMoves(l, "verify")
     \/ RedisMayFail(l) /\ ServingMoves(l, "badRequest")
  /\ UNCHANGED <<store, login, local, history>>

FindNonce(l) ==
  /\ serving[l] = "findNonce"
  /\ \/ NonceKnown(l) /\ ServingMoves(l, "verify")
     \/ /\ ~NonceKnown(l) \/ RedisMayFail(l)
        /\ ServingMoves(l, "badRequest")
  /\ UNCHANGED <<store, login, local, history>>

\* Mutation: the key of the envelope the login started from is trusted.
VerifyTokenFromCache(l) ==
  /\ serving[l] = "verify"
  /\ ServingMoves(l, "saveSession")
  /\ UNCHANGED <<store, login, local, history>>

\* The rest of IsAuthenticated: load the envelope again, derive the token from
\* its user key and compare.
VerifyToken(l) ==
  LET matches == envelope[user[l]] # NoEnvelope /\ Token(l) = Expected(l) IN
  /\ serving[l] = "verify"
  /\ \/ matches /\ ServingMoves(l, "saveSession")
     \/ /\ ~matches \/ RedisMayFail(l)
        /\ ServingMoves(l, "badRequest")
  /\ UNCHANGED <<store, login, local, history>>

\* Mutation: the error of the SET is logged and the login answered 200.
StoreSessionTokenUnchecked(l) ==
  /\ serving[l] = "saveSession"
  /\ \/ session' = Saved(l)
     \/ RedisMayFail(l) /\ UNCHANGED session
  /\ ServingMoves(l, "accepted")
  /\ UNCHANGED <<envelope, nonces, login, local, history>>

\* One key per account: the token replaces the one of any other device.
StoreSessionToken(l) ==
  /\ serving[l] = "saveSession"
  /\ \/ /\ session' = Saved(l)
        /\ ServingMoves(l, "accepted")
     \/ /\ RedisMayFail(l)
        /\ session' \in {session, Saved(l)}
        /\ ServingMoves(l, "serverError")
  /\ UNCHANGED <<envelope, nonces, login, local, history>>

-----------------------------------------------------------------------------
(* Time and faults.                                                          *)

\* The fifteen minutes of a stored token are over and Redis drops the key.
ExpireSession(a) ==
  /\ SessionsExpire
  /\ session[a] # NoToken
  /\ session' = [session EXCEPT ![a] = NoToken]
  /\ expired' = expired \cup {session[a].nonce}
  /\ UNCHANGED <<envelope, nonces, login, serving, local, filed, onFile>>

LoseConnection(l) ==
  /\ "link" \in Faults
  /\ login[l] \in Waiting \cup {"deriving"}
  /\ LoginMoves(l, "failed")
  /\ UNCHANGED <<store, serving, local, history>>

\* It broke before all of the first request had come: its dump fails, and the
\* handler returns without a status, which is a 200 to nobody.
BodyCutShort(l) ==
  /\ login[l] = "failed"
  /\ serving[l] = "loadEnvelope"
  /\ ServingMoves(l, "empty")
  /\ UNCHANGED <<store, login, local, history>>

\* A command is carried out and its reply lost, and the Redis client tries it
\* again: an LPUSH leaves its nonce twice.
LoseReply(l) ==
  /\ "redis" \in Faults
  /\ \/ /\ serving[l] = "pushNonce"
        /\ Cardinality({i \in DOMAIN nonces[user[l]] : nonces[user[l]][i] = l}) < Retries
        /\ nonces' = Pushed(l)
        /\ UNCHANGED session
     \/ /\ serving[l] = "trimNonces"
        /\ nonces' = Trimmed(l)
        /\ UNCHANGED session
     \/ /\ serving[l] = "saveSession"
        /\ session' = Saved(l)
        /\ UNCHANGED nonces
  /\ UNCHANGED <<envelope, login, serving, local, history>>

\* The token reaches the server a second time.  The nonce is not consumed by the
\* login it was drawn for, and the second answer is nobody's.
ResendToken(l) ==
  /\ "resend" \in Faults
  /\ onFile[l] # {}
  /\ login[l] \in {"loggedIn", "failed"}
  /\ serving[l] \notin Working
  /\ ServingMoves(l, "findNonce")
  /\ UNCHANGED <<store, login, local, history>>

\* The auth server dies with every handler and connection, and starts again.
Crash ==
  /\ "restart" \in Faults
  /\ serving' = [l \in Logins |-> "none"]
  /\ login' = [l \in Logins |-> IF login[l] \in Waiting THEN "failed" ELSE login[l]]
  /\ IF Persistent
       THEN UNCHANGED store
       ELSE /\ envelope' = [a \in Accounts |-> NoEnvelope]
            /\ nonces' = [a \in Accounts |-> <<>>]
            /\ session' = [a \in Accounts |-> NoToken]
  /\ UNCHANGED <<local, history>>

\* With Redis outside, a restart that interrupts no request goes unnoticed.
Restart == (~Persistent \/ \E l \in Logins : serving[l] # "none") /\ Crash

-----------------------------------------------------------------------------
ClientStep(l) ==
  \/ ReceiveChallenge(l)
  \/ SendToken(l)
  \/ ReceiveAccepted(l)
  \/ ReceiveRefusal(l)

HandlerStep(l) ==
  \/ LoadUserEnvelope(l)
  \/ PushNonce(l)
  \/ TrimNonces(l)
  \/ FindNonce(l)
  \/ VerifyToken(l)
  \/ StoreSessionToken(l)

Finished ==
  /\ \A l \in Logins : login[l] \in {"loggedIn", "failed"} /\ serving[l] \notin Working
  /\ UNCHANGED vars

Next ==
  \/ \E a \in Accounts, e \in Envelopes : FileEnvelope(a, e)
  \/ \E l \in Logins : BeginLogin(l) \/ ClientStep(l) \/ HandlerStep(l)
                       \/ LoseConnection(l) \/ BodyCutShort(l) \/ LoseReply(l) \/ ResendToken(l)
  \/ \E a \in Accounts : ExpireSession(a)
  \/ Restart
  \/ Finished

Spec == Init /\ [][Next]_vars

Fairness == \A l \in Logins : WF_vars(ClientStep(l)) /\ WF_vars(HandlerStep(l))

FairSpec == Spec /\ Fairness

-----------------------------------------------------------------------------
(* Properties.                                                               *)

\* The session token on file was derived by a login to that very account from an
\* envelope of the account that its password opened, and which was on file at some
\* time since the token was sent: no order of logins, repeats and registrations, and
\* no client that has gone, gets the token of another account or of a key that had
\* been replaced stored, not even behind an answer that tells of an error.
SessionIsEarned ==
  \A a \in Accounts :
    session[a] # NoToken =>
      \E l \in Logins :
        /\ user[l] = a /\ session[a] = Token(l)
        /\ Opens(seen[l], secret[l])
        /\ seen[l].owner \in onFile[l]

\* A user key that was replaced before the token was sent is not accepted, no
\* matter what is filed while the server verifies it, unless it is put back by a
\* SET that is repeated.
ReplacedKeyIsRefused ==
  \A l \in Logins : login[l] = "loggedIn" => seen[l].owner \in onFile[l]

\* Nonces are not consumed, but they go out of fashion: once newer ones have
\* pushed the nonce of a login out and no handler is past looking it up, its
\* token never gets on file again, however often it is sent.
Lapsed(l) ==
  /\ seen[l] # NoEnvelope
  /\ serving[l] \notin {"pushNonce", "verify", "saveSession"}
  /\ ~NonceKnown(l)
  /\ session[user[l]] # Token(l)

LapsedStaysLapsed == [][\A l \in Logins : Lapsed(l) => Lapsed(l)']_vars

Challenged(l) == serving[l] \notin {"loadEnvelope", "pushNonce"} /\ seen[l] # NoEnvelope

\* The logins whose nonces may have pushed out that of l.
Rivals(l) == {m \in Logins \ {l} : user[m] = user[l] /\ Challenged(m)}

\* There was no envelope, the password does not open the one that was there, it has
\* been replaced, or more than MaxNonces other logins have been started.
HasCause(l) ==
  \/ seen[l] = NoEnvelope
  \/ ~Opens(seen[l], secret[l])
  \/ envelope[user[l]].owner # seen[l].owner
  \/ Cardinality(Rivals(l)) > MaxNonces

\* Without faults, a login is refused for a reason its user can name.
RefusedForCause ==
  Faults = {} => \A l \in Logins : login[l] = "failed" => HasCause(l)

\* The token of l is on file, or it was and its fifteen minutes are over.
HoldsSession(l) ==
  \/ session[user[l]] = Token(l)
  \/ session[user[l]] = NoToken /\ l \in expired

\* A login the server has confirmed holds the account's session, for as long as
\* it lasts, unless another login to the account got as far as sending a token.
\* Whatever the SET was answered, and however often it was tried, a 200 means that it
\* was carried out.
SoleLoginHoldsSession ==
  Persistent =>
    \A l \in Logins :
      /\ login[l] = "loggedIn"
      /\ \A m \in Logins \ {l} : user[m] = user[l] => onFile[m] = {}
      => HoldsSession(l)

\* Every call of run_password_auth comes to an end, under every fault.
LoginsFinish ==
  \A l \in Logins : login[l] = "starting" ~> login[l] \in {"loggedIn", "failed"}

\* Trimming now and then, at random, is invisible to HasAuthNonce: what it reads
\* is always the MaxNonces + 1 newest nonces of the account.
Window == INSTANCE NonceWindow
  WITH window <- [a \in Accounts |-> UpToIndex(nonces[a], MaxNonces)],
       Size <- MaxNonces + 1,
       Forgetful <- ~Persistent

ImplementsNonceWindow == Window!Spec

-----------------------------------------------------------------------------
(* The inductive invariant behind the safety properties.                     *)

Starting == {"loadEnvelope", "pushNonce", "trimNonces", "challenged"}
Finalizing == {"findNonce", "verify", "saveSession", "accepted"}

\* The server works on the request the client has made, or has given up on.
StagesAgree ==
  \A l \in Logins :
    /\ login[l] = "idle" => serving[l] = "none"
    /\ login[l] = "idle" \/ serving[l] = "loadEnvelope" => seen[l] = NoEnvelope
    /\ login[l] # "idle" => user[l] \in Accounts /\ secret[l] \in Passwords
    /\ login[l] = "deriving" => serving[l] = "none"
    /\ serving[l] \in Starting => login[l] \in {"starting", "failed"}
    /\ serving[l] \in Finalizing =>
         login[l] \in {"finalizing", "loggedIn", "failed"} /\ onFile[l] # {}
    /\ login[l] \in {"finalizing", "loggedIn"} => onFile[l] # {}
    /\ onFile[l] # {} =>
         login[l] \in {"finalizing", "loggedIn", "failed"} /\ serving[l] \notin Starting

\* An envelope in play was filed by its owner, and a login past the challenge opened one.
SeenIsFiled ==
  /\ \A a \in Accounts : envelope[a] # NoEnvelope => <<a, envelope[a]>> \in filed
  /\ \A l \in Logins : seen[l] # NoEnvelope => <<user[l], seen[l]>> \in filed
  /\ \A l \in Logins :
       (\/ serving[l] \in {"pushNonce", "trimNonces", "challenged"}
        \/ login[l] = "deriving" \/ onFile[l] # {})
         => seen[l] # NoEnvelope
  /\ \A l \in Logins :
       login[l] = "deriving" \/ onFile[l] # {} => Opens(seen[l], secret[l])

\* What the server compares a token with was on file since the token was sent.
ComparedSinceSent ==
  \A l \in Logins :
    /\ onFile[l] # {} /\ envelope[user[l]] # NoEnvelope => envelope[user[l]].owner \in onFile[l]
    /\ login[l] = "loggedIn" \/ serving[l] \in {"saveSession", "accepted"}
         => seen[l].owner \in onFile[l]

\* Confirmed, or about to be.
SoleLoginIsOnFile ==
  Persistent =>
    \A l \in Logins :
      /\ \/ login[l] = "loggedIn"
         \/ login[l] = "finalizing" /\ serving[l] = "accepted"
      /\ \A m \in Logins \ {l} : user[m] = user[l] => onFile[m] = {}
      => HoldsSession(l)

AuthInd ==
  /\ TypeOK
  /\ StagesAgree
  /\ SeenIsFiled
  /\ SessionIsEarned
  /\ ComparedSinceSent
  /\ SoleLoginIsOnFile

-----------------------------------------------------------------------------
(* The inductive invariant behind RefusedForCause, beside AuthInd.           *)

\* Nonces are those of challenged logins, each listed once.
NoncesAreDistinct ==
  \A a \in Accounts :
    /\ \A i \in 1..Len(nonces[a]) : user[nonces[a][i]] = a /\ Challenged(nonces[a][i])
    /\ \A i, j \in 1..Len(nonces[a]) : nonces[a][i] = nonces[a][j] => i = j

\* A nonce is gone only from a list that is full.
NoncesAreKept ==
  \A l \in Logins :
    Challenged(l) =>
      \/ \E i \in 1..Len(nonces[user[l]]) : nonces[user[l]][i] = l
      \/ Len(nonces[user[l]]) > MaxNonces

RefusalsHaveCause ==
  \A l \in Logins :
    /\ serving[l] \in Refusals => HasCause(l)
    /\ login[l] = "failed" => serving[l] = "none" /\ HasCause(l)

CauseInd == Faults = {} => NoncesAreDistinct /\ NoncesAreKept /\ RefusalsHaveCause

-----------------------------------------------------------------------------
(* What the repository says and the code does not do.                        *)

\* README: "After a successful login, plissken-auth-server ... would issue an
\* access token to you that you can use".  The token is on file when the client
\* learns that its login succeeded.  It need not be: there is one key per
\* account, and another login that finishes in between has taken it.
TokenUsableAtLogin ==
  [][\A l \in Logins :
       login[l] = "finalizing" /\ login'[l] = "loggedIn"
         => session[user[l]] = Token(l)]_vars
=====================================================================================
