# Plissken in TLA+

Plissken is password authentication over OPAQUE: the server stores no password,
and hands out a session token to a client that can open an encrypted
envelope. This directory holds the TLA+ modules that model its Go and
TypeScript sources, the TLC configurations that check them on small instances,
and proofs, checked by TLAPS, of what holds on every instance.

Run everything from this directory: `tlc -config RegistrationSafety.cfg
MCRegistration.tla`, `tlapm RegistrationProofs.tla`. `PROJECT.json` lists the
runs, which source lines each definition translates, the hazards of the code,
the disagreements found and the theorems.

## The system

| Component | State it keeps | Operations | Talks to |
|---|---|---|---|
| OPAQUE client (`protocol-lib/client`) | none | `MakeOprfRequest`, `MakeEnvU`, `DeriveSessionToken` | called by the bindings |
| OPAQUE server (`protocol-lib/server`) | the server key pair | `IsRegistered`, `HandleNewUserRequest`, `StoreUserData`, `HandleNewUserAuthentication`, `IsAuthenticated` | a `Storage` |
| Redis wrapper (`auth-server/rediswrapper`) | everything that is persistent, one key per (kind, app token, username) | SET, GET, EXISTS, LPUSH, LTRIM, LRANGE, KEYS | Redis, or miniredis in the same process |
| Registration handlers (`auth-server/server/handlers.go`) | none between requests | `/start_password_registration`, `/finalize_password_registration` | OPAQUE server |
| Authentication handlers (same file) | none between requests | `/start_password_authentication`, `/finalize_password_authentication` | OPAQUE server, Redis wrapper |
| Credential check (same file) | none | `/check-credentials` | Redis wrapper |
| Index page (same file) | none | lists what is on file | Redis wrapper |
| Auth server process (`auth-server/main.go`, `server/server.go`) | configuration, app secrets stored at start | start, graceful shutdown | all of the above |
| JavaScript SDK and bindings (`js-sdk`, `cmd/js-bindings`) | local variables of one call | `run_password_reg`, `run_password_auth` | both handler pairs, by HTTP |
| Resource server (`example-resource-server`) | miniredis with one value per user; the `err` its closures share | `/get-resource`, `/put-resource` | `/check-credentials`, by HTTP, 5 s deadline |
| Web login form (`client-examples/webapp/frontend`) | the React state: two fields, the session token, two messages | two fields, four buttons | SDK, resource server |
| Node.js client (`client-examples/nodejs`) | local variables | register, log in, put, get, in this order | SDK, resource server |
| SPA server | none | static files | |
| Wire codecs (`protocol-lib/common`) | none | JSON in and out | all messages |
| Key generator, generated bindings, build files | none | | |

**What makes it hard.** Every HTTP request is a goroutine and nothing is locked:
two requests for one account interleave at every Redis command. No sequence of
commands is a transaction, any command may fail after it was carried out, the Redis
client tries commands again by itself, a client may vanish and its handler
runs on, and with miniredis a restart forgets everything while clients are in the
middle of an exchange. In the resource server even a Go variable is shared, and in the
login form the buttons stay live while calls are pending.

**What makes each component correct.**

* Registration: an account that was enrolled is closed for good to clients of the
  SDK, which ask before they register (`/finalize_password_registration` by itself
  replaces the envelope of any account that has a reservation); the envelope
  and the OPRF key filed with it belong together; who is told of success can log
  in; every call ends; an abandoned attempt does not block the name.
* Authentication: a session token on file was derived by somebody who opened an
  envelope of that account and answered a recent challenge; an envelope that was
  replaced is of no use to a login; a login is only refused for a reason; the
  list of nonces keeps the newest and forgets the rest; every call ends.
* Resource server and credential check: nothing is served without a passed
  check, a passed check is honoured, and every request is answered.
* The server as a whole: registration files under the feet of logins, and both die
  together; a session is only ever held by somebody who knows a registered password.
* Index page: nobody is shown who did not register, and nobody is left out whose name
  the key format can carry.
* Clients: the form shows the state of the last answer and never a success that did not
  happen; what is put belongs to who put it; the script fails only over something outside.

## The modules

| Module | What it is |
|---|---|
| `Opaque` | the cryptography as a term algebra: envelopes, when they open, session tokens |
| `Registration` | both registration handlers, `run_password_reg`, and the keys `reg:*:request`, `reg:*:envelope` |
| `AccountDirectory` | abstract: free, reserved, enrolled |
| `Authentication` | both authentication handlers, `run_password_auth`, and the keys `auth:*:requests`, `tokens:*:token` |
| `NonceWindow` | abstract: per account, the newest nonces |
| `ResourceServer` | the resource handlers, `/check-credentials`, and the shared `err` |
| `AuthServer` | `Registration` and `Authentication` over one store, with one crash for both |
| `IndexPage` | `handleIndex`, the key format, the KEYS scans, registrations and restarts around it |
| `Service` | abstract: what a client sees of the SDK and both servers, calls that take effect while awaited |
| `Contract` | `AuthServer` as an implementation of `Service`: history variables and the refinement mapping |
| `LoginForm` | extends `Service` with the React component |
| `NodeClient` | extends `Service` with the script |
| `Clients` | the form and the script on the same servers |
| `MCRegistration`, `MCAuthentication`, `MCContract`, `MCClients`, `MCIndexPage` | extend a module with the symmetry, the view or the texts its runs use |
| `...Proofs` | theorems and their proofs: `RegistrationProofs`, `AuthenticationProofs`, `RefusalProofs`, `AuthServerProofs`, `ContractProofs`, `ResourceProofs`, `ClientsProofs`, `IndexProofs` |

### How the model corresponds to the code

*Steps.* Each Redis command of a handler is one action, together with
everything the handler does up to its next command or its reply. `handler[r]`
(in `Authentication`, `serving[l]`) is the command the goroutine will issue next, or
the status it has answered with: `"forbidden"` is the 403, `"badRequest"` the 400 and
`"serverError"` the 500 the handler gives that error. `client[r]` (`login[l]`) says at
which `await` of the SDK the call stands. A SET, LPUSH or LTRIM that fails has three
outcomes: done and answered, done and reported as an error, not done and reported as
an error. `LoseReply` is the retry of the Redis client: the command is carried
out, the handler still waits for it, and other handlers may act before it is
carried out again.

*Clients are those of the repository.* Every request is sent by the SDK, in its order, and
every resource request by the form or the script. What the handlers answer to a request
that no SDK sends is not modelled.

*A client that has gone.* `LoseConnection` fails the call and leaves the handler
running; since gin hands the handler the request's context, its commands may from
then on fail although Redis is well (`RedisMayFail`). The handler's
`none` after that is not a reply but the end of the goroutine. If the request was not
all there (`BodyCutShort`), the handlers that dump it return without a status: `"empty"`.

*Cryptography.* Random values are named by the run that draws them, so an OPRF key
`kU` is the run that drew it. An envelope records whose key it was sealed under
and which key was filed with it; it opens for the password it was sealed with
if the two are the same. A session token is a nonce and the owner of the user key;
the server key never changes. That different draws differ and that AES-GCM
rejects a wrong key are the assumptions.

*Accounts* are (app token, username) pairs, the variable part of every key, except in
`IndexPage`, which is about how they share one text. Requests that do not decode never
reach a Redis command and are left out.

*Empty names and passwords* make the bindings panic before anything is sent. They never
reach the servers; `Service` has them (`Empty`, `Panics`), because the form starts with both
fields empty.

*History variables* change nothing the code does: `admitted` (who passed the
registration check), `filed` (every envelope ever filed, with its account), `onFile` (the
owners of the envelopes on file since a login sent its token), `expired` (the logins whose
token ran out), in `ResourceServer`
`verdict` after the test of `err`, and `alone`, in `IndexPage` `registered` and `expected`,
in the clients `raced`, `faulted`, `calm` and `since` (what has been stored for the script's
user since the script's own put), in `Contract` `stage`, `faulted`
and `broken`.

*Authentication's registrations.* `FileEnvelope` stands for the last command of
`StoreUserData`: some run files an envelope, perhaps with another run's key and
perhaps over another envelope, and a SET that is repeated may put an old envelope
back. `AuthServer` puts the registration handlers in its place, and that every step of
theirs is a `FileEnvelope` or nothing to the logins is `ImplementsAuthentication`.

*Names with colons.* In `IndexPage` a text is the sequence of the parts between its
colons, so that joining is concatenation and a name with a colon is a sequence of two.
KEYS with a star is every key with the right first and last parts. What a name does inside the
pattern if it contains `*`, `?` or `[` is left out.

*Service.* Each SDK or resource call has only the steps that another call can get
between, and the outcomes that the more detailed modules leave open: an account that two
registrations were let into may end up with an envelope that nobody opens, a login may be
refused although its envelope opened if the account is such a one (`Contested`) or if
more than `MaxNonces` other logins, whatever their passwords, were started for its user
(`Crowded`), and a token check of two resource calls that met may go either way. Its faults
are a call that fails over a lost command or connection (`"link"`; the SDK words an answer other
than 200 to the first request of a registration as an error of its own, so this call may be
`"thrown"` as well as `"rejected"`), a last SET that is
carried out more than once (`"repeat"`), a restart of either server, which empties its own
store (`"restart"`: `ForgetAll`, `ForgetResources`), and a
session that runs out (`"expiry"`); each sets `faulted`, which the properties of the clients ask about.
`awaiting` is the set of unsettled promises, and a handler's local variables are its
call's `args`, taken from the fields when the button was clicked.

*Contract.* That the auth server and the SDK do no more than that to a client is
`ImplementsService`: each registration and each login is one call, an account is what its
two keys amount to (`AccountNow`), and `stage`, a history variable, moves on at the one
command with which a call takes effect. A registration takes effect at EXISTS, at its first SET of
the request and at its last SET of the envelope, whether or not the reply arrives; a login when
its envelope is loaded and when its token is stored. After a restart the calls it broke
off are still to be rejected, one at a time (`broken`). The history restricts nothing: on the
instances of both runs, TLC reaches the same states of the server with it and without
it (a VIEW of `serverVars`: 110,467 and 2,241,161 states, without symmetry).

*Memory.* Go gives a data race no meaning of its own; the builds make `if err != nil` test
either the value just returned, still in a register, or what the variable holds by
then. `TestErr` and `TestPutErr` allow both.

*Mutations.* An operator whose comment begins with "Mutation" is not part of the
model. It is the definition after it with a plausible mistake built in; put in its
place it makes TLC report the property `PROJECT.json` names with it.

## The runs

Runs that pass:

| Run | Instance | What it shows |
|---|---|---|
| `RegistrationSafety` | 3 runs, 1 account, 2 passwords, external Redis, all faults | only two admitted runs can mix keys; a sole registrant can log in; implements `AccountDirectory`; no run passes the check of an enrolled account; the inductive invariant, which includes the types and that an enrolled account stays reserved |
| `AuthenticationSafety` | 2 logins, 2 accounts, 2 envelopes, 2 passwords, a window of two nonces, one retry of a push, tokens sent again, sessions that expire, all faults | a session on file is of a login to that account and of a key on file since it sent its token; replaced keys refused; a sole login that is answered 200 has its token on file, or had it for its fifteen minutes; a lapsed login stays lapsed; implements `NonceWindow`; the inductive invariant |
| `Contract` | 2 registrations, 1 login, 1 account, a window of one nonce, store lost on restart, all faults | the server implements `Authentication`, and with the SDK, command by command, `Service`; every call ends; the inductive invariants |
| `ContractFaultFree` | 2 registrations, 2 logins, 2 accounts, 2 passwords, a window of one nonce, sessions that expire | the same contract without a fault to blame (what `Service` excuses by faults is the other run's matter); sessions belong to those who know a registered password of the account, not of another; the right password opens; a refusal has a cause, with the invariant about the nonce list that makes it so |
| `Resource` | 2 requests, 1 account, 2 tokens, all faults | what the race on `err` cannot break: a request that overlaps no other is served if and only if its check passed, and nothing is served before some check passed; every request is answered; the inductive invariant |
| `IndexPage` | 2 app tokens, 3 usernames, with and without a colon, 3 configurations, external Redis, all faults | only who registered is shown; everyone with a plain name is; the page fails only over a colon; it is always answered; the inductive invariant |
| `Clients` | 2 clicks of the form and the script, 3 names and passwords with the empty one, a window of two nonces, all faults but the restarts | puts are by owners; a user who waits holds the session shown; messages tell the truth; an undisturbed script succeeds and reads back what it put, or a form put stored for its user after it; the inductive invariant |
| `ClientsLive` | 1 click and the script, the same names, all faults | the click is answered whatever the script does meanwhile, the script ends |

Runs that end in a violation, each a place where the repository says one thing and the
code does another:

| Run | Said | Done |
|---|---|---|
| `RegistrationRace` | README: register, then log in with your credentials | two registrations of a name pass the check together; the envelope of one is filed with the key of the other, both succeed, no password opens the account |
| `RegistrationAbandoned` | `storage.go`: expire the UserRequest after X seconds | it never expires; a broken-off registration blocks the name with 403 |
| `AuthenticationTwoDevices` | README: a successful login issues a token you can use | another login's SET may land before the first client hears of its success |
| `ResourceRace` | README: the resource server verifies with the auth server | a request can be served on the outcome of another's check |

`LTRIM 0 n` keeps n+1 nonces where its comment says n. `HasAuthNonce` reads n+1 as well, so
the two agree, which is what `ImplementsNonceWindow` and `RefusedForCause` rely on and the
mutation `TrimNoncesShorter` breaks.

### Bounds, and why they are enough

* Two runs are what it takes to mix keys; in `RegistrationSafety` a third lets a refused
  run and a retry take part as well. One account suffices where accounts do not interact;
  `AuthenticationSafety` and `ContractFaultFree` have two, so that a token or a reservation
  under the wrong account would show.
* Each run, login, request and click happens once. A user who tries again is another
  run, so the number of attempts is bounded by the set, not by the model.
* `MaxNonces` is 20 in the code. With 0 and 1 the window holds one and two nonces, so
  that the pushes of two or three logins overflow it. The proofs cover 20.
* `Retries` bounds the copies of one nonce that lost replies of an LPUSH leave. The
  Redis client's default is 3; with 1 and two logins the window overflows already. Repeated
  SETs and LTRIMs are not counted: repeating them without bound adds no new state.
* `Faults` selects what may fail: `"redis"` (a command), `"link"` (a client's
  connection), `"restart"` (the process), `"resend"` (the second request of a login sent again),
  `"expiry"` (a session's fifteen minutes, in the clients). Each happens any number of times.
  `Service` has `"repeat"` for what `"redis"` and `"resend"` amount to there. `Clients` leaves out
  the restarts, with which it has too many states for a run; `ClientsLive` and the proofs have them.
* In `Clients` the two clicks may be any two of the four buttons with anything in the
  fields, overlapping or not, which is what it takes to mix two answers or to act with the
  token of one user and the name of another; the script adds a second client of the same
  account. A third click only adds another pair. The proofs cover any number.
* `Contract` needs two registrations to contest an account, and a login to meet what they
  leave; two logins and room for one nonce to push one out. With faults and two logins, or two
  passwords, there are too many states for a run that checks liveness too, so each of the two runs
  has what the other lacks, and the proofs have both. With one password `SessionIsRegistrants`
  says little, so it is checked where there are two; that it holds under every fault is proved.
* `IndexPage`'s names are the smallest that collide: with `x`, `x:y` and `y`, `z`, `y:z` two
  accounts share a key, and one is listed under the name of another.
* Symmetry is used only in runs that check no liveness; the refinements and action
  properties there speak of all runs and logins alike. `Clients` also has a view: once every
  click has been made, nothing reads the fields again, and states that differ only in them
  are one.
* The model may stop only where every call has ended; `Finished` says so, and TLC's
  deadlock check is on in every run. (In `ResourceServer`, the clients and the index page
  something can always happen: a session is stored, a field is typed in, a page asked for.)

### Fairness

`FairSpec` asserts weak fairness of each client's steps together and of each handler's
steps together. Go runs every runnable goroutine and a Redis command ends, by
success, error or the client's own timeouts; a browser resumes a settled promise.
Nothing is assumed of the environment: nobody has to start a call, no fault
has to happen, and in `ResourceServer` the auth server may stay silent, so that only
the five-second deadline (`GiveUp`) ends the wait. `RunsFinish` and `LoginsFinish` start
at the first request of a call: a reply lost with the connection ends a call as an
error. A connection that stays open and silent is not modelled for the SDK, whose
axios calls set no timeout; what they rely on is that the handler replies. `AuthServer`
assumes the same of the same steps. In `Clients` the servers work on a call for as long as
somebody awaits it, settled promises are resumed, and the script goes on once it has
started; in `IndexPage` the request's goroutine runs.

## The proofs

The proofs hold for any sets of runs, accounts, passwords, logins, requests, tokens,
clicks and names, any `MaxNonces` and `Retries`, either store and any set of faults. They
assume only the named assumptions on constants (`NoneIsNoRun`, `RegistrationAssumption`,
`AuthenticationAssumption`, `ResourceAssumption`, `ServiceAssumption`, `ScriptAssumption`,
`IndexPageAssumption`, `ContractAssumption`), and in `RefusalProofs` and for
`ContractImplementsService` that there are finitely many logins, since they are counted.

* **`RegistrationProofs`.** `IndInv` adds to the properties: a run goes past the
  check only if it was admitted to its own account (`AdmittedFirst`); every key in the
  store, in a handler's hands or inside an envelope was drawn by an admitted run
  (`KeysAreAdmitted`); and what a later command relies on is still there
  (`StoreKeepsUp`). Without the second, nothing bounds which key `StoreUserData` finds,
  and `UnsharedAccountOpens` is not inductive: it speaks about the envelope only after
  it has been filed. `SoleRegistrantCanLogIn` and `EnrolledAccountIsClosed` follow from
  the invariant, and `ImplementsDirectory` by mapping each action to a step of
  `AccountDirectory` or to a stutter, under `Phase`.
* **`AuthenticationProofs`.** `AuthInd` ties the stages of client and server together
  (`StagesAgree`), says that envelopes in play were filed and opened (`SeenIsFiled`),
  that a session on file was earned (`SessionIsEarned`, which is inductive beside the
  others: a login that has sent its token is given no other envelope), that what the server
  compares a token with was on file since it was sent (`ComparedSinceSent`), which is
  what makes the session earned when it is stored, and that a login about to be
  confirmed has its token on file (`SoleLoginIsOnFile`). `ImplementsNonceWindow` and
  `LapsedStaysLapsed` need facts about sequences besides: pushing and then taking the newest is
  taking the newest of what was newest, and cutting a list where the window ends does not
  change the window.
* **`RefusalProofs`.** Without faults a refusal has a cause. `CauseInd` adds to `AuthInd` that
  every nonce in a list is that of a login that was challenged, listed once
  (`NoncesAreDistinct`), that a nonce is missing only from a full list (`NoncesAreKept`), and
  that who was refused had a cause, which stays one (`RefusalsHaveCause`). The step that
  matters is `PushedOutByRivals`: if a nonce is not found, the first `MaxNonces` + 1 entries
  of the list are an injection into the login's rivals, so there are more than `MaxNonces`.
* **`AuthServerProofs`.** `FilingInd` says that whatever has been filed was filed by a run
  that was let in and that can file nothing else any more, except repeat itself (`HasFiled`). With it,
  every step of a registration handler is a `FileEnvelope` or a stutter for `Authentication`, and every
  step of a login is a stutter for `Registration`; so both refinements hold, and with them
  every theorem about the halves. `SessionIsRegistrants` and `RightPasswordOpens` combine
  the two invariants.
* **`ContractProofs`.** `ContractInd` says that where the handlers and the SDK stand with a
  call tells how far it has taken effect (`RunAgrees`, `LoginAgrees`), that the reservation outlasts what
  relies on it (`ReservationsStand`), and that without faults nobody is told of a failure
  that is none (`NothingGoesWrong`). It is inductive beside `AuthInd` and `FilingInd`, which hold
  because Contract takes only steps of `AuthServer` (`ContractIsTheServer`). Then one lemma
  per action maps it to a step of `Service` or to a stutter. Two of them need more than
  bookkeeping. Storing an envelope is `Files`: if the key found is another's, two runs were let in
  (`FilingInd`). And a login refused at its nonce or at its token is `Crowded` or `Contested`:
  by `CauseInd` and `PushedOutByRivals` more than `MaxNonces` others have pushed its nonce
  out, or the envelope it opened was replaced by one with another owner, and both owners
  were let in. What is proved of the clients on `Service` thus holds, as far as
  registrations and logins go, on the handlers as they are.
* **`ClientsProofs`.** `ClientsInd` follows a token from the password that earned it to what
  is put with it (`SessionsEarned`, `HaircutsEarned`), keeps in `since` whatever is on file once the script's
  put has been stored (`PutsAreRecorded`), says what the form's label and its one
  pending call stand for (`FormKeepsUp`), and that the script's account is as the script left
  it if nobody meddles (`ScriptInOrder`, `ScriptGoesWell`).
* **`ResourceProofs`.** `ResourceInd` says that while a request that has been alone is
  about to test `err`, `err` is its own (`ErrIsOwn`), and that wherever a failed
  request may find `err` nil some request has passed (`ErrIsClearedByAPass`). What the
  auth server does is a frame lemma.
* **`IndexProofs`.** Names are texts of any length with colons anywhere. First, what
  concatenation does to a key (`EnvelopeShape`, `SecretShape`, `PlainKeys`), what the two scans
  find (`SecretsFound`, `UsernamesFound`: only plain names, read off keys that are there) and what
  they never miss (`SecretIsFound`, `EnvelopeIsFound`). Then `PageInd`: every key was put there for an
  app token or an account (`KeysAreKnown`), which is what tells whose name a shared key
  carries, and what the page is expected to show has been shown or is still ahead of it (`ExpectedIsAhead`).

**Only model-checked:** liveness (`RunsFinish`, `LoginsFinish`, `RequestsAnswered`,
`ClicksAreAnswered`, `ScriptEnds`, `PageIsAnswered`), which needs fairness and is out of the
prover's reach.

## Not modelled

* The wire codecs: hand-written JSON of each message, pure functions on byte strings
  that keep nothing and decide nothing; the same for decoding in the bindings and the
  field-by-field copying in the SDK's message classes.
* CORS, health, logging, static files, the SPA server, the key generator, the generated
  bindings, build files: no property of the modelled parts depends on them.
* The times: only that a session may have expired, not when. Hence nothing is said of the
  expiry `/check-credentials` reports, which no caller in the repository reads.
* The order of a graceful shutdown, in which handlers get five seconds to end: what it
  leaves is what some crash leaves, and the crash is modelled. The channel of serving errors ends
  the process the same way.
* A server key that changes between two starts: the key is one constant. With another
  key every envelope on file would be refused, which needs no model.
* Clients other than those in the repository: a finalize request for an account its sender
  has not reserved, or with a token or an envelope the bindings did not make.
* A request to register that reaches its handler twice. A browser or proxy that sends
  `/start_password_registration` again is one more run, whose answer nobody reads;
  `/finalize_password_registration` sent again loads the reservation once more and files the
  envelope with it. Only the second login request is sent again in the model
  (`ResendToken`), where a second copy is accepted by design.
* Characters with a meaning to KEYS other than the star of the wrapper itself.

## Plan

Done: registration, authentication and the resource server with their abstract
specifications; their composition in one server, and that it implements the service the
clients are modelled on; the index page with its key format; the clients; proofs of every
safety property and every refinement that a run checks. Left, in this order:

1. `Service` as an abstraction of `ResourceServer` too. What is in the way is `err`: whether a
   check took effect is decided by what the other request assigns before it is tested, so a call
   of `Service` would have to take effect in hindsight.
2. Session leases with a clock: when a token that is sent again ends, and what the
   reported expiry is worth to a resource server that would read it.
