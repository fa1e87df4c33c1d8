--------------------------------- MODULE IndexPage ---------------------------------
(***********************************************************************************)
(* The index page of the auth server, and the keys it reads names back from.        *)
(*                                                                                  *)
(* The Redis wrapper joins a prefix, an app token, a username and a suffix with     *)
(* colons, and the page splits what KEYS returns at colons again.  Text matters only *)
(* by its colons, so a text is the sequence of the parts between them: joining is    *)
(* concatenation, and a name with a colon in it is a sequence of two.                *)
(***********************************************************************************)
EXTENDS Naturals, Sequences, FiniteSets

CONSTANTS
  Parts,       \* what there may be between two colons
  AppTokens,   \* app tokens a client may send, each a sequence of parts
  Usernames,   \* likewise
  Configs,     \* the app tokens a configuration file may name
  Persistent,  \* TRUE: an external Redis; FALSE: miniredis inside the process
  Faults       \* the faults that may happen: "redis", "restart"

Names == AppTokens \cup Usernames

ASSUME IndexPageAssumption ==
  /\ {"reg", "envelope", "app_secrets", "secret"} \subseteq Parts
  /\ Names \subseteq Seq(Parts) /\ <<>> \notin Names
  /\ Configs \subseteq SUBSET AppTokens
  /\ Persistent \in BOOLEAN
  /\ Faults \subseteq {"redis", "restart"}

VARIABLES
  keys,       \* the keys app_secrets:*:secret and reg:*:*:envelope in Redis
  page,       \* where the request for the page stands
  tokens,     \* the app tokens it has yet to go through
  token,      \* the one it is at
  usernames,  \* the usernames under it that it has yet to load
  shown,      \* the headings written so far: an app token and a username each
  registered, \* history: the accounts that have been registered
  expected    \* history: the accounts on file when the request began

vars == <<keys, page, tokens, token, usernames, shown, registered, expected>>

-----------------------------------------------------------------------------
(* The Redis wrapper.                                                        *)

UserEnvelopeKey(t, u) == <<"reg">> \o t \o u \o <<"envelope">>
AppSecretKey(t) == <<"app_secrets">> \o t \o <<"secret">>

\* KEYS before:*:after, where * stands for any text, colons included.
Matching(before, after) ==
  {k \in keys :
     /\ Len(k) > Len(before) + Len(after)
     /\ SubSeq(k, 1, Len(before)) = before
     /\ SubSeq(k, Len(k) - Len(after) + 1, Len(k)) = after}

\* GetAllAppTokens and GetAllUsernamesFromEnvelopes: for every key that is found, the
\* second and the third of its parts.
AllAppTokens ==
  {[from |-> k, name |-> <<k[2]>>] : k \in Matching(<<"app_secrets">>, <<"secret">>)}
AllUsernames(t) ==
  {[from |-> k, name |-> <<k[3]>>] : k \in Matching(<<"reg">> \o t, <<"envelope">>)}

-----------------------------------------------------------------------------
Answers == {"listed", "missing", "redisError"}   \* the last two are a 500
PageStages == {"idle", "tokens", "envelopes"} \cup Answers

Init ==
  /\ \E config \in Configs : keys = {AppSecretKey(t) : t \in config}
  /\ page = "idle"
  /\ tokens = {} /\ token = <<>> /\ usernames = {} /\ shown = {}
  /\ registered = {} /\ expected = {}

Text == Seq(Parts)
Found == [from : Text, name : Text]   \* a key that KEYS returned and the name read off it

TypeOK ==
  /\ keys \subseteq Text
  /\ page \in PageStages
  /\ tokens \subseteq Found /\ usernames \subseteq Found
  /\ token \in Text
  /\ shown \subseteq Text \X Text
  /\ registered \subseteq AppTokens \X Usernames
  /\ expected \subseteq AppTokens \X Usernames

reading == <<tokens, token, usernames>>
history == <<registered, expected>>

IsPlain(name) == Len(name) = 1

\* The accounts a reader of the page expects on it.
OnFile ==
  {r \in registered : /\ IsPlain(r[1]) /\ IsPlain(r[2])
                      /\ AppSecretKey(r[1]) \in keys
                      /\ UserEnvelopeKey(r[1], r[2]) \in keys}

-----------------------------------------------------------------------------
(* handleIndex.                                                              *)

OpenPage ==
  /\ page \in {"idle"} \cup Answers
  /\ page' = "tokens"
  /\ shown' = {}
  /\ expected' = OnFile
  /\ UNCHANGED <<keys, reading, registered>>

RedisFails ==
  /\ "redis" \in Faults
  /\ page' = "redisError"
  /\ UNCHANGED <<reading, shown>>

ListAppTokens ==
  /\ page = "tokens"
  /\ \/ /\ tokens' = AllAppTokens
        /\ usernames' = {}
        /\ page' = "envelopes"
        /\ UNCHANGED <<token, shown>>
     \/ RedisFails
  /\ UNCHANGED <<keys, history>>

\* KEYS returns in no particular order.
ListUsernames ==
  /\ page = "envelopes"
  /\ usernames = {}
  /\ \E t \in tokens :
       \/ /\ tokens' = tokens \ {t}
          /\ token' = t.name
          /\ usernames' = AllUsernames(t.name)
          /\ UNCHANGED <<page, shown>>
       \/ RedisFails
  /\ UNCHANGED <<keys, history>>

\* Mutation: the username before the app token.
LoadUserEnvelopeSwapped ==
  /\ page = "envelopes"
  /\ \E u \in usernames :
       \/ /\ UserEnvelopeKey(u.name, token) \in keys
          /\ shown' = shown \cup {<<token, u.name>>}
          /\ usernames' = usernames \ {u}
          /\ UNCHANGED <<page, tokens, token>>
       \/ /\ UserEnvelopeKey(u.name, token) \notin keys
          /\ page' = "missing"
          /\ UNCHANGED <<reading, shown>>
  /\ UNCHANGED <<keys, history>>

\* Mutation: the envelope is read under the key that was found.
LoadUserEnvelopeFound ==
  /\ page = "envelopes"
  /\ \E u \in usernames :
       /\ shown' = shown \cup {<<token, u.name>>}
       /\ usernames' = usernames \ {u}
  /\ UNCHANGED <<keys, page, tokens, token, history>>

\* Mutation: the other usernames of an app token are skipped after the first.
LoadUserEnvelopeOnce ==
  /\ page = "envelopes"
  /\ \E u \in usernames :
       /\ UserEnvelopeKey(token, u.name) \in keys
       /\ shown' = shown \cup {<<token, u.name>>}
       /\ usernames' = {}
  /\ UNCHANGED <<keys, page, tokens, token, history>>

\* Mutation: a name without an envelope is tried again.
LoadUserEnvelopeAgain ==
  /\ page = "envelopes"
  /\ \E u \in usernames :
       /\ UserEnvelopeKey(token, u.name) \in keys
       /\ shown' = shown \cup {<<token, u.name>>}
       /\ usernames' = usernames \ {u}
  /\ UNCHANGED <<keys, page, tokens, token, history>>

\* The envelope is loaded under the key made of the names shown; the page is given
\* up when there is none.
LoadUserEnvelope ==
  /\ page = "envelopes"
  /\ \E u \in usernames :
       LET key == UserEnvelopeKey(token, u.name) IN
       \/ /\ key \in keys
          /\ shown' = shown \cup {<<token, u.name>>}
          /\ usernames' = usernames \ {u}
          /\ UNCHANGED <<page, tokens, token>>
       \/ /\ key \notin keys
          /\ page' = "missing"
          /\ UNCHANGED <<reading, shown>>
       \/ RedisFails
  /\ UNCHANGED <<keys, history>>

AnswerPage ==
  /\ page = "envelopes"
  /\ tokens = {} /\ usernames = {}
  /\ page' = "listed"
  /\ UNCHANGED <<keys, reading, shown, history>>

-----------------------------------------------------------------------------
(* Around the page.                                                          *)

\* StoreUserData, for whatever app token and username the client sends; an account
\* that is enrolled is closed.
Register(t, u) ==
  /\ UserEnvelopeKey(t, u) \notin keys
  /\ keys' = keys \cup {UserEnvelopeKey(t, u)}
  /\ registered' = registered \cup {<<t, u>>}
  /\ UNCHANGED <<page, reading, shown, expected>>

\* mainErr stores a secret for every app token of the configuration, which may be
\* another one by now, and removes none.
Restart ==
  /\ "restart" \in Faults
  /\ \E config \in Configs :
       keys' = (IF Persistent THEN keys ELSE {}) \cup {AppSecretKey(t) : t \in config}
  /\ page' = "idle"
  /\ UNCHANGED <<reading, shown, history>>

PageStep == ListAppTokens \/ ListUsernames \/ LoadUserEnvelope \/ AnswerPage

Next ==
  \/ OpenPage
  \/ PageStep
  \/ \E t \in AppTokens, u \in Usernames : Register(t, u)
  \/ Restart

Spec == Init /\ [][Next]_vars

\* The goroutine of a request is run; nobody has to ask for the page.
FairSpec == Spec /\ WF_vars(PageStep)

-----------------------------------------------------------------------------
(* Properties.                                                               *)

\* Whatever colons there are in names, and though names are read back from keys that
\* other names may share, nothing is shown under a name nobody registered.
ShownIsRegistered == shown \subseteq registered

\* A page that is answered shows every account on file when it was asked for whose
\* name and app token have no colon, whatever is registered meanwhile.
EveryoneIsShown == page = "listed" => expected \subseteq shown

\* The page comes to nothing, on a healthy Redis, only because somebody registered
\* with a colon; one such name is enough to take the page from everybody.
MissingForColons ==
  page = "missing" => \E r \in registered : ~IsPlain(r[1]) \/ ~IsPlain(r[2])

\* Every request for the page is answered, unless the process dies.
PageIsAnswered == page = "tokens" ~> page \in Answers \cup {"idle"}

-----------------------------------------------------------------------------
(* The inductive invariant behind the safety properties.                     *)

\* Every key that KEYS may return was put there for an app token or an account.
KeysAreKnown ==
  \A k \in keys :
    \/ \E t \in AppTokens : k = AppSecretKey(t)
    \/ \E r \in registered : k = UserEnvelopeKey(r[1], r[2])

\* What is read back between two colons has no colon.
NamesArePlain ==
  /\ \A t \in tokens : IsPlain(t.name)
  /\ \A u \in usernames : IsPlain(u.name) /\ IsPlain(token)

\* The names still to be loaded were read off keys that are still there.
NamesAreOnFile == page = "envelopes" => usernames \subseteq AllUsernames(token)

\* Nothing the page is expected to show goes away while it is put together ...
ExpectedIsOnFile == page \in {"tokens", "envelopes"} => expected \subseteq OnFile

\* ... and it has been shown, or is yet to come: under this app token or a later one.
ExpectedIsAhead ==
  page = "envelopes" =>
    \A r \in expected :
      \/ r \in shown
      \/ token = r[1] /\ \E u \in usernames : u.name = r[2]
      \/ \E t \in tokens : t.name = r[1]

PageInd ==
  /\ TypeOK
  /\ KeysAreKnown
  /\ NamesArePlain
  /\ NamesAreOnFile
  /\ ExpectedIsOnFile
  /\ ExpectedIsAhead
  /\ ShownIsRegistered
  /\ EveryoneIsShown
  /\ MissingForColons
=====================================================================================
