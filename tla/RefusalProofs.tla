-------------------------------- MODULE RefusalProofs --------------------------------
(***********************************************************************************)
(* Why a login fails when nothing goes wrong: the proof that a refusal has a cause, *)
(* for any finite set of logins and any number of nonces kept.  The list of nonces  *)
(* is what makes it hard: a nonce that is missing has been pushed out, and the      *)
(* nonces that pushed it out are those of so many other logins.                     *)
(***********************************************************************************)
EXTENDS AuthenticationProofs, FiniteSetTheorems

USE DEF LoginMoves, ServingMoves

\* Challenged after a step, of a login named before it.
StillChallenged(m) == serving'[m] \notin {"loadEnvelope", "pushNonce"} /\ seen'[m] # NoEnvelope

\* What is left of Next when there are no faults: nobody leaves before the answer.
LEMMA QuietNext ==
  ASSUME Faults = {}, CauseInd, [Next]_vars
  PROVE  \/ \E a \in Accounts, e \in Envelopes : FileEnvelope(a, e)
         \/ \E l \in Logins : BeginLogin(l) \/ ClientStep(l) \/ HandlerStep(l)
         \/ \E a \in Accounts : ExpireSession(a)
         \/ UNCHANGED vars
<1>1. ASSUME NEW l \in Logins PROVE ~BodyCutShort(l)
  BY DEF BodyCutShort, CauseInd, RefusalsHaveCause
<1> QED
  BY <1>1 DEF Next, LoseConnection, LoseReply, ResendToken, Restart, Crash, Finished

\* Nobody has left a login the server is still busy with, so its commands succeed.
LEMMA CommandsSucceed ==
  ASSUME Faults = {}, CauseInd, NEW l \in Logins, serving[l] # "none"
  PROVE  login[l] # "failed" /\ ~RedisMayFail(l)
BY DEF CauseInd, RefusalsHaveCause, RedisMayFail

-----------------------------------------------------------------------------
(* What stays as it is.                                                      *)

\* A challenge is not taken back, and who is refused or has failed keeps to the
\* account, the password and the envelope it was refused for.
LEMMA InputsStay ==
  ASSUME Faults = {}, AuthInd, CauseInd, [Next]_vars, NEW m \in Logins,
         Challenged(m) \/ login[m] = "failed" \/ serving[m] \in Refusals
  PROVE  /\ UNCHANGED <<user[m], secret[m], seen[m]>>
         /\ Challenged(m) => Challenged(m)'
<1> USE DEF AuthInd, TypeOK, store, inputs, local, history, Challenged
<1>1. ASSUME NEW l \in Logins, BeginLogin(l)
      PROVE  UNCHANGED <<user[m], secret[m], seen[m]>> /\ (Challenged(m) => Challenged(m)')
  <2>1. l # m
    BY <1>1 DEF BeginLogin, StagesAgree, Refusals
  <2> QED
    BY <1>1, <2>1 DEF BeginLogin
<1>2. ASSUME NEW l \in Logins, ClientStep(l)
      PROVE  UNCHANGED <<user[m], secret[m], seen[m]>> /\ (Challenged(m) => Challenged(m)')
  BY <1>2 DEF ClientStep, ReceiveChallenge, SendToken, ReceiveAccepted, ReceiveRefusal
<1>3. ASSUME NEW l \in Logins, HandlerStep(l)
      PROVE  UNCHANGED <<user[m], secret[m], seen[m]>> /\ (Challenged(m) => Challenged(m)')
  <2>1. CASE LoadUserEnvelope(l)
    <3>1. l # m
      BY <2>1 DEF LoadUserEnvelope, CauseInd, RefusalsHaveCause, Refusals
    <3> QED
      BY <2>1, <3>1 DEF LoadUserEnvelope
  <2>2. CASE PushNonce(l) \/ TrimNonces(l) \/ FindNonce(l) \/ VerifyToken(l) \/ StoreSessionToken(l)
    BY <2>2 DEF PushNonce, TrimNonces, FindNonce, VerifyToken, StoreSessionToken
  <2> QED
    BY <1>3, <2>1, <2>2 DEF HandlerStep
<1> QED
  BY <1>1, <1>2, <1>3, QuietNext DEF FileEnvelope, ExpireSession, vars

\* A cause stays a cause: rivals do not go away, and no run files its envelope a
\* second time.
LEMMA CauseStays ==
  ASSUME Faults = {}, IsFiniteSet(Logins), AuthInd, CauseInd, [Next]_vars,
         NEW l \in Logins, HasCause(l), UNCHANGED <<user[l], secret[l], seen[l]>>,
         user[l] \in Accounts
  PROVE  HasCause(l)'
<1>1. CASE seen[l] = NoEnvelope \/ ~Opens(seen[l], secret[l])
  BY <1>1 DEF HasCause
<1>2. CASE seen[l] # NoEnvelope /\ envelope[user[l]].owner # seen[l].owner
  <2>1. <<user[l], seen[l]>> \in filed
    BY <1>2 DEF AuthInd, SeenIsFiled
  <2>2. ASSUME NEW a \in Accounts, NEW e \in Envelopes, FileEnvelope(a, e)
        PROVE  envelope'[user[l]].owner # seen[l].owner
    <3>1. e.owner # seen[l].owner
      BY <2>1, <2>2 DEF FileEnvelope
    <3> QED
      BY <1>2, <2>2, <3>1 DEF FileEnvelope, AuthInd, TypeOK
  <2>3. envelope' = envelope \/ \E a \in Accounts, e \in Envelopes : FileEnvelope(a, e)
    BY QuietNext DEF vars, store, BeginLogin, ClientStep, ReceiveChallenge, SendToken,
       ReceiveAccepted, ReceiveRefusal, HandlerStep, LoadUserEnvelope, PushNonce, TrimNonces,
       FindNonce, VerifyToken, StoreSessionToken, ExpireSession
  <2>4. envelope'[user[l]].owner # seen[l].owner
    BY <1>2, <2>2, <2>3
  <2> QED
    BY <2>4 DEF HasCause
<1>3. CASE Cardinality(Rivals(l)) > MaxNonces
  <2>1. \A m \in Logins : Challenged(m) => user'[m] = user[m] /\ Challenged(m)'
    BY InputsStay
  <2>2. Rivals(l) \subseteq Rivals(l)'
    BY <2>1 DEF Rivals
  <2>3. Rivals(l)' \subseteq Logins
    BY DEF Rivals
  <2>4. IsFiniteSet(Rivals(l)')
    BY <2>3, FS_Subset
  <2>5. /\ Cardinality(Rivals(l)) <= Cardinality(Rivals(l)')
        /\ Cardinality(Rivals(l)') \in Nat /\ Cardinality(Rivals(l)) \in Nat
    BY <2>2, <2>4, FS_Subset, FS_CardinalityType
  <2>6. Cardinality(Rivals(l)') > MaxNonces
    BY <1>3, <2>5, AuthenticationAssumption
  <2>7. Cardinality(Rivals(l))' = Cardinality(Rivals(l)')
    OBVIOUS
  <2> QED
    BY <2>6, <2>7 DEF HasCause
<1> QED
  BY <1>1, <1>2, <1>3 DEF HasCause

-----------------------------------------------------------------------------
(* The list of nonces.                                                       *)

Lists == NoncesAreDistinct /\ NoncesAreKept

\* Where no nonce is pushed or cut and no challenge is given, the lists stay right.
LEMMA ListsStay ==
  ASSUME TypeOK, Lists, nonces' = nonces,
         \A m \in Logins : Challenged(m)' <=> Challenged(m),
         \A m \in Logins : Challenged(m) => user'[m] = user[m]
  PROVE  Lists'
<1>1. \A a \in Accounts : \A i \in 1..Len(nonces[a]) : nonces[a][i] \in Logins
  BY DEF TypeOK
<1>2. NoncesAreDistinct'
  BY <1>1 DEF Lists, NoncesAreDistinct
<1>3. NoncesAreKept'
  BY DEF Lists, NoncesAreKept
<1> QED
  BY <1>2, <1>3 DEF Lists

\* A push puts a nonce in front that was not in the list.
LEMMA PushKeepsLists ==
  ASSUME Faults = {}, AuthInd, CauseInd, NEW l \in Logins, PushNonce(l)
  PROVE  Lists'
<1> DEFINE t == nonces[user[l]]
           new == <<l>> \o t
<1>1. /\ user[l] \in Accounts /\ seen[l] # NoEnvelope
      /\ serving[l] = "pushNonce"
  BY DEF AuthInd, StagesAgree, SeenIsFiled, PushNonce
<1>2. ~RedisMayFail(l)
  BY <1>1, CommandsSucceed
<1>3. t \in Seq(Logins) /\ Len(t) \in Nat /\ \A i \in 1..Len(t) : t[i] \in Logins
  BY <1>1 DEF AuthInd, TypeOK
<1>4. /\ Len(new) = Len(t) + 1
      /\ new[1] = l
      /\ \A i \in 1..Len(t) : new[i + 1] = t[i]
  <2>1. <<l>> \in Seq(Logins) /\ Len(<<l>>) = 1 /\ <<l>>[1] = l
    OBVIOUS
  <2>2. /\ Len(new) = 1 + Len(t)
        /\ \A i \in 1..1 + Len(t) : new[i] = IF i <= 1 THEN <<l>>[i] ELSE t[i - 1]
    BY <1>3, <2>1, ConcatProperties
  <2> HIDE DEF new, t
  <2> QED
    BY <1>3, <2>1, <2>2
<1>5. \A i \in 1..Len(new) : i # 1 => i - 1 \in 1..Len(t) /\ new[i] = t[i - 1]
  <2> HIDE DEF new, t
  <2> SUFFICES ASSUME NEW i \in 1..Len(new), i # 1
               PROVE  i - 1 \in 1..Len(t) /\ new[i] = t[i - 1]
    OBVIOUS
  <2>1. i - 1 \in 1..Len(t) /\ (i - 1) + 1 = i
    BY <1>3, <1>4
  <2> QED
    BY <1>4, <2>1
<1>6. nonces' = [nonces EXCEPT ![user[l]] = new] /\ UNCHANGED user
  BY <1>2 DEF PushNonce, Pushed, local, inputs
<1>7. nonces'[user[l]] = new /\ \A a \in Accounts \ {user[l]} : nonces'[a] = nonces[a]
  BY <1>1, <1>6 DEF AuthInd, TypeOK
<1>8. /\ ~Challenged(l) /\ StillChallenged(l)
      /\ \A m \in Logins \ {l} : StillChallenged(m) <=> Challenged(m)
  BY <1>1, <1>2 DEF AuthInd, TypeOK, PushNonce, Challenged, StillChallenged, local
<1>9. /\ \A a \in Accounts : \A i \in 1..Len(nonces[a]) : nonces[a][i] \in Logins
      /\ NoncesAreDistinct /\ NoncesAreKept
  BY DEF AuthInd, TypeOK, CauseInd
<1>10. \A i \in 1..Len(t) : t[i] # l /\ user[t[i]] = user[l] /\ StillChallenged(t[i])
  BY <1>1, <1>3, <1>8, <1>9 DEF NoncesAreDistinct
<1> HIDE DEF new
<1>11. NoncesAreDistinct'
  <2> SUFFICES ASSUME NEW a \in Accounts
               PROVE  /\ \A i \in 1..Len(nonces'[a]) : user[nonces'[a][i]] = a /\ StillChallenged(nonces'[a][i])
                      /\ \A i, j \in 1..Len(nonces'[a]) : nonces'[a][i] = nonces'[a][j] => i = j
    BY <1>6 DEF NoncesAreDistinct, Challenged, StillChallenged
  <2>1. CASE a = user[l]
    <3>1. \A i \in 1..Len(new) : user[new[i]] = a /\ StillChallenged(new[i])
      BY <1>4, <1>5, <1>8, <1>10, <2>1
    <3>2. \A i, j \in 1..Len(t) : t[i] = t[j] => i = j
      BY <1>1, <1>9 DEF NoncesAreDistinct
    <3> HIDE DEF t
    <3>3. \A i, j \in 1..Len(new) : new[i] = new[j] => i = j
      <4> SUFFICES ASSUME NEW i \in 1..Len(new), NEW j \in 1..Len(new), new[i] = new[j]
                   PROVE  i = j
        OBVIOUS
      <4>1. CASE i = 1 \/ j = 1
        BY <1>4, <1>5, <1>10, <4>1
      <4>2. CASE i # 1 /\ j # 1
        <5>1. i - 1 = j - 1
          BY <1>5, <3>2, <4>2
        <5> QED
          BY <5>1, <1>3, <1>4
      <4> QED
        BY <4>1, <4>2
    <3> QED
      BY <1>7, <2>1, <3>1, <3>3
  <2>2. CASE a # user[l]
    <3>1. nonces'[a] = nonces[a]
      BY <1>7, <2>2
    <3>2. \A i \in 1..Len(nonces[a]) : nonces[a][i] # l /\ nonces[a][i] \in Logins
      BY <1>8, <1>9, <2>2 DEF NoncesAreDistinct
    <3> QED
      BY <1>8, <1>9, <3>1, <3>2 DEF NoncesAreDistinct
  <2> QED
    BY <2>1, <2>2
<1>12. NoncesAreKept'
  <2> SUFFICES ASSUME NEW m \in Logins, StillChallenged(m)
               PROVE  \/ \E i \in 1..Len(nonces'[user[m]]) : nonces'[user[m]][i] = m
                      \/ Len(nonces'[user[m]]) > MaxNonces
    BY <1>6 DEF NoncesAreKept, Challenged, StillChallenged
  <2>1. CASE m = l
    BY <1>3, <1>4, <1>7, <2>1
  <2>2. CASE m # l /\ user[m] = user[l]
    <3>1. (\E i \in 1..Len(t) : t[i] = m) \/ Len(t) > MaxNonces
      BY <1>8, <1>9, <2>2 DEF NoncesAreKept
    <3> HIDE DEF t
    <3>2. ASSUME NEW i \in 1..Len(t), t[i] = m PROVE \E k \in 1..Len(new) : new[k] = m
      <4>1. i + 1 \in 1..Len(new)
        BY <1>3, <1>4
      <4> QED
        BY <1>4, <3>2, <4>1
    <3>3. Len(t) > MaxNonces => Len(new) > MaxNonces
      BY <1>3, <1>4, AuthenticationAssumption
    <3> QED
      BY <1>7, <2>2, <3>1, <3>2, <3>3
  <2>3. CASE m # l /\ user[m] # user[l]
    <3>1. user[m] \in Accounts
      BY <1>8, <2>3 DEF AuthInd, StagesAgree, Challenged
    <3> QED
      BY <1>7, <1>8, <1>9, <2>3, <3>1 DEF NoncesAreKept
  <2> QED
    BY <2>1, <2>2, <2>3
<1> QED
  BY <1>11, <1>12 DEF Lists

\* A cut leaves the front of the list, and where it takes something, a full list.
LEMMA TrimKeepsLists ==
  ASSUME Faults = {}, AuthInd, CauseInd, NEW l \in Logins, TrimNonces(l)
  PROVE  Lists'
<1> DEFINE t == nonces[user[l]]
           new == UpToIndex(t, MaxNonces)
<1>1. /\ user[l] \in Accounts /\ seen[l] # NoEnvelope
      /\ serving[l] = "trimNonces"
  BY DEF AuthInd, StagesAgree, SeenIsFiled, TrimNonces
<1>2. ~RedisMayFail(l)
  BY <1>1, CommandsSucceed
<1>3. t \in Seq(Logins) /\ Len(t) \in Nat /\ MaxNonces \in Nat
  BY <1>1, AuthenticationAssumption DEF AuthInd, TypeOK
<1>4. /\ Len(new) = IF MaxNonces < Len(t) THEN MaxNonces + 1 ELSE Len(t)
      /\ \A i \in 1..Len(new) : new[i] = t[i]
  BY <1>3, UpToIndexProperties
<1>5. nonces' = [nonces EXCEPT ![user[l]] = new] /\ UNCHANGED user
  BY <1>2 DEF TrimNonces, Trimmed, local, inputs
<1>6. nonces'[user[l]] = new /\ \A a \in Accounts \ {user[l]} : nonces'[a] = nonces[a]
  BY <1>1, <1>5 DEF AuthInd, TypeOK
<1>7. \A m \in Logins : StillChallenged(m) <=> Challenged(m)
  BY <1>1, <1>2 DEF AuthInd, TypeOK, TrimNonces, Challenged, StillChallenged, local
<1>8. /\ \A a \in Accounts : \A i \in 1..Len(nonces[a]) : nonces[a][i] \in Logins
      /\ NoncesAreDistinct /\ NoncesAreKept
  BY DEF AuthInd, TypeOK, CauseInd
<1> HIDE DEF new
<1>9. \A i \in 1..Len(new) : i \in 1..Len(t)
  <2> HIDE DEF t
  <2> QED
    BY <1>3, <1>4
<1>10. NoncesAreDistinct'
  <2> SUFFICES ASSUME NEW a \in Accounts
               PROVE  /\ \A i \in 1..Len(nonces'[a]) : user[nonces'[a][i]] = a /\ StillChallenged(nonces'[a][i])
                      /\ \A i, j \in 1..Len(nonces'[a]) : nonces'[a][i] = nonces'[a][j] => i = j
    BY <1>5 DEF NoncesAreDistinct, Challenged, StillChallenged
  <2>1. CASE a = user[l]
    BY <1>4, <1>6, <1>7, <1>8, <1>9, <2>1 DEF NoncesAreDistinct
  <2>2. CASE a # user[l]
    BY <1>6, <1>7, <1>8, <2>2 DEF NoncesAreDistinct
  <2> QED
    BY <2>1, <2>2
<1>11. NoncesAreKept'
  <2> SUFFICES ASSUME NEW m \in Logins, Challenged(m)
               PROVE  \/ \E i \in 1..Len(nonces'[user[m]]) : nonces'[user[m]][i] = m
                      \/ Len(nonces'[user[m]]) > MaxNonces
    BY <1>5, <1>7 DEF NoncesAreKept, Challenged, StillChallenged
  <2>1. CASE user[m] = user[l]
    <3>1. (\E i \in 1..Len(t) : t[i] = m) \/ Len(t) > MaxNonces
      BY <1>8, <2>1 DEF NoncesAreKept
    <3> HIDE DEF t
    <3>2. CASE Len(t) > MaxNonces
      BY <1>3, <1>4, <1>6, <2>1, <3>2
    <3>3. CASE ~(Len(t) > MaxNonces)
      <4>1. Len(new) = Len(t)
        BY <1>3, <1>4, <3>3
      <4> QED
        BY <1>4, <1>6, <2>1, <3>1, <3>3, <4>1
    <3> QED
      BY <3>2, <3>3
  <2>2. CASE user[m] # user[l]
    <3>1. user[m] \in Accounts
      BY DEF AuthInd, StagesAgree, Challenged
    <3> QED
      BY <1>6, <1>8, <2>2, <3>1 DEF NoncesAreKept
  <2> QED
    BY <2>1, <2>2
<1> QED
  BY <1>10, <1>11 DEF Lists

\* A nonce HasAuthNonce does not find has been pushed out by more than MaxNonces others.
LEMMA PushedOutByRivals ==
  ASSUME IsFiniteSet(Logins), AuthInd, Lists,
         NEW l \in Logins, Challenged(l), ~NonceKnown(l)
  PROVE  Cardinality(Rivals(l)) > MaxNonces
<1> DEFINE t == nonces[user[l]]
           recent == UpToIndex(t, MaxNonces)
           n == MaxNonces + 1
           f == [i \in 1..n |-> t[i]]
<1>1. user[l] \in Accounts
  BY DEF AuthInd, StagesAgree, Challenged
<1>2. t \in Seq(Logins) /\ Len(t) \in Nat /\ MaxNonces \in Nat
  BY <1>1, AuthenticationAssumption DEF AuthInd, TypeOK
<1>3. /\ Len(recent) = IF MaxNonces < Len(t) THEN n ELSE Len(t)
      /\ \A i \in 1..Len(recent) : recent[i] = t[i]
  BY <1>2, UpToIndexProperties
<1>4. \A i \in 1..Len(recent) : t[i] # l
  BY <1>3 DEF NonceKnown
<1>5. (\E i \in 1..Len(t) : t[i] = l) \/ Len(t) > MaxNonces
  BY DEF Lists, NoncesAreKept
<1>6. \A i \in 1..Len(t) : t[i] \in Logins /\ user[t[i]] = user[l] /\ Challenged(t[i])
  BY <1>1, <1>2 DEF Lists, NoncesAreDistinct
<1>7. \A i, j \in 1..Len(t) : t[i] = t[j] => i = j
  BY <1>1 DEF Lists, NoncesAreDistinct
<1> HIDE DEF t, recent
<1>8. Len(t) > MaxNonces /\ Len(recent) = n /\ \A i \in 1..n : i \in 1..Len(t)
  <2>1. Len(t) > MaxNonces
    BY <1>2, <1>3, <1>4, <1>5
  <2> QED
    BY <1>2, <1>3, <2>1
<1>9. f \in Injection(1..n, Rivals(l))
  <2>1. \A i \in 1..n : t[i] \in Rivals(l)
    BY <1>4, <1>6, <1>8 DEF Rivals
  <2>2. \A i, j \in 1..n : t[i] = t[j] => i = j
    BY <1>7, <1>8
  <2> QED
    BY <2>1, <2>2 DEF Injection, IsInjective
<1>10. IsFiniteSet(Rivals(l))
  <2>1. Rivals(l) \subseteq Logins
    BY DEF Rivals
  <2> QED
    BY <2>1, FS_Subset
<1>11. Cardinality(1..n) <= Cardinality(Rivals(l)) /\ Cardinality(Rivals(l)) \in Nat
  <2> HIDE DEF f, n
  <2> QED
    BY <1>9, <1>10, FS_Injection, FS_CardinalityType
<1>12. Cardinality(1..n) = n
  BY <1>2, FS_Interval
<1> QED
  BY <1>2, <1>11, <1>12

-----------------------------------------------------------------------------
(* Every step.                                                               *)

LEMMA NextKeepsLists ==
  ASSUME Faults = {}, AuthInd, CauseInd, [Next]_vars
  PROVE  Lists'
<1>1. TypeOK /\ Lists
  BY DEF AuthInd, CauseInd, Lists
<1>2. \A m \in Logins : Challenged(m) => user'[m] = user[m] /\ Challenged(m)'
  BY InputsStay
<1>3. ASSUME NEW l \in Logins, BeginLogin(l) PROVE Lists'
  <2>1. nonces' = nonces /\ \A m \in Logins : Challenged(m)' => Challenged(m)
    BY <1>1, <1>3 DEF BeginLogin, TypeOK, store, Challenged
  <2> QED
    BY <1>1, <1>2, <2>1, ListsStay
<1>4. ASSUME NEW l \in Logins, ClientStep(l) PROVE Lists'
  <2>1. nonces' = nonces /\ \A m \in Logins : Challenged(m)' => Challenged(m)
    BY <1>1, <1>4
       DEF AuthInd, StagesAgree, ClientStep, ReceiveChallenge, SendToken, ReceiveAccepted, ReceiveRefusal,
           Refusals, TypeOK, store, local, Challenged
  <2> QED
    BY <1>1, <1>2, <2>1, ListsStay
<1>5. ASSUME NEW l \in Logins, HandlerStep(l) PROVE Lists'
  <2>1. CASE LoadUserEnvelope(l)
    <3>1. nonces' = nonces /\ \A m \in Logins : Challenged(m)' => Challenged(m)
      BY <1>1, <2>1 DEF AuthInd, StagesAgree, LoadUserEnvelope, TypeOK, store, Challenged
    <3> QED
      BY <1>1, <1>2, <3>1, ListsStay
  <2>2. CASE FindNonce(l) \/ VerifyToken(l) \/ StoreSessionToken(l)
    <3>1. nonces' = nonces /\ \A m \in Logins : Challenged(m)' => Challenged(m)
      BY <1>1, <2>2 DEF FindNonce, VerifyToken, StoreSessionToken, TypeOK, store, local, Challenged
    <3> QED
      BY <1>1, <1>2, <3>1, ListsStay
  <2> QED
    BY <1>5, <2>1, <2>2, PushKeepsLists, TrimKeepsLists DEF HandlerStep
<1>6. CASE \/ \E a \in Accounts, e \in Envelopes : FileEnvelope(a, e)
           \/ \E a \in Accounts : ExpireSession(a)
           \/ UNCHANGED vars
  <2>1. nonces' = nonces /\ \A m \in Logins : Challenged(m)' => Challenged(m)
    BY <1>6 DEF FileEnvelope, ExpireSession, vars, local, Challenged
  <2> QED
    BY <1>1, <1>2, <2>1, ListsStay
<1> QED
  BY <1>3, <1>4, <1>5, <1>6, QuietNext

\* A step that refuses a login, or fails it, has a reason to.
LEMMA RefusingHasCause ==
  ASSUME Faults = {}, IsFiniteSet(Logins), AuthInd, CauseInd, [Next]_vars, NEW l \in Logins,
         serving'[l] \in Refusals \/ login'[l] = "failed"
  PROVE  /\ HasCause(l) /\ user[l] \in Accounts
         /\ UNCHANGED <<user[l], secret[l], seen[l]>>
         /\ login'[l] = "failed" => serving'[l] = "none"
<1> DEFINE Goal == /\ HasCause(l) /\ user[l] \in Accounts
                   /\ UNCHANGED <<user[l], secret[l], seen[l]>>
                   /\ login'[l] = "failed" => serving'[l] = "none"
<1> USE DEF AuthInd, TypeOK, store, local, inputs, Refusals
<1>1. CASE serving'[l] = serving[l] /\ login'[l] = login[l]
  <2>1. HasCause(l) /\ (login'[l] = "failed" => serving'[l] = "none")
    BY <1>1 DEF CauseInd, RefusalsHaveCause
  <2>2. UNCHANGED <<user[l], secret[l], seen[l]>>
    BY <1>1, InputsStay
  <2>3. user[l] \in Accounts
    BY <1>1 DEF StagesAgree
  <2> QED
    BY <2>1, <2>2, <2>3
<1>2. CASE BeginLogin(l)
  BY <1>2 DEF BeginLogin
<1>3. CASE ClientStep(l)
  <2>1. UNCHANGED <<user[l], secret[l], seen[l]>> /\ user[l] \in Accounts
    BY <1>3 DEF ClientStep, ReceiveChallenge, SendToken, ReceiveAccepted, ReceiveRefusal, StagesAgree, Waiting
  <2>2. login'[l] = "failed" => serving'[l] = "none"
    BY <1>3 DEF ClientStep, ReceiveChallenge, SendToken, ReceiveAccepted, ReceiveRefusal
  <2>3. ReceiveChallenge(l) => HasCause(l)
    BY DEF ReceiveChallenge, HasCause
  <2>4. ReceiveRefusal(l) => HasCause(l)
    BY DEF ReceiveRefusal, CauseInd, RefusalsHaveCause
  <2> QED
    BY <1>3, <2>1, <2>2, <2>3, <2>4 DEF ClientStep, SendToken, ReceiveAccepted
<1>4. CASE HandlerStep(l)
  <2>1. serving[l] \in Working /\ login' = login
    BY <1>4 DEF HandlerStep, LoadUserEnvelope, PushNonce, TrimNonces, FindNonce, VerifyToken,
                StoreSessionToken, Working
  <2>2. ~RedisMayFail(l) /\ login'[l] # "failed"
    BY <2>1, CommandsSucceed DEF Working
  <2>3. user[l] \in Accounts
    BY <2>1 DEF StagesAgree, Working
  <2>4. CASE LoadUserEnvelope(l)
    BY <2>2, <2>3, <2>4 DEF LoadUserEnvelope, StagesAgree, HasCause
  <2>5. CASE PushNonce(l) \/ TrimNonces(l) \/ StoreSessionToken(l)
    BY <2>2, <2>5 DEF PushNonce, TrimNonces, StoreSessionToken
  <2>6. CASE FindNonce(l)
    <3>1. seen[l] # NoEnvelope /\ Challenged(l)
      BY <2>6 DEF FindNonce, StagesAgree, SeenIsFiled, Finalizing, Challenged
    <3>2. ~NonceKnown(l)
      BY <2>2, <2>6 DEF FindNonce
    <3>3. HasCause(l)
      BY <3>1, <3>2, PushedOutByRivals DEF HasCause, CauseInd, Lists
    <3> QED
      BY <2>2, <2>3, <2>6, <3>3 DEF FindNonce
  <2>7. CASE VerifyToken(l)
    <3>1. seen[l] # NoEnvelope
      BY <2>7 DEF VerifyToken, StagesAgree, SeenIsFiled, Finalizing
    <3>2. envelope[user[l]] = NoEnvelope \/ Token(l) # Expected(l)
      BY <2>2, <2>7 DEF VerifyToken
    <3>3. envelope[user[l]].owner # seen[l].owner
      BY <3>1, <3>2, NoneIsNoRun DEF Token, Expected, SessionToken, NoEnvelope, Envelopes
    <3> QED
      BY <2>2, <2>3, <2>7, <3>3 DEF VerifyToken, HasCause
  <2> QED
    BY <1>4, <2>4, <2>5, <2>6, <2>7 DEF HandlerStep
<1>5. ASSUME NEW m \in Logins \ {l}, BeginLogin(m) \/ ClientStep(m) \/ HandlerStep(m)
      PROVE  serving'[l] = serving[l] /\ login'[l] = login[l]
  BY <1>5 DEF BeginLogin, ClientStep, ReceiveChallenge, SendToken, ReceiveAccepted, ReceiveRefusal,
     HandlerStep, LoadUserEnvelope, PushNonce, TrimNonces, FindNonce, VerifyToken, StoreSessionToken
<1>6. CASE \/ \E a \in Accounts, e \in Envelopes : FileEnvelope(a, e)
           \/ \E a \in Accounts : ExpireSession(a)
           \/ UNCHANGED vars
  BY <1>1, <1>6 DEF FileEnvelope, ExpireSession, vars
<1> HIDE DEF Goal
<1> QED
  BY <1>1, <1>2, <1>3, <1>4, <1>5, <1>6, QuietNext DEF Goal

LEMMA NextKeepsCauseInd ==
  ASSUME IsFiniteSet(Logins), AuthInd, CauseInd, [Next]_vars
  PROVE  CauseInd'
<1> SUFFICES ASSUME Faults = {} PROVE Lists' /\ RefusalsHaveCause'
  BY DEF CauseInd, Lists
<1>1. Lists'
  BY NextKeepsLists
<1>2. ASSUME NEW l \in Logins, serving'[l] \in Refusals \/ login'[l] = "failed"
      PROVE  HasCause(l)' /\ (login'[l] = "failed" => serving'[l] = "none")
  BY <1>2, RefusingHasCause, CauseStays
<1> QED
  BY <1>1, <1>2 DEF RefusalsHaveCause

-----------------------------------------------------------------------------
\* The nonce lists keep what they must, and refusals have causes, at every moment.
THEOREM CauseInductive == ASSUME IsFiniteSet(Logins) PROVE Spec => []CauseInd
<1>1. Init => CauseInd
  BY DEF Init, CauseInd, NoncesAreDistinct, NoncesAreKept, RefusalsHaveCause, Challenged, Refusals
<1>2. AuthInd /\ CauseInd /\ [Next]_vars => CauseInd'
  BY NextKeepsCauseInd
<1> QED
  BY <1>1, <1>2, AuthenticationInductive, PTL DEF Spec

\* Without faults, a login fails only for want of an envelope, for a wrong password,
\* for an envelope that was replaced, or behind more than MaxNonces other logins.
THEOREM RefusalsAreForCause == ASSUME IsFiniteSet(Logins) PROVE Spec => []RefusedForCause
<1>1. CauseInd => RefusedForCause
  BY DEF CauseInd, RefusalsHaveCause, RefusedForCause
<1> QED
  BY <1>1, CauseInductive, PTL
=====================================================================================
