---------------------------- MODULE AuthenticationProofs ----------------------------
(***********************************************************************************)
(* Proofs about Authentication, for any sets of runs, logins, accounts and          *)
(* passwords, any number of nonces kept, and under any set of faults.               *)
(***********************************************************************************)
EXTENDS Authentication, SequenceTheorems, TLAPS

USE DEF LoginMoves, ServingMoves

-----------------------------------------------------------------------------
(* What LTRIM leaves and LRANGE returns.                                     *)

\* The newest nonces, as a sequence: how many there are, and which.
LEMMA UpToIndexProperties ==
  ASSUME NEW S, NEW s \in Seq(S), NEW n \in Nat
  PROVE  /\ UpToIndex(s, n) \in Seq(S)
         /\ Len(UpToIndex(s, n)) = IF n < Len(s) THEN n + 1 ELSE Len(s)
         /\ \A i \in 1..Len(UpToIndex(s, n)) : UpToIndex(s, n)[i] = s[i]
<1> DEFINE m == IF n < Len(s) THEN n + 1 ELSE Len(s)
<1>1. Len(s) \in Nat /\ m \in Nat /\ m <= Len(s)
  OBVIOUS
<1>2. \A i \in 1..m : s[i] \in S
  BY <1>1
<1>3. /\ SubSeq(s, 1, m) \in Seq(S)
      /\ Len(SubSeq(s, 1, m)) = m
      /\ \A i \in 1..m : SubSeq(s, 1, m)[i] = s[i]
  BY <1>1, <1>2, SubSeqProperties
<1> QED
  BY <1>3 DEF UpToIndex

\* Trimming does not change what HasAuthNonce reads.
LEMMA TrimIsInvisible ==
  ASSUME NEW S, NEW s \in Seq(S), NEW n \in Nat
  PROVE  UpToIndex(UpToIndex(s, n), n) = UpToIndex(s, n)
<1> DEFINE t == UpToIndex(s, n)
<1>1. t \in Seq(S) /\ Len(t) <= n + 1 /\ Len(t) \in Nat
  BY UpToIndexProperties
<1>2. UpToIndex(t, n) = SubSeq(t, 1, Len(t))
  BY <1>1 DEF UpToIndex
<1> HIDE DEF t
<1> QED
  BY <1>1, <1>2, SubSeqFull DEF t

\* Pushing on the whole list or on the part HasAuthNonce reads makes no difference to it.
LEMMA PushOnWindow ==
  ASSUME NEW S, NEW s \in Seq(S), NEW x \in S, NEW n \in Nat
  PROVE  UpToIndex(<<x>> \o UpToIndex(s, n), n) = UpToIndex(<<x>> \o s, n)
<1> DEFINE t == UpToIndex(s, n)
           long == <<x>> \o s
           short == <<x>> \o t
<1>1. /\ t \in Seq(S)
      /\ Len(t) = IF n < Len(s) THEN n + 1 ELSE Len(s)
      /\ \A i \in 1..Len(t) : t[i] = s[i]
  BY UpToIndexProperties
<1> HIDE DEF t
<1>2. <<x>> \in Seq(S) /\ Len(<<x>>) = 1 /\ <<x>>[1] = x /\ Len(s) \in Nat /\ Len(t) \in Nat
  BY <1>1
<1>3. /\ long \in Seq(S) /\ Len(long) = Len(s) + 1
      /\ \A i \in 1..Len(s) + 1 : long[i] = IF i = 1 THEN x ELSE s[i - 1]
  BY <1>2, ConcatProperties
<1>4. /\ short \in Seq(S) /\ Len(short) = Len(t) + 1
      /\ \A i \in 1..Len(t) + 1 : short[i] = IF i = 1 THEN x ELSE t[i - 1]
  BY <1>1, <1>2, ConcatProperties
<1> HIDE DEF long, short
<1>5. /\ UpToIndex(long, n) \in Seq(S)
      /\ Len(UpToIndex(long, n)) = IF n < Len(s) + 1 THEN n + 1 ELSE Len(s) + 1
      /\ \A i \in 1..Len(UpToIndex(long, n)) : UpToIndex(long, n)[i] = long[i]
  BY <1>3, UpToIndexProperties
<1>6. /\ UpToIndex(short, n) \in Seq(S)
      /\ Len(UpToIndex(short, n)) = IF n < Len(t) + 1 THEN n + 1 ELSE Len(t) + 1
      /\ \A i \in 1..Len(UpToIndex(short, n)) : UpToIndex(short, n)[i] = short[i]
  BY <1>4, UpToIndexProperties
<1>7. Len(UpToIndex(short, n)) = Len(UpToIndex(long, n))
  BY <1>1, <1>2, <1>5, <1>6
<1>8. ASSUME NEW i \in 1..Len(UpToIndex(long, n))
      PROVE  UpToIndex(short, n)[i] = UpToIndex(long, n)[i]
  <2>1. i \in 1..Len(s) + 1 /\ i \in 1..Len(t) + 1 /\ i <= n + 1
    BY <1>1, <1>2, <1>5, <1>6, <1>7
  <2>2. i # 1 => t[i - 1] = s[i - 1]
    BY <1>1, <1>2, <2>1
  <2> QED
    BY <1>3, <1>4, <1>5, <1>6, <1>7, <2>1, <2>2
<1> QED
  BY <1>5, <1>6, <1>7, <1>8, SeqEqual DEF short, long, t

-----------------------------------------------------------------------------
(* The invariant is inductive: one lemma per action, one step per conjunct.  *)

LEMMA InitInd == Init => AuthInd
<1> SUFFICES ASSUME Init PROVE AuthInd
  OBVIOUS
<1> USE NoneIsNoRun, AuthenticationAssumption DEF Init
<1>1. TypeOK
  <2>1. <<>> \in Seq(Logins)
    OBVIOUS
  <2> QED
    BY <2>1 DEF TypeOK, LoginStages, ServingStages, NoEnvelope
<1>2. StagesAgree
  BY DEF StagesAgree, Starting, Finalizing
<1>3. SeenIsFiled
  BY DEF SeenIsFiled, Starting, Finalizing
<1>4. SessionIsEarned
  BY DEF SessionIsEarned
<1>5. ComparedSinceSent
  BY DEF ComparedSinceSent
<1>6. SoleLoginIsOnFile
  BY DEF SoleLoginIsOnFile
<1> QED
  BY <1>1, <1>2, <1>3, <1>4, <1>5, <1>6 DEF AuthInd

\* Who earned a session stays who earned it, as long as a login that has sent its
\* token keeps its inputs.
LEMMA EarnedStaysEarned ==
  ASSUME SessionIsEarned, UNCHANGED session,
         \A k \in Logins : onFile[k] # {} =>
           /\ onFile[k] \subseteq onFile'[k]
           /\ user'[k] = user[k] /\ secret'[k] = secret[k] /\ seen'[k] = seen[k]
  PROVE  SessionIsEarned'
<1> SUFFICES ASSUME NEW a \in Accounts, session'[a] # NoToken
             PROVE  \E l \in Logins :
                      /\ user'[l] = a /\ session'[a] = Token(l)'
                      /\ Opens(seen'[l], secret'[l])
                      /\ seen'[l].owner \in onFile'[l]
  BY DEF SessionIsEarned
<1>1. PICK l \in Logins :
        /\ user[l] = a /\ session[a] = Token(l)
        /\ Opens(seen[l], secret[l])
        /\ seen[l].owner \in onFile[l]
  BY DEF SessionIsEarned
<1>2. /\ onFile[l] \subseteq onFile'[l]
      /\ user'[l] = user[l] /\ secret'[l] = secret[l] /\ seen'[l] = seen[l]
  BY <1>1
<1> QED
  BY <1>1, <1>2 DEF Token

\* A handler about to save a session, or trying to once more, has earned it.
LEMMA SavingIsEarned ==
  ASSUME AuthInd, NEW l \in Logins, serving[l] = "saveSession", session' = Saved(l),
         UNCHANGED <<user, secret, seen, onFile>>
  PROVE  SessionIsEarned'
<1> SUFFICES ASSUME NEW a \in Accounts, session'[a] # NoToken
             PROVE  \E m \in Logins :
                      /\ user[m] = a /\ session'[a] = Token(m)
                      /\ Opens(seen[m], secret[m])
                      /\ seen[m].owner \in onFile[m]
  BY DEF SessionIsEarned, Token
<1>1. CASE a = user[l]
  <2>1. Opens(seen[l], secret[l]) /\ seen[l].owner \in onFile[l]
    BY DEF AuthInd, SeenIsFiled, StagesAgree, Finalizing, ComparedSinceSent
  <2> QED
    BY <1>1, <2>1 DEF Saved, AuthInd, TypeOK
<1>2. CASE a # user[l]
  <2>1. session'[a] = session[a]
    BY <1>2 DEF Saved, AuthInd, TypeOK
  <2> QED
    BY <2>1 DEF AuthInd, SessionIsEarned
<1> QED
  BY <1>1, <1>2

LEMMA FileKeepsInd ==
  ASSUME AuthInd, NEW a \in Accounts, NEW e \in Envelopes, FileEnvelope(a, e)
  PROVE  AuthInd'
<1> USE NoneIsNoRun, AuthenticationAssumption
    DEF AuthInd, FileEnvelope, store, inputs, local, history, TypeOK
<1>1. TypeOK'
  BY DEF LoginStages, ServingStages, Working, Replies, Refusals, Envelopes
<1>2. StagesAgree'
  BY DEF StagesAgree, Starting, Finalizing
<1>3. SeenIsFiled'
  BY DEF SeenIsFiled, StagesAgree, Starting, Finalizing
<1>4. SessionIsEarned'
  <2>1. \A k \in Logins : onFile[k] # {} =>
          /\ onFile[k] \subseteq onFile'[k]
          /\ user'[k] = user[k] /\ secret'[k] = secret[k] /\ seen'[k] = seen[k]
    BY DEF StagesAgree, Starting
  <2> QED
    BY <2>1, EarnedStaysEarned
<1>5. ComparedSinceSent'
  BY DEF ComparedSinceSent, SeenIsFiled, StagesAgree, Starting, Finalizing
<1>6. SoleLoginIsOnFile'
  BY DEF SoleLoginIsOnFile, HoldsSession, StagesAgree, Starting, Finalizing, Token
<1> QED
  BY <1>1, <1>2, <1>3, <1>4, <1>5, <1>6 DEF AuthInd

LEMMA BeginKeepsInd ==
  ASSUME AuthInd, NEW l \in Logins, BeginLogin(l)
  PROVE  AuthInd'
<1> PICK a \in Accounts, p \in Passwords :
      /\ user' = [user EXCEPT ![l] = a]
      /\ secret' = [secret EXCEPT ![l] = p]
  BY DEF BeginLogin
<1> USE NoneIsNoRun, AuthenticationAssumption
    DEF AuthInd, BeginLogin, store, inputs, local, history, TypeOK
<1>1. TypeOK'
  BY DEF LoginStages, ServingStages, Working, Replies, Refusals
<1>2. StagesAgree'
  BY DEF StagesAgree, Starting, Finalizing
<1>3. SeenIsFiled'
  BY DEF SeenIsFiled, StagesAgree, Starting, Finalizing, Opens
<1>4. SessionIsEarned'
  <2>1. \A k \in Logins : onFile[k] # {} =>
          /\ onFile[k] \subseteq onFile'[k]
          /\ user'[k] = user[k] /\ secret'[k] = secret[k] /\ seen'[k] = seen[k]
    BY DEF StagesAgree, Starting
  <2> QED
    BY <2>1, EarnedStaysEarned
<1>5. ComparedSinceSent'
  BY DEF ComparedSinceSent, SeenIsFiled, StagesAgree, Starting, Finalizing
<1>6. SoleLoginIsOnFile'
  BY DEF SoleLoginIsOnFile, HoldsSession, StagesAgree, Starting, Finalizing, Token
<1> QED
  BY <1>1, <1>2, <1>3, <1>4, <1>5, <1>6 DEF AuthInd

LEMMA ChallengeKeepsInd ==
  ASSUME AuthInd, NEW l \in Logins, ReceiveChallenge(l)
  PROVE  AuthInd'
<1> USE NoneIsNoRun, AuthenticationAssumption
    DEF AuthInd, ReceiveChallenge, store, inputs, local, history, TypeOK
<1>1. TypeOK'
  BY DEF LoginStages, ServingStages, Working, Replies, Refusals
<1>2. StagesAgree'
  BY DEF StagesAgree, Starting, Finalizing
<1>3. SeenIsFiled'
  BY DEF SeenIsFiled, StagesAgree, Starting, Finalizing
<1>4. SessionIsEarned'
  <2>1. \A k \in Logins : onFile[k] # {} =>
          /\ onFile[k] \subseteq onFile'[k]
          /\ user'[k] = user[k] /\ secret'[k] = secret[k] /\ seen'[k] = seen[k]
    BY DEF StagesAgree, Starting
  <2> QED
    BY <2>1, EarnedStaysEarned
<1>5. ComparedSinceSent'
  BY DEF ComparedSinceSent, SeenIsFiled, StagesAgree, Starting, Finalizing
<1>6. SoleLoginIsOnFile'
  BY DEF SoleLoginIsOnFile, HoldsSession, StagesAgree, Starting, Finalizing, Token
<1> QED
  BY <1>1, <1>2, <1>3, <1>4, <1>5, <1>6 DEF AuthInd

LEMMA SendKeepsInd ==
  ASSUME AuthInd, NEW l \in Logins, SendToken(l)
  PROVE  AuthInd'
<1> USE NoneIsNoRun, AuthenticationAssumption
    DEF AuthInd, SendToken, store, inputs, local, history, TypeOK
<1>1. TypeOK'
  BY DEF LoginStages, ServingStages, Working, Replies, Refusals, StagesAgree, Envelopes, NoEnvelope
<1>2. StagesAgree'
  BY DEF StagesAgree, Starting, Finalizing
<1>3. SeenIsFiled'
  BY DEF SeenIsFiled, StagesAgree, Starting, Finalizing
<1>4. SessionIsEarned'
  <2>1. \A k \in Logins : onFile[k] # {} =>
          /\ onFile[k] \subseteq onFile'[k]
          /\ user'[k] = user[k] /\ secret'[k] = secret[k] /\ seen'[k] = seen[k]
    BY DEF StagesAgree, Starting
  <2> QED
    BY <2>1, EarnedStaysEarned
<1>5. ComparedSinceSent'
  BY DEF ComparedSinceSent, SeenIsFiled, StagesAgree, Starting, Finalizing
<1>6. SoleLoginIsOnFile'
  BY DEF SoleLoginIsOnFile, HoldsSession, StagesAgree, Starting, Finalizing, Token
<1> QED
  BY <1>1, <1>2, <1>3, <1>4, <1>5, <1>6 DEF AuthInd

LEMMA AcceptedKeepsInd ==
  ASSUME AuthInd, NEW l \in Logins, ReceiveAccepted(l)
  PROVE  AuthInd'
<1> USE NoneIsNoRun, AuthenticationAssumption
    DEF AuthInd, ReceiveAccepted, store, inputs, local, history, TypeOK
<1>1. TypeOK'
  BY DEF LoginStages, ServingStages, Working, Replies, Refusals
<1>2. StagesAgree'
  BY DEF StagesAgree, Starting, Finalizing
<1>3. SeenIsFiled'
  BY DEF SeenIsFiled, StagesAgree, Starting, Finalizing
<1>4. SessionIsEarned'
  <2>1. \A k \in Logins : onFile[k] # {} =>
          /\ onFile[k] \subseteq onFile'[k]
          /\ user'[k] = user[k] /\ secret'[k] = secret[k] /\ seen'[k] = seen[k]
    BY DEF StagesAgree, Starting
  <2> QED
    BY <2>1, EarnedStaysEarned
<1>5. ComparedSinceSent'
  BY DEF ComparedSinceSent, SeenIsFiled, StagesAgree, Starting, Finalizing
<1>6. SoleLoginIsOnFile'
  BY DEF SoleLoginIsOnFile, HoldsSession, StagesAgree, Starting, Finalizing, Token
<1> QED
  BY <1>1, <1>2, <1>3, <1>4, <1>5, <1>6 DEF AuthInd

LEMMA RefusalKeepsInd ==
  ASSUME AuthInd, NEW l \in Logins, ReceiveRefusal(l)
  PROVE  AuthInd'
<1> USE NoneIsNoRun, AuthenticationAssumption
    DEF AuthInd, ReceiveRefusal, store, inputs, local, history, TypeOK, Waiting, Refusals
<1>1. TypeOK'
  BY DEF LoginStages, ServingStages, Working, Replies, Refusals
<1>2. StagesAgree'
  BY DEF StagesAgree, Starting, Finalizing
<1>3. SeenIsFiled'
  BY DEF SeenIsFiled, StagesAgree, Starting, Finalizing
<1>4. SessionIsEarned'
  <2>1. \A k \in Logins : onFile[k] # {} =>
          /\ onFile[k] \subseteq onFile'[k]
          /\ user'[k] = user[k] /\ secret'[k] = secret[k] /\ seen'[k] = seen[k]
    BY DEF StagesAgree, Starting
  <2> QED
    BY <2>1, EarnedStaysEarned
<1>5. ComparedSinceSent'
  BY DEF ComparedSinceSent, SeenIsFiled, StagesAgree, Starting, Finalizing
<1>6. SoleLoginIsOnFile'
  BY DEF SoleLoginIsOnFile, HoldsSession, StagesAgree, Starting, Finalizing, Token
<1> QED
  BY <1>1, <1>2, <1>3, <1>4, <1>5, <1>6 DEF AuthInd

LEMMA LoadKeepsInd ==
  ASSUME AuthInd, NEW l \in Logins, LoadUserEnvelope(l)
  PROVE  AuthInd'
<1> USE NoneIsNoRun, AuthenticationAssumption
    DEF AuthInd, LoadUserEnvelope, store, inputs, local, history, TypeOK
<1>0. user[l] \in Accounts /\ onFile[l] = {} /\ login[l] \in {"starting", "failed"}
  BY DEF StagesAgree, Starting
<1>1. TypeOK'
  BY <1>0 DEF LoginStages, ServingStages, Working, Replies, Refusals
<1>2. StagesAgree'
  BY DEF StagesAgree, Starting, Finalizing
<1>3. SeenIsFiled'
  <2>1. seen'[l] # NoEnvelope => seen'[l] = envelope[user[l]] \/ seen'[l] = seen[l]
    BY <1>0
  <2>2. \A k \in Logins \ {l} :
          /\ seen'[k] = seen[k] /\ serving'[k] = serving[k]
    OBVIOUS
  <2>3. /\ serving'[l] = "pushNonce" => seen'[l] # NoEnvelope
        /\ serving'[l] \in {"pushNonce", "badRequest"}
        /\ login'[l] # "deriving" /\ onFile'[l] = {}
    BY <1>0
  <2>4. UNCHANGED <<envelope, filed, user, secret, login, onFile>>
    OBVIOUS
  <2>5. \A k \in Logins : seen'[k] # NoEnvelope => <<user'[k], seen'[k]>> \in filed'
    BY <1>0, <2>1, <2>2, <2>4 DEF SeenIsFiled
  <2>6. \A k \in Logins : login'[k] = "deriving" \/ onFile'[k] # {} => k # l
    BY <2>3
  <2> QED
    BY <2>2, <2>3, <2>4, <2>5, <2>6 DEF SeenIsFiled
<1>4. SessionIsEarned'
  <2>1. \A k \in Logins : onFile[k] # {} =>
          /\ onFile[k] \subseteq onFile'[k]
          /\ user'[k] = user[k] /\ secret'[k] = secret[k] /\ seen'[k] = seen[k]
    BY DEF StagesAgree, Starting
  <2> QED
    BY <2>1, EarnedStaysEarned
<1>5. ComparedSinceSent'
  BY DEF ComparedSinceSent, SeenIsFiled, StagesAgree, Starting, Finalizing
<1>6. SoleLoginIsOnFile'
  <2>1. UNCHANGED <<session, expired, login, user, onFile>>
    OBVIOUS
  <2>2. \A k \in Logins \ {l} : HoldsSession(k)' = HoldsSession(k) /\ serving'[k] = serving[k]
    BY DEF HoldsSession, Token
  <2> QED
    BY <1>0, <2>1, <2>2 DEF SoleLoginIsOnFile
<1> QED
  BY <1>1, <1>2, <1>3, <1>4, <1>5, <1>6 DEF AuthInd

LEMMA PushKeepsInd ==
  ASSUME AuthInd, NEW l \in Logins, PushNonce(l)
  PROVE  AuthInd'
<1> USE NoneIsNoRun, AuthenticationAssumption
    DEF AuthInd, PushNonce, Pushed, store, inputs, local, history, TypeOK
<1>1. TypeOK'
  <2>1. user[l] \in Accounts
    BY DEF StagesAgree
  <2>2. <<l>> \o nonces[user[l]] \in Seq(Logins)
    BY <2>1
  <2>3. [nonces EXCEPT ![user[l]] = <<l>> \o @] \in [Accounts -> Seq(Logins)]
    BY <2>1, <2>2
  <2>4. nonces' \in [Accounts -> Seq(Logins)]
    BY <2>3
  <2>5. {"challenged", "trimNonces", "badRequest"} \subseteq ServingStages
    BY DEF ServingStages, Working, Replies, Refusals
  <2>6. \E s \in {"challenged", "trimNonces", "badRequest"} : ServingMoves(l, s)
    OBVIOUS
  <2>7. serving' \in [Logins -> ServingStages]
    BY <2>5, <2>6
  <2> QED
    BY <2>4, <2>7
<1>2. StagesAgree'
  BY DEF StagesAgree, Starting, Finalizing
<1>3. SeenIsFiled'
  BY DEF SeenIsFiled, StagesAgree, Starting, Finalizing
<1>4. SessionIsEarned'
  <2>1. \A k \in Logins : onFile[k] # {} =>
          /\ onFile[k] \subseteq onFile'[k]
          /\ user'[k] = user[k] /\ secret'[k] = secret[k] /\ seen'[k] = seen[k]
    BY DEF StagesAgree, Starting
  <2> QED
    BY <2>1, EarnedStaysEarned
<1>5. ComparedSinceSent'
  BY DEF ComparedSinceSent, SeenIsFiled, StagesAgree, Starting, Finalizing
<1>6. SoleLoginIsOnFile'
  BY DEF SoleLoginIsOnFile, HoldsSession, StagesAgree, Starting, Finalizing, Token
<1> QED
  BY <1>1, <1>2, <1>3, <1>4, <1>5, <1>6 DEF AuthInd

LEMMA TrimKeepsInd ==
  ASSUME AuthInd, NEW l \in Logins, TrimNonces(l)
  PROVE  AuthInd'
<1> USE NoneIsNoRun, AuthenticationAssumption
    DEF AuthInd, TrimNonces, Trimmed, store, inputs, local, history, TypeOK
<1>1. TypeOK'
  <2>1. user[l] \in Accounts
    BY DEF StagesAgree
  <2>2. UpToIndex(nonces[user[l]], MaxNonces) \in Seq(Logins)
    BY <2>1, UpToIndexProperties
  <2>3. [nonces EXCEPT ![user[l]] = UpToIndex(@, MaxNonces)] \in [Accounts -> Seq(Logins)]
    BY <2>1, <2>2
  <2>4. nonces' \in [Accounts -> Seq(Logins)]
    BY <2>3
  <2>5. {"challenged", "trimNonces", "badRequest"} \subseteq ServingStages
    BY DEF ServingStages, Working, Replies, Refusals
  <2>6. \E s \in {"challenged", "trimNonces", "badRequest"} : ServingMoves(l, s)
    OBVIOUS
  <2>7. serving' \in [Logins -> ServingStages]
    BY <2>5, <2>6
  <2> QED
    BY <2>4, <2>7
<1>2. StagesAgree'
  BY DEF StagesAgree, Starting, Finalizing
<1>3. SeenIsFiled'
  BY DEF SeenIsFiled, StagesAgree, Starting, Finalizing
<1>4. SessionIsEarned'
  <2>1. \A k \in Logins : onFile[k] # {} =>
          /\ onFile[k] \subseteq onFile'[k]
          /\ user'[k] = user[k] /\ secret'[k] = secret[k] /\ seen'[k] = seen[k]
    BY DEF StagesAgree, Starting
  <2> QED
    BY <2>1, EarnedStaysEarned
<1>5. ComparedSinceSent'
  BY DEF ComparedSinceSent, SeenIsFiled, StagesAgree, Starting, Finalizing
<1>6. SoleLoginIsOnFile'
  BY DEF SoleLoginIsOnFile, HoldsSession, StagesAgree, Starting, Finalizing, Token
<1> QED
  BY <1>1, <1>2, <1>3, <1>4, <1>5, <1>6 DEF AuthInd

LEMMA FindKeepsInd ==
  ASSUME AuthInd, NEW l \in Logins, FindNonce(l)
  PROVE  AuthInd'
<1> USE NoneIsNoRun, AuthenticationAssumption
    DEF AuthInd, FindNonce, store, inputs, local, history, TypeOK
<1>1. TypeOK'
  BY DEF LoginStages, ServingStages, Working, Replies, Refusals
<1>2. StagesAgree'
  BY DEF StagesAgree, Starting, Finalizing
<1>3. SeenIsFiled'
  BY DEF SeenIsFiled, StagesAgree, Starting, Finalizing
<1>4. SessionIsEarned'
  <2>1. \A k \in Logins : onFile[k] # {} =>
          /\ onFile[k] \subseteq onFile'[k]
          /\ user'[k] = user[k] /\ secret'[k] = secret[k] /\ seen'[k] = seen[k]
    BY DEF StagesAgree, Starting
  <2> QED
    BY <2>1, EarnedStaysEarned
<1>5. ComparedSinceSent'
  BY DEF ComparedSinceSent, SeenIsFiled, StagesAgree, Starting, Finalizing
<1>6. SoleLoginIsOnFile'
  BY DEF SoleLoginIsOnFile, HoldsSession, StagesAgree, Starting, Finalizing, Token
<1> QED
  BY <1>1, <1>2, <1>3, <1>4, <1>5, <1>6 DEF AuthInd

LEMMA ResendKeepsInd ==
  ASSUME AuthInd, NEW l \in Logins, ResendToken(l)
  PROVE  AuthInd'
<1> USE NoneIsNoRun, AuthenticationAssumption
    DEF AuthInd, ResendToken, store, inputs, local, history, TypeOK
<1>1. TypeOK'
  BY DEF LoginStages, ServingStages, Working, Replies, Refusals
<1>2. StagesAgree'
  BY DEF StagesAgree, Starting, Finalizing
<1>3. SeenIsFiled'
  BY DEF SeenIsFiled, StagesAgree, Starting, Finalizing
<1>4. SessionIsEarned'
  <2>1. \A k \in Logins : onFile[k] # {} =>
          /\ onFile[k] \subseteq onFile'[k]
          /\ user'[k] = user[k] /\ secret'[k] = secret[k] /\ seen'[k] = seen[k]
    BY DEF StagesAgree, Starting
  <2> QED
    BY <2>1, EarnedStaysEarned
<1>5. ComparedSinceSent'
  BY DEF ComparedSinceSent, SeenIsFiled, StagesAgree, Starting, Finalizing
<1>6. SoleLoginIsOnFile'
  BY DEF SoleLoginIsOnFile, HoldsSession, StagesAgree, Starting, Finalizing, Token
<1> QED
  BY <1>1, <1>2, <1>3, <1>4, <1>5, <1>6 DEF AuthInd

LEMMA VerifyKeepsInd ==
  ASSUME AuthInd, NEW l \in Logins, VerifyToken(l)
  PROVE  AuthInd'
<1> USE NoneIsNoRun, AuthenticationAssumption
    DEF AuthInd, VerifyToken, store, inputs, local, history, TypeOK
<1>1. TypeOK'
  BY DEF LoginStages, ServingStages, Working, Replies, Refusals
<1>2. StagesAgree'
  BY DEF StagesAgree, Starting, Finalizing
<1>3. SeenIsFiled'
  BY DEF SeenIsFiled, StagesAgree, Starting, Finalizing
<1>4. SessionIsEarned'
  <2>1. \A k \in Logins : onFile[k] # {} =>
          /\ onFile[k] \subseteq onFile'[k]
          /\ user'[k] = user[k] /\ secret'[k] = secret[k] /\ seen'[k] = seen[k]
    BY DEF StagesAgree, Starting
  <2> QED
    BY <2>1, EarnedStaysEarned
<1>5. ComparedSinceSent'
  BY DEF ComparedSinceSent, SeenIsFiled, StagesAgree, Starting, Finalizing, Token, Expected, SessionToken
<1>6. SoleLoginIsOnFile'
  BY DEF SoleLoginIsOnFile, HoldsSession, StagesAgree, Starting, Finalizing, Token
<1> QED
  BY <1>1, <1>2, <1>3, <1>4, <1>5, <1>6 DEF AuthInd

LEMMA StoreSessionKeepsInd ==
  ASSUME AuthInd, NEW l \in Logins, StoreSessionToken(l)
  PROVE  AuthInd'
<1> USE NoneIsNoRun, AuthenticationAssumption
    DEF AuthInd, StoreSessionToken, Saved, store, inputs, local, history, TypeOK
<1>1. TypeOK'
  <2>1. Token(l) \in Tokens
    BY DEF SeenIsFiled, StagesAgree, Finalizing, Token, SessionToken, Tokens, Envelopes
  <2>2. session' \in [Accounts -> Tokens \cup {NoToken}]
    BY <2>1
  <2>3. serving' \in [Logins -> ServingStages]
    BY DEF ServingStages, Working, Replies, Refusals
  <2> QED
    BY <2>2, <2>3
<1>2. StagesAgree'
  BY DEF StagesAgree, Starting, Finalizing
<1>3. SeenIsFiled'
  BY DEF SeenIsFiled, StagesAgree, Starting, Finalizing
<1>4. SessionIsEarned'
  <2>1. UNCHANGED <<user, secret, seen, onFile>>
    OBVIOUS
  <2>2. CASE session' = session
    BY <2>1, <2>2, EarnedStaysEarned
  <2>3. CASE session' = Saved(l)
    BY <2>1, <2>3, SavingIsEarned
  <2> QED
    BY <2>2, <2>3
<1>5. ComparedSinceSent'
  BY DEF ComparedSinceSent, SeenIsFiled, StagesAgree, Starting, Finalizing
<1>6. SoleLoginIsOnFile'
  <2>1. /\ onFile[l] # {} /\ onFile' = onFile /\ user' = user /\ login' = login
        /\ expired' = expired
    BY DEF StagesAgree, Finalizing
  <2>2. ASSUME NEW k \in Logins, \A m \in Logins \ {k} : user[m] = user[k] => onFile[m] = {},
               user[k] \in Accounts
        PROVE  session'[user[k]] = session[user[k]] \/ k = l
    BY <2>1, <2>2
  <2>3. serving'[l] = "accepted" => session' = Saved(l)
    OBVIOUS
  <2>4. session' = Saved(l) /\ user[l] \in Accounts => session'[user[l]] = Token(l)
    BY DEF Saved
  <2>5. \A k \in Logins : Token(k)' = Token(k)
    BY DEF Token
  <2> QED
    BY <2>1, <2>2, <2>3, <2>4, <2>5 DEF SoleLoginIsOnFile, HoldsSession, StagesAgree
<1> QED
  BY <1>1, <1>2, <1>3, <1>4, <1>5, <1>6 DEF AuthInd

LEMMA ExpireKeepsInd ==
  ASSUME AuthInd, NEW a \in Accounts, ExpireSession(a)
  PROVE  AuthInd'
<1> USE NoneIsNoRun, AuthenticationAssumption
    DEF AuthInd, ExpireSession, store, inputs, local, history, TypeOK
<1>0. session[a] \in Tokens /\ session[a].nonce \in Logins
  BY DEF Tokens
<1>1. TypeOK'
  BY <1>0 DEF LoginStages, ServingStages, Working, Replies, Refusals
<1>2. StagesAgree'
  BY DEF StagesAgree, Starting, Finalizing
<1>3. SeenIsFiled'
  BY DEF SeenIsFiled, StagesAgree, Starting, Finalizing
<1>4. SessionIsEarned'
  BY DEF SessionIsEarned, Token
<1>5. ComparedSinceSent'
  BY DEF ComparedSinceSent, SeenIsFiled, StagesAgree, Starting, Finalizing
<1>6. SoleLoginIsOnFile'
  <2>1. \A k \in Logins : Token(k)' = Token(k) /\ Token(k).nonce = k
    BY DEF Token, SessionToken
  <2>2. ASSUME NEW k \in Logins, user[k] \in Accounts, HoldsSession(k) PROVE HoldsSession(k)'
    <3>1. CASE user[k] = a
      <4>1. session'[user[k]] = NoToken
        BY <3>1
      <4>2. session[user[k]] = Token(k) => k \in expired'
        BY <2>1, <3>1
      <4> QED
        BY <2>2, <4>1, <4>2 DEF HoldsSession
    <3>2. CASE user[k] # a
      <4>1. session'[user[k]] = session[user[k]]
        BY <2>2, <3>2
      <4> QED
        BY <2>1, <2>2, <4>1 DEF HoldsSession
    <3> QED
      BY <3>1, <3>2
  <2>3. UNCHANGED <<login, serving, user, onFile>>
    OBVIOUS
  <2>4. \A k \in Logins : login[k] # "idle" => user[k] \in Accounts
    BY DEF StagesAgree
  <2> HIDE DEF ExpireSession
  <2> QED
    BY <2>2, <2>3, <2>4 DEF SoleLoginIsOnFile
<1> QED
  BY <1>1, <1>2, <1>3, <1>4, <1>5, <1>6 DEF AuthInd

LEMMA LoseKeepsInd ==
  ASSUME AuthInd, NEW l \in Logins, LoseConnection(l)
  PROVE  AuthInd'
<1> USE NoneIsNoRun, AuthenticationAssumption
    DEF AuthInd, LoseConnection, store, inputs, local, history, TypeOK, Waiting, Refusals
<1>1. TypeOK'
  BY DEF LoginStages, ServingStages, Working, Replies, Refusals
<1>2. StagesAgree'
  BY DEF StagesAgree, Starting, Finalizing
<1>3. SeenIsFiled'
  BY DEF SeenIsFiled, StagesAgree, Starting, Finalizing
<1>4. SessionIsEarned'
  <2>1. \A k \in Logins : onFile[k] # {} =>
          /\ onFile[k] \subseteq onFile'[k]
          /\ user'[k] = user[k] /\ secret'[k] = secret[k] /\ seen'[k] = seen[k]
    BY DEF StagesAgree, Starting
  <2> QED
    BY <2>1, EarnedStaysEarned
<1>5. ComparedSinceSent'
  BY DEF ComparedSinceSent, SeenIsFiled, StagesAgree, Starting, Finalizing
<1>6. SoleLoginIsOnFile'
  BY DEF SoleLoginIsOnFile, HoldsSession, StagesAgree, Starting, Finalizing, Token
<1> QED
  BY <1>1, <1>2, <1>3, <1>4, <1>5, <1>6 DEF AuthInd

LEMMA CutShortKeepsInd ==
  ASSUME AuthInd, NEW l \in Logins, BodyCutShort(l)
  PROVE  AuthInd'
<1> USE NoneIsNoRun, AuthenticationAssumption
    DEF AuthInd, BodyCutShort, store, inputs, local, history, TypeOK
<1>1. TypeOK'
  BY DEF LoginStages, ServingStages, Working, Replies, Refusals
<1>2. StagesAgree'
  BY DEF StagesAgree, Starting, Finalizing
<1>3. SeenIsFiled'
  BY DEF SeenIsFiled, StagesAgree, Starting, Finalizing
<1>4. SessionIsEarned'
  <2>1. \A k \in Logins : onFile[k] # {} =>
          /\ onFile[k] \subseteq onFile'[k]
          /\ user'[k] = user[k] /\ secret'[k] = secret[k] /\ seen'[k] = seen[k]
    BY DEF StagesAgree, Starting
  <2> QED
    BY <2>1, EarnedStaysEarned
<1>5. ComparedSinceSent'
  BY DEF ComparedSinceSent, SeenIsFiled, StagesAgree, Starting, Finalizing
<1>6. SoleLoginIsOnFile'
  BY DEF SoleLoginIsOnFile, HoldsSession, StagesAgree, Starting, Finalizing, Token
<1> QED
  BY <1>1, <1>2, <1>3, <1>4, <1>5, <1>6 DEF AuthInd

LEMMA LoseReplyKeepsInd ==
  ASSUME AuthInd, NEW l \in Logins, LoseReply(l)
  PROVE  AuthInd'
<1> USE NoneIsNoRun, AuthenticationAssumption
    DEF AuthInd, LoseReply, store, inputs, local, history, TypeOK
<1>1. user[l] \in Accounts
  BY DEF StagesAgree
<1>2. TypeOK'
  <2>1. CASE serving[l] = "pushNonce"
    <3>1. <<l>> \o nonces[user[l]] \in Seq(Logins)
      BY <1>1
    <3>2. Pushed(l) \in [Accounts -> Seq(Logins)]
      BY <1>1, <3>1 DEF Pushed
    <3> QED
      BY <2>1, <3>2
  <2>2. CASE serving[l] = "trimNonces"
    <3>1. UpToIndex(nonces[user[l]], MaxNonces) \in Seq(Logins)
      BY <1>1, UpToIndexProperties
    <3>2. Trimmed(l) \in [Accounts -> Seq(Logins)]
      BY <1>1, <3>1 DEF Trimmed
    <3> QED
      BY <2>2, <3>2
  <2>3. CASE serving[l] = "saveSession"
    <3>1. Token(l) \in Tokens
      BY <2>3 DEF SeenIsFiled, StagesAgree, Finalizing, Token, SessionToken, Tokens, Envelopes
    <3>2. Saved(l) \in [Accounts -> Tokens \cup {NoToken}]
      BY <3>1 DEF Saved
    <3> QED
      BY <2>3, <3>2
  <2> QED
    BY <2>1, <2>2, <2>3
<1>3. StagesAgree' /\ SeenIsFiled' /\ ComparedSinceSent' /\ SoleLoginIsOnFile'
  BY DEF StagesAgree, SeenIsFiled, ComparedSinceSent, SoleLoginIsOnFile, HoldsSession, Saved, Token,
         Finalizing
<1>4. SessionIsEarned'
  <2>1. UNCHANGED <<user, secret, seen, onFile>>
    OBVIOUS
  <2>2. CASE UNCHANGED session
    BY <2>1, <2>2, EarnedStaysEarned
  <2>3. CASE serving[l] = "saveSession" /\ session' = Saved(l)
    BY <2>1, <2>3, SavingIsEarned
  <2> QED
    BY <2>2, <2>3
<1> QED
  BY <1>2, <1>3, <1>4 DEF AuthInd

LEMMA RestartKeepsInd ==
  ASSUME AuthInd, Restart
  PROVE  AuthInd'
<1> USE NoneIsNoRun, AuthenticationAssumption
    DEF AuthInd, Restart, Crash, store, inputs, local, history, TypeOK, Waiting, Refusals
<1>1. TypeOK'
  <2>1. <<>> \in Seq(Logins)
    OBVIOUS
  <2>2. login' \in [Logins -> LoginStages] /\ serving' \in [Logins -> ServingStages]
    BY DEF LoginStages, ServingStages
  <2>3. CASE Persistent
    BY <2>2, <2>3
  <2>4. CASE ~Persistent
    <3>1. nonces' \in [Accounts -> Seq(Logins)]
      BY <2>1, <2>4
    <3>2. /\ envelope' \in [Accounts -> Envelopes \cup {NoEnvelope}]
          /\ session' \in [Accounts -> Tokens \cup {NoToken}]
      BY <2>4
    <3> QED
      BY <2>2, <3>1, <3>2
  <2> QED
    BY <2>3, <2>4
<1>2. StagesAgree'
  BY DEF StagesAgree, Starting, Finalizing
<1>3. SeenIsFiled'
  BY DEF SeenIsFiled, StagesAgree, Starting, Finalizing
<1>4. SessionIsEarned'
  <2>1. CASE Persistent
    BY <2>1, EarnedStaysEarned
  <2>2. CASE ~Persistent
    BY <2>2 DEF SessionIsEarned
  <2> QED
    BY <2>1, <2>2
<1>5. ComparedSinceSent'
  BY DEF ComparedSinceSent, SeenIsFiled, StagesAgree, Starting, Finalizing
<1>6. SoleLoginIsOnFile'
  BY DEF SoleLoginIsOnFile, HoldsSession, StagesAgree, Starting, Finalizing, Token
<1> QED
  BY <1>1, <1>2, <1>3, <1>4, <1>5, <1>6 DEF AuthInd

LEMMA NextKeepsInd == AuthInd /\ [Next]_vars => AuthInd'
<1> SUFFICES ASSUME AuthInd, [Next]_vars PROVE AuthInd'
  OBVIOUS
<1>1. ASSUME NEW l \in Logins, ClientStep(l) PROVE AuthInd'
  BY <1>1, ChallengeKeepsInd, SendKeepsInd, AcceptedKeepsInd, RefusalKeepsInd
     DEF ClientStep
<1>2. ASSUME NEW l \in Logins, HandlerStep(l) PROVE AuthInd'
  BY <1>2, LoadKeepsInd, PushKeepsInd, TrimKeepsInd, FindKeepsInd, VerifyKeepsInd,
     StoreSessionKeepsInd DEF HandlerStep
<1>3. CASE UNCHANGED vars
  BY <1>3 DEF vars, AuthInd, TypeOK, StagesAgree, SeenIsFiled, SessionIsEarned,
              Token, ComparedSinceSent, SoleLoginIsOnFile, HoldsSession
<1> QED
  BY <1>1, <1>2, <1>3, FileKeepsInd, BeginKeepsInd, LoseKeepsInd, CutShortKeepsInd,
     ExpireKeepsInd, LoseReplyKeepsInd, ResendKeepsInd, RestartKeepsInd DEF Next, Finished

-----------------------------------------------------------------------------
\* Every reachable state satisfies the inductive invariant.
THEOREM AuthenticationInductive == Spec => []AuthInd
<1>1. Init => AuthInd
  BY InitInd
<1>2. AuthInd /\ [Next]_vars => AuthInd'
  BY NextKeepsInd
<1> QED
  BY <1>1, <1>2, PTL DEF Spec

\* The variables keep their types: what is pushed and stored is a nonce of a
\* login, a token, an envelope.
THEOREM AuthenticationTypeCorrect == Spec => []TypeOK
<1>1. AuthInd => TypeOK
  BY DEF AuthInd
<1> QED
  BY <1>1, AuthenticationInductive, PTL

\* A session token on file was earned with a password that opened an envelope, on
\* file since the token was sent, by a login to the account it is filed under.
THEOREM SessionsAreEarned == Spec => []SessionIsEarned
<1>1. AuthInd => SessionIsEarned
  BY DEF AuthInd
<1> QED
  BY <1>1, AuthenticationInductive, PTL

\* No login is confirmed whose user key was replaced when it sent its token and
\* was not put back.
THEOREM ReplacedKeysAreRefused == Spec => []ReplacedKeyIsRefused
<1>1. AuthInd => ReplacedKeyIsRefused
  BY DEF AuthInd, ComparedSinceSent, ReplacedKeyIsRefused
<1> QED
  BY <1>1, AuthenticationInductive, PTL

\* A confirmed login whose account no other login has sent a token to holds the
\* session, as long as the store and the fifteen minutes last.
THEOREM SoleLoginsHoldSessions == Spec => []SoleLoginHoldsSession
<1>1. AuthInd => SoleLoginHoldsSession
  BY DEF AuthInd, SoleLoginIsOnFile, SoleLoginHoldsSession
<1> QED
  BY <1>1, AuthenticationInductive, PTL

-----------------------------------------------------------------------------
(* The refinement: a push issues a nonce, a trim does nothing.               *)

Recent == [a \in Accounts |-> UpToIndex(nonces[a], MaxNonces)]

\* The window and the range HasAuthNonce asks for have the same length.
LEMMA NewestIsUpToIndex ==
  ASSUME NEW s \in Seq(Logins)
  PROVE  Window!Newest(s) = UpToIndex(s, MaxNonces)
BY AuthenticationAssumption DEF Window!Newest, UpToIndex

LEMMA NoncesUntouched ==
  ASSUME UNCHANGED nonces
  PROVE  Recent' = Recent
BY DEF Recent

LEMMA PushIssues ==
  ASSUME AuthInd, NEW l \in Logins, serving[l] = "pushNonce", nonces' \in {nonces, Pushed(l)}
  PROVE  [Window!Next]_Recent
<1> DEFINE a == user[l]
<1>1. /\ a \in Accounts
      /\ nonces \in [Accounts -> Seq(Logins)]
      /\ nonces[a] \in Seq(Logins)
      /\ <<l>> \o nonces[a] \in Seq(Logins)
  BY DEF AuthInd, StagesAgree, TypeOK
<1>2. CASE nonces' = nonces
  BY <1>2, NoncesUntouched
<1>3. CASE nonces' = Pushed(l)
  <2>1. Recent'[a] = UpToIndex(<<l>> \o nonces[a], MaxNonces)
    BY <1>1, <1>3 DEF Recent, Pushed
  <2>2. \A b \in Accounts \ {a} : Recent'[b] = Recent[b]
    BY <1>1, <1>3 DEF Recent, Pushed
  <2>3. /\ Recent[a] = UpToIndex(nonces[a], MaxNonces)
        /\ <<l>> \o Recent[a] \in Seq(Logins)
    BY <1>1, AuthenticationAssumption, UpToIndexProperties DEF Recent
  <2>4. Window!Newest(<<l>> \o Recent[a]) = UpToIndex(<<l>> \o nonces[a], MaxNonces)
    <3>1. UpToIndex(<<l>> \o UpToIndex(nonces[a], MaxNonces), MaxNonces)
            = UpToIndex(<<l>> \o nonces[a], MaxNonces)
      BY <1>1, PushOnWindow, AuthenticationAssumption
    <3>2. Window!Newest(<<l>> \o Recent[a]) = UpToIndex(<<l>> \o Recent[a], MaxNonces)
      BY <2>3, NewestIsUpToIndex
    <3> QED
      BY <2>3, <3>1, <3>2
  <2>5. Recent' = [Recent EXCEPT ![a] = Window!Newest(<<l>> \o @)]
    BY <1>1, <2>1, <2>2, <2>4 DEF Recent
  <2>6. Window!Issue(a, l)
    BY <2>5 DEF Window!Issue, Recent
  <2> QED
    BY <1>1, <2>6 DEF Window!Next
<1> QED
  BY <1>2, <1>3

LEMMA TrimIsStutter ==
  ASSUME AuthInd, NEW l \in Logins, serving[l] = "trimNonces", nonces' \in {nonces, Trimmed(l)}
  PROVE  Recent' = Recent
<1> DEFINE a == user[l]
<1>1. a \in Accounts /\ nonces \in [Accounts -> Seq(Logins)]
  BY DEF AuthInd, StagesAgree, TypeOK
<1>2. CASE nonces' = nonces
  BY <1>2, NoncesUntouched
<1>3. CASE nonces' = Trimmed(l)
  <2>1. UpToIndex(UpToIndex(nonces[a], MaxNonces), MaxNonces) = UpToIndex(nonces[a], MaxNonces)
    BY <1>1, TrimIsInvisible, AuthenticationAssumption
  <2> QED
    BY <1>1, <1>3, <2>1 DEF Recent, Trimmed
<1> QED
  BY <1>2, <1>3

\* What HasAuthNonce can find is the nonce window: random trimming, errors and
\* restarts included, a nonce is known until MaxNonces + 1 newer ones have been
\* issued for its account.
THEOREM AuthenticationImplementsNonceWindow == Spec => ImplementsNonceWindow
<1>1. Init => Window!Init
  <2>1. UpToIndex(<<>>, MaxNonces) = <<>>
    BY AuthenticationAssumption, SubSeqEmpty DEF UpToIndex
  <2> QED
    BY <2>1 DEF Init, Window!Init
<1>2. AuthInd /\ [Next]_vars => [Window!Next]_Recent
  <2> SUFFICES ASSUME AuthInd, [Next]_vars PROVE [Window!Next]_Recent
    OBVIOUS
  <2>1. ASSUME NEW l \in Logins,
               \/ ClientStep(l) \/ BeginLogin(l) \/ LoseConnection(l)
               \/ BodyCutShort(l) \/ ResendToken(l)
        PROVE  UNCHANGED nonces
    BY <2>1 DEF ClientStep, ReceiveChallenge, SendToken, ReceiveAccepted, ReceiveRefusal,
                BeginLogin, LoseConnection, BodyCutShort, ResendToken, store
  <2>2. ASSUME NEW l \in Logins, HandlerStep(l) PROVE [Window!Next]_Recent
    <3>1. CASE PushNonce(l)
      BY <3>1, PushIssues DEF PushNonce
    <3>2. CASE TrimNonces(l)
      BY <3>2, TrimIsStutter DEF TrimNonces
    <3>3. CASE ~PushNonce(l) /\ ~TrimNonces(l)
      <4>1. UNCHANGED nonces
        BY <2>2, <3>3 DEF HandlerStep, LoadUserEnvelope, FindNonce, VerifyToken,
                          StoreSessionToken, store
      <4> QED
        BY <4>1, NoncesUntouched
    <3> QED
      BY <3>1, <3>2, <3>3
  <2>3. CASE Restart
    <3>1. CASE Persistent
      BY <2>3, <3>1, NoncesUntouched DEF Restart, Crash, store
    <3>2. CASE ~Persistent
      <4>1. UpToIndex(<<>>, MaxNonces) = <<>>
        BY AuthenticationAssumption, SubSeqEmpty DEF UpToIndex
      <4> QED
        BY <2>3, <3>2, <4>1 DEF Restart, Crash, Window!Next, Window!Forget, Recent
    <3> QED
      BY <3>1, <3>2
  <2>4. ASSUME \/ \E a \in Accounts, e \in Envelopes : FileEnvelope(a, e)
               \/ \E a \in Accounts : ExpireSession(a)
               \/ Finished \/ UNCHANGED vars
        PROVE  UNCHANGED nonces
    BY <2>4 DEF FileEnvelope, ExpireSession, Finished, vars
  <2>5. ASSUME NEW l \in Logins, LoseReply(l) PROVE [Window!Next]_Recent
    BY <2>5, PushIssues, TrimIsStutter, NoncesUntouched DEF LoseReply
  <2> QED
    BY <2>1, <2>2, <2>3, <2>4, <2>5, NoncesUntouched DEF Next
<1> QED
  BY <1>1, <1>2, AuthenticationInductive, PTL
     DEF Spec, ImplementsNonceWindow, Window!Spec, Recent

-----------------------------------------------------------------------------
(* A token whose nonce has been pushed out is dead.                          *)

\* A push brings no other nonce into the part HasAuthNonce reads.
LEMMA PushBringsItself ==
  ASSUME NEW S, NEW s \in Seq(S), NEW x \in S, NEW n \in Nat, NEW y,
         y # x, \A i \in 1..Len(UpToIndex(s, n)) : UpToIndex(s, n)[i] # y
  PROVE  \A i \in 1..Len(UpToIndex(<<x>> \o s, n)) : UpToIndex(<<x>> \o s, n)[i] # y
<1> DEFINE long == <<x>> \o s
<1>1. /\ <<x>> \in Seq(S) /\ Len(<<x>>) = 1 /\ <<x>>[1] = x /\ Len(s) \in Nat
  OBVIOUS
<1>2. /\ long \in Seq(S) /\ Len(long) = Len(s) + 1
      /\ \A i \in 1..Len(s) + 1 : long[i] = IF i = 1 THEN x ELSE s[i - 1]
  BY <1>1, ConcatProperties
<1> HIDE DEF long
<1>3. /\ Len(UpToIndex(long, n)) = IF n < Len(s) + 1 THEN n + 1 ELSE Len(s) + 1
      /\ \A i \in 1..Len(UpToIndex(long, n)) : UpToIndex(long, n)[i] = long[i]
  BY <1>2, UpToIndexProperties
<1>4. /\ Len(UpToIndex(s, n)) = IF n < Len(s) THEN n + 1 ELSE Len(s)
      /\ \A i \in 1..Len(UpToIndex(s, n)) : UpToIndex(s, n)[i] = s[i]
  BY UpToIndexProperties
<1>5. ASSUME NEW i \in 1..Len(UpToIndex(long, n)) PROVE UpToIndex(long, n)[i] # y
  <2>1. i \in 1..Len(s) + 1 /\ i <= n + 1 /\ UpToIndex(long, n)[i] = long[i]
    BY <1>1, <1>3
  <2>2. CASE i = 1
    BY <1>2, <2>1, <2>2
  <2>3. CASE i # 1
    <3>1. i - 1 \in 1..Len(s) /\ i - 1 <= n
      BY <1>1, <2>1, <2>3
    <3>2. i - 1 \in 1..Len(UpToIndex(s, n))
      BY <1>1, <1>4, <3>1
    <3>3. s[i - 1] # y
      BY <1>4, <3>2
    <3> QED
      BY <1>2, <2>1, <2>3, <3>3
  <2> QED
    BY <2>2, <2>3
<1> QED
  BY <1>5 DEF long

\* ... so what other handlers push and trim does not make an unknown nonce known.
LEMMA UnknownStaysUnknown ==
  ASSUME AuthInd, NEW l \in Logins, NEW m \in Logins, user[l] \in Accounts, user[m] \in Accounts,
         ~NonceKnown(l), user' = user,
         \/ nonces' = nonces
         \/ m # l /\ nonces' = Pushed(m)
         \/ nonces' = Trimmed(m)
  PROVE  ~NonceKnown(l)'
<1> DEFINE s == nonces[user[l]]
<1>1. s \in Seq(Logins) /\ MaxNonces \in Nat
  BY AuthenticationAssumption DEF AuthInd, TypeOK
<1>2. \A i \in 1..Len(UpToIndex(s, MaxNonces)) : UpToIndex(s, MaxNonces)[i] # l
  BY DEF NonceKnown
<1>3. CASE nonces' = nonces
  BY <1>3 DEF NonceKnown
<1>4. CASE m # l /\ nonces' = Pushed(m)
  <2>1. nonces'[user[l]] = IF user[m] = user[l] THEN <<m>> \o s ELSE s
    BY <1>4 DEF Pushed, AuthInd, TypeOK
  <2>2. \A i \in 1..Len(UpToIndex(<<m>> \o s, MaxNonces)) :
          UpToIndex(<<m>> \o s, MaxNonces)[i] # l
    BY <1>1, <1>2, <1>4, PushBringsItself
  <2> QED
    BY <1>2, <2>1, <2>2 DEF NonceKnown
<1>5. CASE nonces' = Trimmed(m)
  <2>1. nonces'[user[l]] = IF user[m] = user[l] THEN UpToIndex(s, MaxNonces) ELSE s
    BY <1>5 DEF Trimmed, AuthInd, TypeOK
  <2>2. UpToIndex(UpToIndex(s, MaxNonces), MaxNonces) = UpToIndex(s, MaxNonces)
    BY <1>1, TrimIsInvisible
  <2> QED
    BY <1>2, <2>1, <2>2 DEF NonceKnown
<1> QED
  BY <1>3, <1>4, <1>5

LEMMA LapsedHasBegun ==
  ASSUME AuthInd, NEW l \in Logins, Lapsed(l)
  PROVE  /\ login[l] # "idle" /\ user[l] \in Accounts
         /\ serving[l] \notin {"loadEnvelope", "pushNonce", "verify", "saveSession"}
         /\ \A m \in Logins \ {l} : Token(m) # Token(l)
         /\ Token(l) # NoToken
BY NoneIsNoRun, AuthenticationAssumption
   DEF AuthInd, StagesAgree, Lapsed, Token, SessionToken, NoToken

LEMMA HandlersKeepLapsed ==
  ASSUME AuthInd, NEW l \in Logins, Lapsed(l), NEW m \in Logins, HandlerStep(m) \/ LoseReply(m)
  PROVE  Lapsed(l)'
<1> USE LapsedHasBegun DEF store, inputs, local, history
<1>1. user[m] \in Accounts /\ user' = user
  BY DEF AuthInd, StagesAgree, HandlerStep, LoadUserEnvelope, PushNonce, TrimNonces, FindNonce,
         VerifyToken, StoreSessionToken, LoseReply
<1>2. seen'[l] = seen[l] /\ Token(l)' = Token(l)
  BY DEF HandlerStep, LoadUserEnvelope, PushNonce, TrimNonces, FindNonce, VerifyToken,
         StoreSessionToken, LoseReply, AuthInd, TypeOK, Token
<1>3. ~NonceKnown(l)'
  <2>1. \/ nonces' = nonces
        \/ m # l /\ nonces' = Pushed(m)
        \/ nonces' = Trimmed(m)
    BY DEF HandlerStep, LoadUserEnvelope, PushNonce, TrimNonces, FindNonce, VerifyToken,
           StoreSessionToken, LoseReply
  <2> QED
    BY <1>1, <2>1, UnknownStaysUnknown DEF Lapsed
<1>4. session'[user[l]] # Token(l)
  <2>1. session' = session \/ (m # l /\ session' = Saved(m))
    BY DEF HandlerStep, LoadUserEnvelope, PushNonce, TrimNonces, FindNonce, VerifyToken,
           StoreSessionToken, LoseReply
  <2>2. session'[user[l]] \in {session[user[l]]} \cup (IF m # l THEN {Token(m)} ELSE {})
    BY <2>1 DEF Saved, AuthInd, TypeOK
  <2> QED
    BY <2>2 DEF Lapsed
<1>5. serving'[l] \notin {"pushNonce", "verify", "saveSession"}
  BY DEF Lapsed, HandlerStep, LoadUserEnvelope, PushNonce, TrimNonces, FindNonce, VerifyToken,
         StoreSessionToken, LoseReply, AuthInd, TypeOK
<1> QED
  BY <1>1, <1>2, <1>3, <1>4, <1>5 DEF Lapsed

\* A login whose nonce newer ones have pushed out, and which no handler is past
\* looking up, never gets its token on file again, however often it is sent.
THEOREM LapsedLoginsStayLapsed == Spec => LapsedStaysLapsed
<1>1. AuthInd /\ [Next]_vars => \A l \in Logins : Lapsed(l) => Lapsed(l)'
  <2> SUFFICES ASSUME AuthInd, [Next]_vars, NEW l \in Logins, Lapsed(l) PROVE Lapsed(l)'
    OBVIOUS
  <2> USE LapsedHasBegun DEF store, inputs, local, history
  <2>1. ASSUME NEW m \in Logins, HandlerStep(m) \/ LoseReply(m) PROVE Lapsed(l)'
    BY <2>1, HandlersKeepLapsed
  <2>2. ASSUME NEW m \in Logins,
               \/ BeginLogin(m) \/ ClientStep(m) \/ LoseConnection(m)
               \/ BodyCutShort(m) \/ ResendToken(m)
        PROVE  Lapsed(l)'
    <3>1. /\ user'[l] = user[l] /\ seen'[l] = seen[l] /\ nonces' = nonces /\ session' = session
          /\ serving'[l] \notin {"pushNonce", "verify", "saveSession"}
      BY <2>2 DEF BeginLogin, ClientStep, ReceiveChallenge, SendToken, ReceiveAccepted,
                  ReceiveRefusal, LoseConnection, BodyCutShort, ResendToken, AuthInd, TypeOK,
                  Lapsed
    <3> QED
      BY <3>1 DEF Lapsed, NonceKnown, Token
  <2>3. ASSUME NEW a \in Accounts, ExpireSession(a) PROVE Lapsed(l)'
    <3>1. session'[user[l]] \in {session[user[l]], NoToken}
      BY <2>3 DEF ExpireSession, AuthInd, TypeOK
    <3> QED
      BY <2>3, <3>1 DEF Lapsed, NonceKnown, Token, ExpireSession
  <2>4. ASSUME NEW a \in Accounts, NEW e \in Envelopes, FileEnvelope(a, e) PROVE Lapsed(l)'
    BY <2>4 DEF FileEnvelope, Lapsed, NonceKnown, Token
  <2>5. CASE Restart
    <3>1. user' = user /\ seen' = seen /\ serving'[l] = "none"
      BY <2>5 DEF Restart, Crash
    <3>2. CASE Persistent
      BY <2>5, <3>1, <3>2 DEF Restart, Crash, Lapsed, NonceKnown, Token
    <3>3. CASE ~Persistent
      <4>1. nonces'[user[l]] = <<>> /\ session'[user[l]] = NoToken
        BY <2>5, <3>3 DEF Restart, Crash
      <4>2. Len(UpToIndex(<<>>, MaxNonces)) = 0
        BY AuthenticationAssumption, SubSeqEmpty DEF UpToIndex
      <4>3. ~NonceKnown(l)'
        BY <3>1, <4>1, <4>2 DEF NonceKnown
      <4> QED
        BY <3>1, <4>1, <4>3 DEF Lapsed, Token
    <3> QED
      BY <3>2, <3>3
  <2>6. CASE UNCHANGED vars
    BY <2>6 DEF vars, Lapsed, NonceKnown, Token
  <2> QED
    BY <2>1, <2>2, <2>3, <2>4, <2>5, <2>6 DEF Next, Finished
<1> QED
  BY <1>1, AuthenticationInductive, PTL DEF Spec, LapsedStaysLapsed
=====================================================================================
