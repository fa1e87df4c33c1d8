-------------------------------- MODULE IndexProofs --------------------------------
(* Proofs about the index page, for names of any length and any number of them. *)
EXTENDS IndexPage, SequenceTheorems, TLAPS

-----------------------------------------------------------------------------
(* The keys.                                                                 *)

\* A name is a text of one part or more.
LEMMA NameIsText ==
  ASSUME NEW n \in Names
  PROVE  n \in Text /\ Len(n) \in Nat \ {0}
BY IndexPageAssumption, EmptySeq DEF Text

\* A text of one part.
LEMMA OnePart ==
  ASSUME NEW S, NEW x \in S
  PROVE  <<x>> \in Seq(S) /\ Len(<<x>>) = 1 /\ <<x>>[1] = x
OBVIOUS

LEMMA FixedParts ==
  /\ <<"reg">> \in Text /\ Len(<<"reg">>) = 1 /\ <<"reg">>[1] = "reg"
  /\ <<"envelope">> \in Text /\ Len(<<"envelope">>) = 1 /\ <<"envelope">>[1] = "envelope"
  /\ <<"app_secrets">> \in Text /\ Len(<<"app_secrets">>) = 1
  /\ <<"app_secrets">>[1] = "app_secrets"
  /\ <<"secret">> \in Text /\ Len(<<"secret">>) = 1 /\ <<"secret">>[1] = "secret"
<1>1. {"reg", "envelope", "app_secrets", "secret"} \subseteq Parts
  BY IndexPageAssumption
<1>. QED
  BY <1>1, OnePart DEF Text

\* A text put between two parts, which is how both kinds of keys are made.
LEMMA Between ==
  ASSUME NEW p \in Text, NEW q \in Text, NEW t \in Text, Len(p) = 1, Len(q) = 1
  PROVE  /\ p \o t \o q \in Text
         /\ Len(t) \in Nat /\ Len(p \o t \o q) = Len(t) + 2
         /\ (p \o t \o q)[1] = p[1]
         /\ (p \o t \o q)[Len(t) + 2] = q[1]
         /\ \A i \in 1..Len(t) : (p \o t \o q)[i + 1] = t[i]
<1>1. /\ p \in Seq(Parts) /\ q \in Seq(Parts) /\ t \in Seq(Parts) /\ Len(t) \in Nat
      /\ Len(p) = 1 /\ Len(q) = 1
  BY LenProperties DEF Text
<1>. DEFINE front == p \o t
            key == front \o q
<1>2. /\ front \in Seq(Parts) /\ Len(front) = Len(t) + 1
      /\ \A i \in 1..Len(t) + 1 : front[i] = IF i <= 1 THEN p[i] ELSE t[i - 1]
  <2>1. /\ front \in Seq(Parts) /\ Len(front) = Len(p) + Len(t)
        /\ \A i \in 1..Len(p) + Len(t) :
              front[i] = IF i <= Len(p) THEN p[i] ELSE t[i - Len(p)]
    <3>1. p \in Seq(Parts) /\ t \in Seq(Parts)
      BY <1>1
    <3>. QED
      BY <3>1, ConcatProperties
  <2>. HIDE DEF front
  <2>2. Len(p) + Len(t) = Len(t) + 1
    BY <1>1
  <2>. QED
    BY <1>1, <2>1, <2>2
<1>. HIDE DEF front
<1>3. /\ key \in Seq(Parts) /\ Len(key) = Len(t) + 2
      /\ \A i \in 1..Len(t) + 2 :
           key[i] = IF i <= Len(t) + 1 THEN front[i] ELSE q[i - (Len(t) + 1)]
  <2>1. /\ key \in Seq(Parts) /\ Len(key) = Len(front) + Len(q)
        /\ \A i \in 1..Len(front) + Len(q) :
             key[i] = IF i <= Len(front) THEN front[i] ELSE q[i - Len(front)]
    BY <1>1, <1>2, ConcatProperties
  <2>2. Len(front) + Len(q) = Len(t) + 2
    BY <1>1, <1>2
  <2>. QED
    BY <1>2, <2>1, <2>2
<1>. HIDE DEF key
<1>4. key[1] = p[1]
  <2>1. front[1] = p[1]
    BY <1>1, <1>2
  <2>2. key[1] = front[1]
    BY <1>1, <1>3
  <2>. QED
    BY <2>1, <2>2
<1>5. key[Len(t) + 2] = q[1]
  BY <1>1, <1>3
<1>6. ASSUME NEW i \in 1..Len(t) PROVE key[i + 1] = t[i]
  BY <1>1, <1>2, <1>3
<1>7. /\ key \in Text
      /\ Len(t) \in Nat /\ Len(key) = Len(t) + 2
      /\ key[1] = p[1] /\ key[Len(t) + 2] = q[1]
      /\ \A i \in 1..Len(t) : key[i + 1] = t[i]
  BY <1>1, <1>3, <1>4, <1>5, <1>6 DEF Text
<1>. QED
  BY <1>7 DEF key, front

\* An envelope's key is its two names between two parts.
LEMMA EnvelopeKey ==
  ASSUME NEW t \in Text, NEW u \in Text
  PROVE  /\ t \o u \in Text
         /\ Len(t) \in Nat /\ Len(u) \in Nat /\ Len(t \o u) = Len(t) + Len(u)
         /\ UserEnvelopeKey(t, u) = <<"reg">> \o (t \o u) \o <<"envelope">>
<1>1. <<"reg">> \o t \o u = <<"reg">> \o (t \o u)
  BY FixedParts, ConcatAssociative DEF Text
<1>2. /\ t \o u \in Text
      /\ Len(t) \in Nat /\ Len(u) \in Nat /\ Len(t \o u) = Len(t) + Len(u)
  BY LenProperties, ConcatProperties DEF Text
<1>. QED
  BY <1>1, <1>2 DEF UserEnvelopeKey

\* What a key looks like: its ends, and the names between them.
LEMMA SecretShape ==
  ASSUME NEW t \in Text
  PROVE  /\ AppSecretKey(t) \in Text
         /\ Len(t) \in Nat /\ Len(AppSecretKey(t)) = Len(t) + 2
         /\ AppSecretKey(t)[1] = "app_secrets"
         /\ AppSecretKey(t)[Len(t) + 2] = "secret"
         /\ \A i \in 1..Len(t) : AppSecretKey(t)[i + 1] = t[i]
<1>. DEFINE p == <<"app_secrets">>
            q == <<"secret">>
<1>1. /\ p \in Text /\ Len(p) = 1 /\ p[1] = "app_secrets"
      /\ q \in Text /\ Len(q) = 1 /\ q[1] = "secret"
  BY FixedParts
<1>2. AppSecretKey(t) = p \o t \o q
  BY DEF AppSecretKey
<1>. HIDE DEF p, q
<1>3. /\ p \o t \o q \in Text
      /\ Len(t) \in Nat /\ Len(p \o t \o q) = Len(t) + 2
      /\ (p \o t \o q)[1] = p[1] /\ (p \o t \o q)[Len(t) + 2] = q[1]
      /\ \A i \in 1..Len(t) : (p \o t \o q)[i + 1] = t[i]
  <2>1. p \in Text /\ q \in Text /\ Len(p) = 1 /\ Len(q) = 1
    BY <1>1
  <2>. QED
    BY <2>1, Between
<1>. DEFINE key == p \o t \o q
<1>. HIDE DEF key
<1>. QED
  BY <1>1, <1>2, <1>3 DEF key

LEMMA EnvelopeShape ==
  ASSUME NEW t \in Text, NEW u \in Text
  PROVE  LET key == UserEnvelopeKey(t, u) IN
         /\ key \in Text
         /\ Len(t) \in Nat /\ Len(u) \in Nat /\ Len(key) = Len(t) + Len(u) + 2
         /\ key[1] = "reg"
         /\ key[Len(t) + Len(u) + 2] = "envelope"
         /\ \A i \in 1..Len(t) + Len(u) : key[i + 1] = (t \o u)[i]
<1>. DEFINE p == <<"reg">>
            q == <<"envelope">>
            tu == t \o u
            key == UserEnvelopeKey(t, u)
<1>1. /\ p \in Text /\ Len(p) = 1 /\ p[1] = "reg"
      /\ q \in Text /\ Len(q) = 1 /\ q[1] = "envelope"
  BY FixedParts
<1>2. /\ tu \in Text
      /\ Len(t) \in Nat /\ Len(u) \in Nat /\ Len(tu) = Len(t) + Len(u)
      /\ key = p \o tu \o q
  BY EnvelopeKey
<1>. HIDE DEF p, q, tu, key
<1>3. /\ key \in Text
      /\ Len(key) = Len(tu) + 2
      /\ key[1] = p[1] /\ key[Len(tu) + 2] = q[1]
      /\ \A i \in 1..Len(tu) : key[i + 1] = tu[i]
  <2>1. /\ p \o tu \o q \in Text
        /\ Len(p \o tu \o q) = Len(tu) + 2
        /\ (p \o tu \o q)[1] = p[1] /\ (p \o tu \o q)[Len(tu) + 2] = q[1]
        /\ \A i \in 1..Len(tu) : (p \o tu \o q)[i + 1] = tu[i]
    <3>1. p \in Text /\ Len(p) = 1 /\ q \in Text /\ Len(q) = 1 /\ tu \in Text
      BY <1>1, <1>2
    <3>. QED
      BY <3>1, Between
  <2>. QED
    BY <1>2, <2>1
<1>4. /\ key \in Text
      /\ Len(t) \in Nat /\ Len(u) \in Nat /\ Len(key) = Len(t) + Len(u) + 2
      /\ key[1] = "reg"
      /\ key[Len(t) + Len(u) + 2] = "envelope"
      /\ \A i \in 1..Len(t) + Len(u) : key[i + 1] = tu[i]
  BY <1>1, <1>2, <1>3 
<1>. QED
  BY <1>4 DEF key, tu

\* The keys of plain names, part by part.
LEMMA PlainKeys ==
  ASSUME NEW t \in Text, NEW u \in Text, IsPlain(t), IsPlain(u)
  PROVE  /\ Len(UserEnvelopeKey(t, u)) = 4
         /\ UserEnvelopeKey(t, u)[1] = "reg"
         /\ UserEnvelopeKey(t, u)[2] = t[1]
         /\ UserEnvelopeKey(t, u)[3] = u[1]
         /\ UserEnvelopeKey(t, u)[4] = "envelope"
         /\ Len(AppSecretKey(t)) = 3
         /\ AppSecretKey(t)[1] = "app_secrets"
         /\ AppSecretKey(t)[2] = t[1]
         /\ AppSecretKey(t)[3] = "secret"
<1>. DEFINE tu == t \o u
            key == UserEnvelopeKey(t, u)
            secret == AppSecretKey(t)
<1>1. t \in Seq(Parts) /\ u \in Seq(Parts) /\ Len(t) = 1 /\ Len(u) = 1
  BY DEF Text, IsPlain
<1>2. tu[1] = t[1] /\ tu[2] = u[1]
  <2>1. \A i \in 1..Len(t) + Len(u) : tu[i] = IF i <= Len(t) THEN t[i] ELSE u[i - Len(t)]
    <3>1. t \in Seq(Parts) /\ u \in Seq(Parts)
      BY <1>1
    <3>. QED
      BY <3>1, ConcatProperties
  <2>. HIDE DEF tu
  <2>. QED
    BY <1>1, <2>1
<1>3. /\ Len(key) = Len(t) + Len(u) + 2
      /\ key[1] = "reg" /\ key[Len(t) + Len(u) + 2] = "envelope"
      /\ \A i \in 1..Len(t) + Len(u) : key[i + 1] = tu[i]
  BY EnvelopeShape
<1>4. /\ Len(secret) = Len(t) + 2
      /\ secret[1] = "app_secrets" /\ secret[Len(t) + 2] = "secret"
      /\ \A i \in 1..Len(t) : secret[i + 1] = t[i]
  BY SecretShape
<1>. HIDE DEF key, secret, tu
<1>5. Len(key) = 4 /\ key[4] = "envelope" /\ key[2] = tu[1] /\ key[3] = tu[2]
  BY <1>1, <1>3
<1>6. Len(secret) = 3 /\ secret[3] = "secret" /\ secret[2] = t[1]
  BY <1>1, <1>4
<1>. QED
  BY <1>2, <1>3, <1>4, <1>5, <1>6 DEF key, secret

\* Texts without a colon are equal if their one part is.
LEMMA PlainText ==
  ASSUME NEW t \in Text, NEW u \in Text, IsPlain(t), IsPlain(u), t[1] = u[1]
  PROVE  t = u
BY SeqEqual DEF Text, IsPlain

\* A part of a key is a name without a colon.
LEMMA PartIsPlain ==
  ASSUME NEW k \in Text, NEW i \in 1..Len(k)
  PROVE  <<k[i]>> \in Text /\ IsPlain(<<k[i]>>) /\ <<k[i]>>[1] = k[i]
<1>1. k[i] \in Parts
  BY ElementOfSeq DEF Text
<1>. QED
  BY <1>1, OnePart DEF Text, IsPlain

\* An account that shares its key with plain names has these names.
LEMMA PlainKeysAreUnique ==
  ASSUME NEW t \in Names, NEW u \in Names, NEW v \in Text, NEW w \in Text,
         IsPlain(v), IsPlain(w),
         UserEnvelopeKey(t, u) = UserEnvelopeKey(v, w)
  PROVE  t = v /\ u = w
<1>1. t \in Text /\ u \in Text /\ Len(t) \in Nat \ {0} /\ Len(u) \in Nat \ {0}
  BY NameIsText
<1>2. /\ Len(UserEnvelopeKey(t, u)) = Len(t) + Len(u) + 2
      /\ Len(UserEnvelopeKey(v, w)) = 4
  BY <1>1, EnvelopeShape, PlainKeys
<1>3. IsPlain(t) /\ IsPlain(u)
  <2>1. Len(t) + Len(u) + 2 = 4
    BY <1>2
  <2>. QED
    BY <1>1, <2>1 DEF IsPlain
<1>4. t[1] = v[1] /\ u[1] = w[1]
  BY <1>1, <1>3, PlainKeys
<1>. QED
  BY <1>1, <1>3, <1>4, PlainText

-----------------------------------------------------------------------------
(* What KEYS returns.                                                        *)

\* A key that matches begins as the pattern does.
LEMMA MatchBegins ==
  ASSUME keys \subseteq Text, NEW before \in Text, NEW after \in Text,
         NEW k \in Matching(before, after)
  PROVE  /\ k \in keys /\ k \in Text
         /\ Len(before) \in Nat /\ Len(after) \in Nat /\ Len(k) \in Nat
         /\ Len(k) > Len(before) + Len(after)
         /\ \A i \in 1..Len(before) : k[i] = before[i]
<1>1. /\ k \in keys /\ k \in Seq(Parts)
      /\ Len(before) \in Nat /\ Len(after) \in Nat /\ Len(k) \in Nat
      /\ Len(k) > Len(before) + Len(after)
      /\ SubSeq(k, 1, Len(before)) = before
  BY LenProperties DEF Matching, Text
<1>. DEFINE n == Len(before)
<1>2. \A i \in 1..n : k[i] \in Parts
  BY <1>1, ElementOfSeq
<1>3. \A i \in 1..n : SubSeq(k, 1, n)[i] = k[i]
  BY <1>1, <1>2, SubSeqProperties
<1>. QED
  BY <1>1, <1>3 DEF Text

\* ... and a key that begins and ends as the pattern does matches.
LEMMA Matches ==
  ASSUME NEW k \in keys, k \in Text, NEW before \in Text, NEW after \in Text,
         Len(after) = 1,
         Len(k) > Len(before) + 1,
         \A i \in 1..Len(before) : k[i] = before[i],
         k[Len(k)] = after[1]
  PROVE  k \in Matching(before, after)
<1>. DEFINE n == Len(before)
            m == Len(k)
<1>1. k \in Seq(Parts) /\ before \in Seq(Parts) /\ after \in Seq(Parts) /\ n \in Nat /\ m \in Nat
  BY LenProperties DEF Text
<1>2. n < m /\ 1 <= m
  BY <1>1
<1>. HIDE DEF n, m
<1>3. SubSeq(k, 1, n) = before
  <2>1. \A i \in 1..n : k[i] \in Parts
    BY <1>1, <1>2, ElementOfSeq DEF n, m
  <2>2. /\ SubSeq(k, 1, n) \in Seq(Parts) /\ Len(SubSeq(k, 1, n)) = n
        /\ \A i \in 1..n : SubSeq(k, 1, n)[i] = k[i]
    BY <1>1, <2>1, SubSeqProperties
  <2>. QED
    BY <1>1, <2>2, SeqEqual DEF n
<1>4. SubSeq(k, m, m) = after
  <2>1. \A i \in m..m : k[i] \in Parts
    BY <1>1, <1>2, ElementOfSeq DEF m
  <2>2. /\ SubSeq(k, m, m) \in Seq(Parts) /\ Len(SubSeq(k, m, m)) = 1
        /\ \A i \in 1..m - m + 1 : SubSeq(k, m, m)[i] = k[m + i - 1]
    BY <1>1, <2>1, SubSeqProperties
  <2>3. SubSeq(k, m, m)[1] = after[1]
    BY <1>1, <2>2 DEF m
  <2>. QED
    BY <1>1, <2>2, <2>3, SeqEqual
<1>5. SubSeq(k, Len(k) - Len(after) + 1, Len(k)) = after
  BY <1>1, <1>4 DEF m
<1>. QED
  BY <1>3, <1>5 DEF Matching, n

\* What is read off the keys of secrets: names without a colon ...
LEMMA TokensFound ==
  ASSUME keys \subseteq Text, NEW f \in AllAppTokens
  PROVE  f \in Found /\ IsPlain(f.name)
<1>1. PICK k \in Matching(<<"app_secrets">>, <<"secret">>) : f = [from |-> k, name |-> <<k[2]>>]
  BY DEF AllAppTokens
<1>2. k \in Text /\ Len(k) \in Nat /\ Len(k) > 2
  BY FixedParts, MatchBegins
<1>. QED
  BY <1>1, <1>2, PartIsPlain DEF Found

\* ... all that the configuration has.
LEMMA SecretIsFound ==
  ASSUME keys \subseteq Text, NEW t \in Text, IsPlain(t), AppSecretKey(t) \in keys
  PROVE  \E f \in AllAppTokens : f.name = t
<1>. DEFINE k == AppSecretKey(t)
            before == <<"app_secrets">>
            after == <<"secret">>
<1>1. k \in Text /\ Len(k) = 3 /\ k[1] = "app_secrets" /\ k[2] = t[1] /\ k[3] = "secret"
  BY PlainKeys
<1>2. /\ before \in Text /\ Len(before) = 1 /\ before[1] = "app_secrets"
      /\ after \in Text /\ Len(after) = 1 /\ after[1] = "secret"
  BY FixedParts
<1>3. k \in Matching(before, after)
  <2>. HIDE DEF k, before, after
  <2>1. /\ \A i \in 1..Len(before) : k[i] = before[i]
        /\ Len(k) > Len(before) + 1
        /\ k[Len(k)] = after[1]
    BY <1>1, <1>2
  <2>. QED
    BY <1>1, <1>2, <2>1, Matches DEF k
<1>4. <<k[2]>> = t
  <2>. HIDE DEF k
  <2>1. <<k[2]>> \in Text /\ IsPlain(<<k[2]>>) /\ <<k[2]>>[1] = t[1]
    BY <1>1, PartIsPlain
  <2>. QED
    BY <2>1, PlainText
<1>5. [from |-> k, name |-> <<k[2]>>] \in AllAppTokens
  BY <1>3 DEF AllAppTokens
<1>. QED
  BY <1>4, <1>5

\* The pattern for the envelopes of an app token without a colon.
LEMMA EnvelopePattern ==
  ASSUME NEW t \in Text, IsPlain(t)
  PROVE  /\ <<"reg">> \o t \in Text /\ Len(<<"reg">> \o t) = 2
         /\ (<<"reg">> \o t)[1] = "reg" /\ (<<"reg">> \o t)[2] = t[1]
<1>. DEFINE p == <<"reg">>
            pt == p \o t
<1>1. p \in Seq(Parts) /\ Len(p) = 1 /\ p[1] = "reg" /\ t \in Seq(Parts) /\ Len(t) = 1
  BY FixedParts DEF Text, IsPlain
<1>. HIDE DEF p
<1>2. /\ pt \in Seq(Parts) /\ Len(pt) = Len(p) + Len(t)
      /\ \A i \in 1..Len(p) + Len(t) : pt[i] = IF i <= Len(p) THEN p[i] ELSE t[i - Len(p)]
  BY <1>1, ConcatProperties
<1>. HIDE DEF pt
<1>3. pt[1] = p[1] /\ pt[2] = t[1]
  BY <1>1, <1>2
<1>4. pt \in Text /\ Len(pt) = 2 /\ pt[1] = "reg" /\ pt[2] = t[1]
  BY <1>1, <1>2, <1>3 DEF Text
<1>. QED
  BY <1>4 DEF p, pt

\* What is read off the keys of envelopes under an app token.
LEMMA UsernamesFound ==
  ASSUME keys \subseteq Text, NEW t \in Text, IsPlain(t), NEW f \in AllUsernames(t)
  PROVE  /\ f \in Found /\ IsPlain(f.name)
         /\ f.from \in keys /\ f.from[1] = "reg" /\ f.from[2] = t[1] /\ f.from[3] = f.name[1]
<1>1. PICK k \in Matching(<<"reg">> \o t, <<"envelope">>) : f = [from |-> k, name |-> <<k[3]>>]
  BY DEF AllUsernames
<1>. DEFINE pt == <<"reg">> \o t
            q == <<"envelope">>
<1>2. /\ q \in Text /\ Len(q) = 1
      /\ pt \in Text /\ Len(pt) = 2 /\ pt[1] = "reg" /\ pt[2] = t[1]
  BY FixedParts, EnvelopePattern
<1>3. k \in Matching(pt, q)
  OBVIOUS
<1>. HIDE DEF pt, q
<1>4. /\ k \in keys /\ k \in Text /\ Len(k) \in Nat /\ Len(k) > 3
      /\ \A i \in 1..Len(pt) : k[i] = pt[i]
  <2>1. pt \in Text /\ q \in Text
    BY <1>2
  <2>2. /\ k \in keys /\ k \in Text
        /\ Len(k) \in Nat /\ Len(k) > Len(pt) + Len(q)
        /\ \A i \in 1..Len(pt) : k[i] = pt[i]
    BY <2>1, <1>3, MatchBegins
  <2>3. Len(pt) + Len(q) = 3
    BY <1>2
  <2>. QED
    BY <2>2, <2>3
<1>5. k[1] = "reg" /\ k[2] = t[1]
  BY <1>2, <1>4
<1>6. <<k[3]>> \in Text /\ IsPlain(<<k[3]>>) /\ <<k[3]>>[1] = k[3]
  BY <1>4, PartIsPlain
<1>. QED
  BY <1>1, <1>4, <1>5, <1>6 DEF Found

LEMMA EnvelopeIsFound ==
  ASSUME keys \subseteq Text, NEW t \in Text, NEW u \in Text, IsPlain(t), IsPlain(u),
         UserEnvelopeKey(t, u) \in keys
  PROVE  \E f \in AllUsernames(t) : f.name = u
<1>. DEFINE k == UserEnvelopeKey(t, u)
            before == <<"reg">> \o t
            after == <<"envelope">>
<1>1. /\ k \in Text /\ Len(k) = 4
      /\ k[1] = "reg" /\ k[2] = t[1] /\ k[3] = u[1] /\ k[4] = "envelope"
  BY PlainKeys
<1>2. /\ before \in Text /\ Len(before) = 2 /\ before[1] = "reg" /\ before[2] = t[1]
      /\ after \in Text /\ Len(after) = 1 /\ after[1] = "envelope"
  BY FixedParts, EnvelopePattern
<1>3. k \in Matching(before, after)
  <2>. HIDE DEF k, before, after
  <2>1. /\ \A i \in 1..Len(before) : k[i] = before[i]
        /\ Len(k) > Len(before) + 1
        /\ k[Len(k)] = after[1]
    BY <1>1, <1>2
  <2>. QED
    BY <1>1, <1>2, <2>1, Matches DEF k
<1>4. <<k[3]>> = u
  <2>. HIDE DEF k
  <2>1. <<k[3]>> \in Text /\ IsPlain(<<k[3]>>) /\ <<k[3]>>[1] = u[1]
    BY <1>1, PartIsPlain
  <2>. QED
    BY <2>1, PlainText
<1>5. [from |-> k, name |-> <<k[3]>>] \in AllUsernames(t)
  BY <1>3 DEF AllUsernames
<1>. QED
  BY <1>4, <1>5

-----------------------------------------------------------------------------
(* The invariant is inductive: one lemma per action.                         *)

\* Whoever's envelope is found under plain names is registered under these.
LEMMA OwnerIsRegistered ==
  ASSUME TypeOK, KeysAreKnown, NEW v \in Text, NEW w \in Text, IsPlain(v), IsPlain(w),
         UserEnvelopeKey(v, w) \in keys
  PROVE  <<v, w>> \in registered
<1>. DEFINE k == UserEnvelopeKey(v, w)
<1>1. k[1] = "reg"
  BY PlainKeys
<1>2. ASSUME NEW t \in AppTokens, k = AppSecretKey(t) PROVE FALSE
  <2>1. t \in Text
    BY NameIsText DEF Names
  <2>2. AppSecretKey(t)[1] = "app_secrets"
    BY <2>1, SecretShape
  <2>. QED
    BY <1>1, <1>2, <2>2
<1>3. PICK r \in registered : k = UserEnvelopeKey(r[1], r[2])
  BY <1>2 DEF KeysAreKnown
<1>4. r \in AppTokens \X Usernames /\ r[1] \in Names /\ r[2] \in Names /\ r = <<r[1], r[2]>>
  BY DEF TypeOK, Names
<1>5. r[1] = v /\ r[2] = w
  BY <1>3, <1>4, PlainKeysAreUnique
<1>. QED
  BY <1>4, <1>5

LEMMA InitInd == Init => PageInd
<1>. SUFFICES ASSUME Init PROVE PageInd
  OBVIOUS
<1>1. PICK config \in Configs : keys = {AppSecretKey(t) : t \in config}
  BY DEF Init
<1>2. config \subseteq AppTokens
  BY IndexPageAssumption
<1>3. \A t \in AppTokens : AppSecretKey(t) \in Text
  BY NameIsText, SecretShape DEF Names
<1>4. TypeOK
  <2>1. <<>> \in Text
    BY EmptySeq DEF Text
  <2>. QED
    BY <1>1, <1>2, <1>3, <2>1 DEF Init, TypeOK, PageStages
<1>5. KeysAreKnown
  BY <1>1, <1>2 DEF KeysAreKnown
<1>. QED
  BY <1>4, <1>5 DEF Init, PageInd, NamesArePlain, NamesAreOnFile, ExpectedIsOnFile,
     ExpectedIsAhead, ShownIsRegistered, EveryoneIsShown, MissingForColons

LEMMA OpenKeepsInd == PageInd /\ OpenPage => PageInd'
<1>. SUFFICES ASSUME PageInd, OpenPage PROVE PageInd'
  OBVIOUS
<1>. USE DEF PageInd, OpenPage, reading
<1>1. OnFile' = OnFile /\ OnFile \subseteq registered
  BY DEF OnFile
<1>2. TypeOK'
  BY <1>1 DEF TypeOK, PageStages
<1>3. KeysAreKnown' /\ NamesArePlain'
  BY DEF KeysAreKnown, NamesArePlain
<1>4. ExpectedIsOnFile'
  BY <1>1 DEF ExpectedIsOnFile
<1>. QED
  BY <1>2, <1>3, <1>4 DEF NamesAreOnFile, ExpectedIsAhead, ShownIsRegistered,
     EveryoneIsShown, MissingForColons

\* Where the page is given up, as on a Redis error.
LEMMA GivenUpKeepsInd ==
  ASSUME PageInd, page' = "redisError", UNCHANGED <<keys, reading, shown, history>>
  PROVE  PageInd'
<1>. USE DEF PageInd, reading, history
<1>1. TypeOK'
  BY DEF TypeOK, PageStages, Answers
<1>2. KeysAreKnown' /\ NamesArePlain' /\ ShownIsRegistered'
  BY DEF KeysAreKnown, NamesArePlain, ShownIsRegistered
<1>. QED
  BY <1>1, <1>2 DEF NamesAreOnFile, ExpectedIsOnFile, ExpectedIsAhead,
     EveryoneIsShown, MissingForColons

LEMMA TokensKeepInd == PageInd /\ ListAppTokens => PageInd'
<1>. SUFFICES ASSUME PageInd, ListAppTokens PROVE PageInd'
  OBVIOUS
<1>1. CASE RedisFails
  BY <1>1, GivenUpKeepsInd DEF ListAppTokens, RedisFails
<1>2. CASE /\ tokens' = AllAppTokens /\ usernames' = {} /\ page' = "envelopes"
           /\ UNCHANGED <<token, shown>>
  <2>1. /\ page = "tokens" /\ keys' = keys /\ registered' = registered /\ expected' = expected
        /\ keys \subseteq Text
    BY DEF ListAppTokens, history, PageInd, TypeOK
  <2>2. TypeOK'
    BY <1>2, <2>1, TokensFound DEF PageInd, TypeOK, PageStages
  <2>3. KeysAreKnown' /\ ShownIsRegistered'
    BY <1>2, <2>1 DEF PageInd, KeysAreKnown, ShownIsRegistered
  <2>4. NamesArePlain'
    BY <1>2, <2>1, TokensFound DEF PageInd, NamesArePlain
  <2>5. ExpectedIsOnFile'
    BY <1>2, <2>1 DEF PageInd, ExpectedIsOnFile, OnFile
  <2>6. ExpectedIsAhead'
    <3>1. ASSUME NEW r \in expected PROVE \E f \in AllAppTokens : f.name = r[1]
      <4>1. IsPlain(r[1]) /\ AppSecretKey(r[1]) \in keys
        BY <2>1 DEF PageInd, ExpectedIsOnFile, OnFile
      <4>2. r[1] \in Text
        BY NameIsText DEF PageInd, TypeOK, Names
      <4>. QED
        BY <2>1, <4>1, <4>2, SecretIsFound
    <3>. QED
      BY <1>2, <2>1, <3>1 DEF ExpectedIsAhead
  <2>. QED
    BY <1>2, <2>1, <2>2, <2>3, <2>4, <2>5, <2>6
    DEF PageInd, NamesAreOnFile, EveryoneIsShown, MissingForColons
<1>. QED
  BY <1>1, <1>2 DEF ListAppTokens

LEMMA UsernamesKeepInd == PageInd /\ ListUsernames => PageInd'
<1>. SUFFICES ASSUME PageInd, ListUsernames PROVE PageInd'
  OBVIOUS
<1>1. CASE RedisFails
  BY <1>1, GivenUpKeepsInd DEF ListUsernames, RedisFails
<1>2. ASSUME NEW t \in tokens,
             tokens' = tokens \ {t}, token' = t.name, usernames' = AllUsernames(t.name),
             UNCHANGED <<page, shown>>
      PROVE  PageInd'
  <2>1. /\ page = "envelopes" /\ keys' = keys /\ registered' = registered /\ expected' = expected
        /\ usernames = {} /\ keys \subseteq Text
    BY DEF ListUsernames, history, PageInd, TypeOK
  <2>2. t.name \in Text /\ IsPlain(t.name)
    BY DEF PageInd, TypeOK, NamesArePlain, Found
  <2>3. AllUsernames(t.name) \subseteq Found /\ \A u \in AllUsernames(t.name) : IsPlain(u.name)
    BY <2>1, <2>2, UsernamesFound
  <2>4. TypeOK'
    BY <1>2, <2>1, <2>2, <2>3 DEF PageInd, TypeOK
  <2>5. KeysAreKnown' /\ ShownIsRegistered'
    BY <1>2, <2>1 DEF PageInd, KeysAreKnown, ShownIsRegistered
  <2>6. NamesArePlain'
    BY <1>2, <2>2, <2>3 DEF PageInd, NamesArePlain
  <2>7. NamesAreOnFile'
    BY <1>2, <2>1 DEF NamesAreOnFile, AllUsernames, Matching
  <2>8. ExpectedIsOnFile'
    BY <1>2, <2>1 DEF PageInd, ExpectedIsOnFile, OnFile
  <2>9. ExpectedIsAhead'
    <3>1. ASSUME NEW r \in expected, r[1] = t.name
          PROVE  \E f \in AllUsernames(t.name) : f.name = r[2]
      <4>1. IsPlain(r[1]) /\ IsPlain(r[2]) /\ UserEnvelopeKey(r[1], r[2]) \in keys
        BY <2>1 DEF PageInd, ExpectedIsOnFile, OnFile
      <4>2. r[1] \in Text /\ r[2] \in Text
        BY NameIsText DEF PageInd, TypeOK, Names
      <4>. QED
        BY <2>1, <3>1, <4>1, <4>2, EnvelopeIsFound
    <3>2. ASSUME NEW r \in expected
          PROVE  \/ r \in shown
                 \/ t.name = r[1] /\ \E u \in AllUsernames(t.name) : u.name = r[2]
                 \/ \E f \in tokens \ {t} : f.name = r[1]
      BY <2>1, <3>1 DEF PageInd, ExpectedIsAhead
    <3>. QED
      BY <1>2, <2>1, <3>2 DEF ExpectedIsAhead
  <2>. QED
    BY <1>2, <2>1, <2>4, <2>5, <2>6, <2>7, <2>8, <2>9
    DEF PageInd, EveryoneIsShown, MissingForColons
<1>. QED
  BY <1>1, <1>2 DEF ListUsernames

LEMMA LoadKeepsInd == PageInd /\ LoadUserEnvelope => PageInd'
<1>. SUFFICES ASSUME PageInd, LoadUserEnvelope PROVE PageInd'
  OBVIOUS
<1>1. PICK u \in usernames :
        LET key == UserEnvelopeKey(token, u.name) IN
        \/ /\ key \in keys
           /\ shown' = shown \cup {<<token, u.name>>}
           /\ usernames' = usernames \ {u}
           /\ UNCHANGED <<page, tokens, token>>
        \/ /\ key \notin keys
           /\ page' = "missing"
           /\ UNCHANGED <<reading, shown>>
        \/ RedisFails
  BY DEF LoadUserEnvelope
<1>2. /\ page = "envelopes" /\ keys' = keys /\ registered' = registered /\ expected' = expected
      /\ keys \subseteq Text
  BY DEF LoadUserEnvelope, history, PageInd, TypeOK
<1>3. /\ token \in Text /\ u.name \in Text /\ IsPlain(token) /\ IsPlain(u.name)
      /\ u \in AllUsernames(token)
  BY <1>2 DEF PageInd, TypeOK, NamesArePlain, NamesAreOnFile, Found
<1>4. CASE /\ UserEnvelopeKey(token, u.name) \in keys
           /\ shown' = shown \cup {<<token, u.name>>}
           /\ usernames' = usernames \ {u}
           /\ UNCHANGED <<page, tokens, token>>
  <2>1. <<token, u.name>> \in registered
    BY <1>3, <1>4, OwnerIsRegistered DEF PageInd
  <2>2. TypeOK'
    BY <1>2, <1>3, <1>4 DEF PageInd, TypeOK
  <2>3. KeysAreKnown' /\ NamesArePlain'
    BY <1>2, <1>4 DEF PageInd, KeysAreKnown, NamesArePlain
  <2>4. NamesAreOnFile'
    BY <1>2, <1>4 DEF PageInd, NamesAreOnFile, AllUsernames, Matching
  <2>5. ExpectedIsOnFile'
    BY <1>2, <1>4 DEF PageInd, ExpectedIsOnFile, OnFile
  <2>6. ExpectedIsAhead'
    <3>1. ASSUME NEW r \in expected, token = r[1], u.name = r[2]
          PROVE  r = <<token, u.name>>
      BY <3>1 DEF PageInd, TypeOK
    <3>. QED
      BY <1>2, <1>4, <3>1 DEF PageInd, ExpectedIsAhead
  <2>7. ShownIsRegistered'
    BY <1>2, <1>4, <2>1 DEF PageInd, ShownIsRegistered
  <2>. QED
    BY <1>2, <1>4, <2>2, <2>3, <2>4, <2>5, <2>6, <2>7
    DEF PageInd, EveryoneIsShown, MissingForColons
<1>5. CASE /\ UserEnvelopeKey(token, u.name) \notin keys
           /\ page' = "missing"
           /\ UNCHANGED <<reading, shown>>
  <2>1. /\ u.from \in keys /\ u.from[1] = "reg"
        /\ u.from[2] = token[1] /\ u.from[3] = u.name[1]
    BY <1>2, <1>3, UsernamesFound
  <2>2. ASSUME NEW t \in AppTokens, u.from = AppSecretKey(t) PROVE FALSE
    <3>1. t \in Text
      BY NameIsText DEF Names
    <3>. QED
      BY <2>1, <2>2, <3>1, SecretShape
  <2>3. PICK r \in registered : u.from = UserEnvelopeKey(r[1], r[2])
    BY <2>1, <2>2 DEF PageInd, KeysAreKnown
  <2>4. r[1] \in Text /\ r[2] \in Text
    BY NameIsText DEF PageInd, TypeOK, Names
  <2>5. ~(IsPlain(r[1]) /\ IsPlain(r[2]))
    <3>. SUFFICES ASSUME IsPlain(r[1]), IsPlain(r[2]) PROVE FALSE
      OBVIOUS
    <3>1. r[1][1] = token[1] /\ r[2][1] = u.name[1]
      BY <2>1, <2>3, <2>4, PlainKeys
    <3>2. r[1] = token /\ r[2] = u.name
      BY <1>3, <2>4, <3>1, PlainText
    <3>. QED
      BY <1>5, <2>1, <2>3, <3>2
  <2>6. TypeOK'
    BY <1>2, <1>5 DEF PageInd, TypeOK, PageStages, Answers, reading
  <2>7. KeysAreKnown' /\ NamesArePlain' /\ ShownIsRegistered'
    BY <1>2, <1>5 DEF PageInd, KeysAreKnown, NamesArePlain, ShownIsRegistered, reading
  <2>8. MissingForColons'
    BY <1>2, <2>5 DEF MissingForColons
  <2>. QED
    BY <1>5, <2>6, <2>7, <2>8
    DEF PageInd, NamesAreOnFile, ExpectedIsOnFile, ExpectedIsAhead, EveryoneIsShown
<1>6. CASE RedisFails
  BY <1>6, GivenUpKeepsInd DEF LoadUserEnvelope, RedisFails
<1>. QED
  BY <1>1, <1>4, <1>5, <1>6

LEMMA AnswerKeepsInd == PageInd /\ AnswerPage => PageInd'
<1>. SUFFICES ASSUME PageInd, AnswerPage PROVE PageInd'
  OBVIOUS
<1>. USE DEF PageInd, AnswerPage, reading, history
<1>1. TypeOK'
  BY DEF TypeOK, PageStages, Answers
<1>2. KeysAreKnown' /\ NamesArePlain' /\ ShownIsRegistered'
  BY DEF KeysAreKnown, NamesArePlain, ShownIsRegistered
<1>3. EveryoneIsShown'
  BY DEF EveryoneIsShown, ExpectedIsAhead
<1>. QED
  BY <1>1, <1>2, <1>3 DEF NamesAreOnFile, ExpectedIsOnFile, ExpectedIsAhead, MissingForColons

LEMMA RegisterKeepsInd ==
  ASSUME NEW t \in AppTokens, NEW u \in Usernames
  PROVE  PageInd /\ Register(t, u) => PageInd'
<1>. SUFFICES ASSUME PageInd, Register(t, u) PROVE PageInd'
  OBVIOUS
<1>1. /\ keys' = keys \cup {UserEnvelopeKey(t, u)}
      /\ registered' = registered \cup {<<t, u>>}
      /\ UNCHANGED <<page, reading, shown, expected>>
  BY DEF Register
<1>2. t \in Text /\ u \in Text
  BY NameIsText DEF Names
<1>3. TypeOK'
  <2>1. UserEnvelopeKey(t, u) \in Text
    BY <1>2, EnvelopeShape
  <2>2. <<t, u>> \in AppTokens \X Usernames
    OBVIOUS
  <2>3. keys' \subseteq Text
    BY <1>1, <2>1 DEF PageInd, TypeOK
  <2>4. registered' \subseteq AppTokens \X Usernames
    BY <1>1, <2>2 DEF PageInd, TypeOK
  <2>. QED
    BY <1>1, <2>3, <2>4 DEF PageInd, TypeOK, reading
<1>4. KeysAreKnown'
  <2>1. ASSUME NEW k \in keys
        PROVE  \/ \E v \in AppTokens : k = AppSecretKey(v)
               \/ \E r \in registered' : k = UserEnvelopeKey(r[1], r[2])
    BY <1>1 DEF PageInd, KeysAreKnown
  <2>2. \E r \in registered' : UserEnvelopeKey(t, u) = UserEnvelopeKey(r[1], r[2])
    <3>. DEFINE account == <<t, u>>
    <3>1. account \in registered' /\ account[1] = t /\ account[2] = u
      BY <1>1
    <3>. HIDE DEF account
    <3>. QED
      BY <3>1
  <2>. QED
    BY <1>1, <2>1, <2>2 DEF KeysAreKnown
<1>5. NamesArePlain' /\ ShownIsRegistered' /\ EveryoneIsShown' /\ MissingForColons'
  BY <1>1 DEF PageInd, NamesArePlain, ShownIsRegistered, EveryoneIsShown, MissingForColons, reading
<1>6. NamesAreOnFile'
  BY <1>1 DEF PageInd, NamesAreOnFile, AllUsernames, Matching, reading
<1>7. ExpectedIsOnFile'
  BY <1>1 DEF PageInd, ExpectedIsOnFile, OnFile
<1>8. ExpectedIsAhead'
  BY <1>1 DEF PageInd, ExpectedIsAhead, reading
<1>. QED
  BY <1>3, <1>4, <1>5, <1>6, <1>7, <1>8 DEF PageInd

LEMMA RestartKeepsInd == PageInd /\ Restart => PageInd'
<1>. SUFFICES ASSUME PageInd, Restart PROVE PageInd'
  OBVIOUS
<1>1. PICK config \in Configs :
        keys' = (IF Persistent THEN keys ELSE {}) \cup {AppSecretKey(t) : t \in config}
  BY DEF Restart
<1>2. page' = "idle" /\ UNCHANGED <<reading, shown, history>>
  BY DEF Restart
<1>3. config \subseteq AppTokens /\ \A t \in AppTokens : AppSecretKey(t) \in Text
  BY IndexPageAssumption, NameIsText, SecretShape DEF Names
<1>4. TypeOK'
  BY <1>1, <1>2, <1>3 DEF PageInd, TypeOK, PageStages, reading, history
<1>5. KeysAreKnown'
  BY <1>1, <1>2, <1>3 DEF PageInd, KeysAreKnown, history
<1>6. NamesArePlain' /\ ShownIsRegistered'
  BY <1>2 DEF PageInd, NamesArePlain, ShownIsRegistered, reading, history
<1>. QED
  BY <1>2, <1>4, <1>5, <1>6 DEF PageInd, NamesAreOnFile, ExpectedIsOnFile, ExpectedIsAhead,
     EveryoneIsShown, MissingForColons

LEMMA NextKeepsInd == PageInd /\ [Next]_vars => PageInd'
<1>. SUFFICES ASSUME PageInd, [Next]_vars PROVE PageInd'
  OBVIOUS
<1>1. CASE UNCHANGED vars
  BY <1>1 DEF vars, PageInd, TypeOK, KeysAreKnown, NamesArePlain, NamesAreOnFile,
     AllUsernames, Matching, ExpectedIsOnFile, OnFile, ExpectedIsAhead, ShownIsRegistered,
     EveryoneIsShown, MissingForColons
<1>2. CASE Next
  BY <1>2, OpenKeepsInd, TokensKeepInd, UsernamesKeepInd, LoadKeepsInd, AnswerKeepsInd,
     RegisterKeepsInd, RestartKeepsInd DEF Next, PageStep
<1>. QED
  BY <1>1, <1>2

-----------------------------------------------------------------------------
(* The theorems.                                                             *)

\* What the page has read, has yet to read and has shown keep together, at every step of
\* handleIndex and whatever is registered or restarted in between.
THEOREM PageInductive == Spec => []PageInd
BY InitInd, NextKeepsInd, PTL DEF Spec

\* GetAllAppTokens and GetAllUsernamesFromEnvelopes cut names out of keys that several
\* accounts may share; still nobody is shown who did not register.
THEOREM ShownAreRegistered == Spec => []ShownIsRegistered
<1>1. PageInd => ShownIsRegistered
  BY DEF PageInd
<1>. QED
  BY <1>1, PageInductive, PTL

\* A page that is answered lacks nobody who was on file, with names the keys can carry,
\* when it was asked for.
THEOREM PageIsComplete == Spec => []EveryoneIsShown
<1>1. PageInd => EveryoneIsShown
  BY DEF PageInd
<1>. QED
  BY <1>1, PageInductive, PTL

\* Without a colon in a name the page never fails for want of an envelope.
THEOREM ColonsTakeThePage == Spec => []MissingForColons
<1>1. PageInd => MissingForColons
  BY DEF PageInd
<1>. QED
  BY <1>1, PageInductive, PTL
=====================================================================================
