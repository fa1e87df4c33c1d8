-------------------------------- MODULE ClientsProofs --------------------------------
(***********************************************************************************)
(* Proofs about Clients: for any number of calls of the form, any usernames and     *)
(* passwords and any of the faults.                                                 *)
(***********************************************************************************)
EXTENDS Clients, FiniteSetTheorems, TLAPS

USE ServiceAssumption, ScriptAssumption
USE DEF Calls, Ops, Args, NoArgs, Register, Login, Put, Get, user, Phases, Outcomes,
        AtServer, store, Moves

\* The conjuncts of ClientsInd that look at nothing of the clients.
ServiceInd == CallsMatch /\ AccountsMatch /\ SessionsEarned /\ HaircutsEarned

LEMMA ClientsInit == Init => ClientsInd
<1> SUFFICES ASSUME Init PROVE ClientsInd
  OBVIOUS
<1> USE DEF Init, ServiceInit, FormInit, ScriptInit, DefaultUsername, DefaultPassword
<1>1. TypeOK
  BY DEF TypeOK, ServiceTypeOK, Forms, Texts, ScriptStages
<1>2. CallsMatch
  BY DEF CallsMatch
<1>3. AccountsMatch
  BY DEF AccountsMatch
<1>4. SessionsEarned
  BY DEF SessionsEarned
<1>5. HaircutsEarned
  BY DEF HaircutsEarned
<1>6. FormKeepsUp
  BY DEF FormKeepsUp, Pending
<1>7. CalmFormHoldsSession
  BY DEF CalmFormHoldsSession
<1>8. MessagesTellTheTruth
  BY DEF MessagesTellTheTruth
<1>9. ScriptInOrder
  BY DEF ScriptInOrder
<1>10. PutsAreRecorded
  BY DEF PutsAreRecorded
<1>11. ScriptGoesWell
  BY DEF ScriptGoesWell
<1> QED
  BY <1>1, <1>2, <1>3, <1>4, <1>5, <1>6, <1>7, <1>8, <1>9, <1>10, <1>11 DEF ClientsInd

-----------------------------------------------------------------------------
(* What an action that does not touch it leaves alone.                       *)

\* Who has earned a token is a matter of what was asked and who was let in.
LEMMA HasTokenStays ==
  ASSUME UNCHANGED <<args, admitted>>
  PROVE  \A d \in Calls : HasToken(d)' <=> HasToken(d)
BY DEF HasToken, IsEarned, KnowsPassword

\* Logins crowd each other out by being started, and by nothing else ...
LEMMA CrowdStays ==
  ASSUME UNCHANGED args
  PROVE  \A d \in Calls : Crowded(d)' <=> Crowded(d)
BY DEF Crowded, Rivals, Panics

-----------------------------------------------------------------------------
(* What is recorded of the puts.                                             *)

Recorded == since \subseteq Calls /\ PutsAreRecorded

LEMMA NothingToRecord ==
  ASSUME ClientsInd, UNCHANGED <<haircut, got, since>>,
         \A o \in {"put", "get"} : stage'[o] = "ok" => stage[o] = "ok"
  PROVE  Recorded'
BY DEF ClientsInd, TypeOK, Recorded, PutsAreRecorded

\* The servers record what is put, before they answer the put or a get.
LEMMA ServingRecords ==
  ASSUME ClientsInd, Serving, Recording
  PROVE  Recorded'
<1>1. /\ ServiceTypeOK /\ since \subseteq Calls /\ PutsAreRecorded
      /\ \A o \in Ops : stage[o] # "idle" => args[o] = ScriptArgs(o)
  BY DEF ClientsInd, TypeOK, CallsMatch
<1>2. ASSUME NEW c \in Calls,
             \/ CheckRegistered(c) \/ Reserve(c) \/ Enroll(c) \/ OpenEnvelope(c)
             \/ SaveSession(c) \/ CheckCredentials(c) \/ RepeatCommand(c)
      PROVE  Recorded'
  <2>1. UNCHANGED <<haircut, got>>
    BY <1>2 DEF CheckRegistered, Reserve, Enroll, OpenEnvelope, SaveSession, CheckCredentials,
                RepeatCommand
  <2>2. \A o \in {"put", "get"} : stage'[o] = "ok" => stage[o] = "ok"
    BY <1>1, <1>2 DEF CheckRegistered, Reserve, Enroll, OpenEnvelope, SaveSession,
       CheckCredentials, RepeatCommand, ClientsInd, CallsMatch, ScriptArgs, ServiceTypeOK
  <2> QED
    BY <2>1, <2>2, NothingToRecord DEF Recording
<1>3. ASSUME NEW c \in Calls, PutResource(c) PROVE Recorded'
  <2>1. /\ haircut' = [haircut EXCEPT ![user(c)] = c] /\ got' = got
        /\ stage' = [stage EXCEPT ![c] = "ok"] \/ stage' = [stage EXCEPT ![c] = "rejected"]
        /\ args[c].op = "put" /\ stage[c] = "touch"
    BY <1>3 DEF PutResource
  <2>2. c = "put" => user(c) = ScriptUser
    BY <1>1, <2>1 DEF ScriptArgs
  <2>3. c # "get"
    BY <1>1, <2>1 DEF ScriptArgs
  <2>4. haircut'[ScriptUser] = IF user(c) = ScriptUser THEN c ELSE haircut[ScriptUser]
    BY <1>1, <2>1 DEF ServiceTypeOK
  <2>5. since \subseteq since' /\ since' \subseteq since \cup {c}
    BY <2>4 DEF Recording
  <2>6. /\ c = "put" => "put" \in since'
        /\ "put" \in since' /\ user(c) = ScriptUser => c \in since'
    BY <1>1, <2>2, <2>4 DEF Recording, PutsAreRecorded
  <2>7. "put" \in since' /\ user(c) # ScriptUser => "put" \in since
    BY <2>2, <2>5
  <2>8. /\ stage'["get"] = stage["get"]
        /\ c # "put" => stage'["put"] = stage["put"]
    BY <1>1, <2>1, <2>3 DEF ServiceTypeOK
  <2> QED
    BY <1>1, <2>1, <2>2, <2>4, <2>5, <2>6, <2>7, <2>8 DEF Recorded, PutsAreRecorded
<1>4. ASSUME NEW c \in Calls, GetResource(c) PROVE Recorded'
  <2>1. haircut' = haircut /\ since' = since
    BY <1>4 DEF GetResource, Recording
  <2>2. c = "get" => "put" \in since /\ user(c) = ScriptUser
    BY <1>1, <1>4 DEF GetResource, ClientsInd, ScriptInOrder, PutsAreRecorded, ScriptArgs
  <2>3. c # "put"
    BY <1>1, <1>4 DEF GetResource, ScriptArgs
  <2>4. stage'["put"] = stage["put"] /\ (c # "get" => UNCHANGED <<stage["get"], got["get"]>>)
    BY <1>1, <1>4, <2>3 DEF GetResource, ServiceTypeOK
  <2>5. c = "get" /\ stage'["get"] = "ok" => got'["get"] \in since
    BY <1>1, <1>4, <2>2 DEF GetResource, ServiceTypeOK, PutsAreRecorded
  <2> QED
    BY <1>1, <2>1, <2>4, <2>5 DEF Recorded, PutsAreRecorded
<1>5. ASSUME ForgetAll \/ \E u \in Usernames : ExpireSession(u) PROVE Recorded'
  BY <1>5, NothingToRecord DEF ForgetAll, ExpireSession, Recording
<1>6. CASE ForgetResources
  <2>1. since' = since /\ haircut'[ScriptUser] = None /\ got' = got
    BY <1>6 DEF ForgetResources, Recording
  <2>2. \A o \in {"put", "get"} : stage'[o] = "ok" => stage[o] = "ok"
    BY <1>6 DEF ForgetResources
  <2> QED
    BY <1>1, <2>1, <2>2 DEF Recorded, PutsAreRecorded
<1> QED
  BY <1>2, <1>3, <1>4, <1>5, <1>6 DEF Serving, ServiceStep

-----------------------------------------------------------------------------
(* The servers, one lemma per step.                                          *)

\* The only step that lets a registration in, and it finds the account free.
LEMMA CheckRegisteredKeeps ==
  ASSUME ClientsInd, NEW c \in Calls, CheckRegistered(c), Recorded',
         UNCHANGED <<form, calm, script>>
  PROVE  ClientsInd'
<1> USE DEF ClientsInd, CheckRegistered
<1>1. TypeOK'
  BY DEF Recorded, TypeOK, ServiceTypeOK, Forms, Texts, ScriptStages
<1>2. CallsMatch'
  BY DEF CallsMatch, TypeOK, ServiceTypeOK, ScriptArgs
<1>3. AccountsMatch'
  BY DEF AccountsMatch, CallsMatch, TypeOK, ServiceTypeOK
<1>4. SessionsEarned'
  BY DEF SessionsEarned, IsEarned, KnowsPassword, AccountsMatch, CallsMatch, TypeOK,
     ServiceTypeOK
<1>5. HaircutsEarned'
  BY DEF HaircutsEarned, HasToken, IsEarned, KnowsPassword, SessionsEarned,
     CallsMatch, TypeOK, ServiceTypeOK
<1>6. FormKeepsUp'
  BY DEF FormKeepsUp, Pending, SessionsEarned, IsEarned, CallsMatch, TypeOK,
     ServiceTypeOK, Forms, ScriptArgs
<1>7. CalmFormHoldsSession'
  BY DEF CalmFormHoldsSession, FormKeepsUp, Pending, SessionsEarned, IsEarned,
     CallsMatch, TypeOK, ServiceTypeOK, Forms, ScriptArgs
<1>8. MessagesTellTheTruth'
  BY DEF MessagesTellTheTruth, TypeOK, ServiceTypeOK
<1>9. ScriptInOrder'
  BY DEF ScriptInOrder, HaircutsEarned, CallsMatch, TypeOK, ServiceTypeOK,
     ScriptArgs
<1>10. ScriptGoesWell'
  BY CrowdStays DEF ScriptGoesWell, Undisturbed, Meddles, ScriptInOrder, SessionsEarned,
     IsEarned, KnowsPassword, AccountsMatch, CallsMatch, FormKeepsUp, TypeOK,
     ServiceTypeOK, ScriptArgs
<1> QED
  BY <1>1, <1>2, <1>3, <1>4, <1>5, <1>6, <1>7, <1>8, <1>9, <1>10 DEF Recorded

\* A reservation changes an account that nobody holds.
LEMMA ReserveKeeps ==
  ASSUME ClientsInd, NEW c \in Calls, Reserve(c), Recorded',
         UNCHANGED <<form, calm, script>>
  PROVE  ClientsInd'
<1> USE DEF ClientsInd, Reserve
<1>1. TypeOK'
  BY DEF Recorded, TypeOK, ServiceTypeOK, Forms, Texts, ScriptStages, CallsMatch
<1>2. CallsMatch'
  BY DEF CallsMatch, TypeOK, ServiceTypeOK, ScriptArgs
<1>3. AccountsMatch'
  BY DEF AccountsMatch, CallsMatch, TypeOK, ServiceTypeOK
<1>4. SessionsEarned'
  BY DEF SessionsEarned, IsEarned, KnowsPassword, AccountsMatch, CallsMatch, TypeOK,
     ServiceTypeOK
<1>5. HaircutsEarned'
  <2>1. \A d \in Calls : HasToken(d)' <=> HasToken(d)
    BY HasTokenStays
  <2> QED
    BY <2>1 DEF HaircutsEarned, CallsMatch, TypeOK, ServiceTypeOK
<1>6. FormKeepsUp'
  BY DEF FormKeepsUp, Pending, SessionsEarned, IsEarned, CallsMatch, TypeOK,
     ServiceTypeOK, Forms, ScriptArgs
<1>7. CalmFormHoldsSession'
  BY DEF CalmFormHoldsSession, FormKeepsUp, Pending, SessionsEarned, IsEarned,
     CallsMatch, TypeOK, ServiceTypeOK, Forms, ScriptArgs
<1>8. MessagesTellTheTruth'
  BY DEF MessagesTellTheTruth, TypeOK, ServiceTypeOK
<1>9. ScriptInOrder'
  BY DEF ScriptInOrder, HaircutsEarned, CallsMatch, TypeOK, ServiceTypeOK,
     ScriptArgs
<1>10. ScriptGoesWell'
  BY CrowdStays DEF ScriptGoesWell, Undisturbed, Meddles, ScriptInOrder, SessionsEarned,
     IsEarned, KnowsPassword, AccountsMatch, CallsMatch, FormKeepsUp, TypeOK,
     ServiceTypeOK, ScriptArgs
<1> QED
  BY <1>1, <1>2, <1>3, <1>4, <1>5, <1>6, <1>7, <1>8, <1>9, <1>10 DEF Recorded

\* The account falls to a call that was let in, or to nobody.
LEMMA EnrollKeeps ==
  ASSUME ClientsInd, NEW c \in Calls, Enroll(c), Recorded',
         UNCHANGED <<form, calm, script>>
  PROVE  ClientsInd'
<1> USE DEF ClientsInd, Enroll, Files
<1>1. TypeOK'
  BY DEF Recorded, TypeOK, ServiceTypeOK, Forms, Texts, ScriptStages, CallsMatch
<1>2. CallsMatch'
  BY DEF CallsMatch, TypeOK, ServiceTypeOK, ScriptArgs
<1>3. AccountsMatch'
  BY DEF AccountsMatch, CallsMatch, TypeOK, ServiceTypeOK
<1>4. SessionsEarned'
  BY DEF SessionsEarned, IsEarned, KnowsPassword, AccountsMatch, CallsMatch, TypeOK,
     ServiceTypeOK
<1>5. HaircutsEarned'
  <2>1. \A d \in Calls : HasToken(d)' <=> HasToken(d)
    BY HasTokenStays
  <2> QED
    BY <2>1 DEF HaircutsEarned, CallsMatch, TypeOK, ServiceTypeOK
<1>6. FormKeepsUp'
  BY DEF FormKeepsUp, Pending, SessionsEarned, IsEarned, CallsMatch, TypeOK,
     ServiceTypeOK, Forms, ScriptArgs
<1>7. CalmFormHoldsSession'
  BY DEF CalmFormHoldsSession, FormKeepsUp, Pending, SessionsEarned, IsEarned,
     CallsMatch, TypeOK, ServiceTypeOK, Forms, ScriptArgs
<1>8. MessagesTellTheTruth'
  BY DEF MessagesTellTheTruth, TypeOK, ServiceTypeOK
<1>9. ScriptInOrder'
  BY DEF ScriptInOrder, HaircutsEarned, CallsMatch, TypeOK, ServiceTypeOK,
     ScriptArgs
<1>10. ScriptGoesWell'
  BY CrowdStays DEF ScriptGoesWell, Undisturbed, Meddles, ScriptInOrder, SessionsEarned,
     IsEarned, KnowsPassword, AccountsMatch, CallsMatch, FormKeepsUp, TypeOK,
     ServiceTypeOK, ScriptArgs
<1> QED
  BY <1>1, <1>2, <1>3, <1>4, <1>5, <1>6, <1>7, <1>8, <1>9, <1>10 DEF Recorded

\* The envelope that opens is that of a registration with the same password.
LEMMA OpenEnvelopeKeeps ==
  ASSUME ClientsInd, NEW c \in Calls, OpenEnvelope(c), Recorded',
         UNCHANGED <<form, calm, script>>
  PROVE  ClientsInd'
<1> USE DEF ClientsInd, OpenEnvelope
<1>1. TypeOK'
  BY DEF Recorded, TypeOK, ServiceTypeOK, Forms, Texts, ScriptStages
<1>2. CallsMatch'
  BY DEF CallsMatch, TypeOK, ServiceTypeOK, ScriptArgs
<1>3. AccountsMatch'
  BY DEF AccountsMatch, CallsMatch, TypeOK, ServiceTypeOK
<1>4. SessionsEarned'
  BY DEF SessionsEarned, IsEarned, KnowsPassword, AccountsMatch, CallsMatch, TypeOK,
     ServiceTypeOK, Opens
<1>5. HaircutsEarned'
  <2>1. \A d \in Calls : HasToken(d)' <=> HasToken(d)
    BY HasTokenStays
  <2> QED
    BY <2>1 DEF HaircutsEarned, CallsMatch, TypeOK, ServiceTypeOK
<1>6. FormKeepsUp'
  BY DEF FormKeepsUp, Pending, SessionsEarned, IsEarned, CallsMatch, TypeOK,
     ServiceTypeOK, Forms, ScriptArgs
<1>7. CalmFormHoldsSession'
  BY DEF CalmFormHoldsSession, FormKeepsUp, Pending, SessionsEarned, IsEarned,
     CallsMatch, TypeOK, ServiceTypeOK, Forms, ScriptArgs
<1>8. MessagesTellTheTruth'
  BY DEF MessagesTellTheTruth, TypeOK, ServiceTypeOK
<1>9. ScriptInOrder'
  BY DEF ScriptInOrder, HaircutsEarned, CallsMatch, TypeOK, ServiceTypeOK,
     ScriptArgs
<1>10. ScriptGoesWell'
  BY CrowdStays DEF ScriptGoesWell, Undisturbed, Meddles, ScriptInOrder, SessionsEarned,
     IsEarned, KnowsPassword, AccountsMatch, CallsMatch, FormKeepsUp, TypeOK,
     ServiceTypeOK, ScriptArgs, Opens
<1> QED
  BY <1>1, <1>2, <1>3, <1>4, <1>5, <1>6, <1>7, <1>8, <1>9, <1>10 DEF Recorded

\* The session goes to a call that knows the password, and the script's is
\* refused only where two registrations were let in.
LEMMA SaveSessionKeeps ==
  ASSUME ClientsInd, NEW c \in Calls, SaveSession(c), Recorded',
         UNCHANGED <<form, calm, script>>
  PROVE  ClientsInd'
<1> USE DEF ClientsInd, SaveSession
<1>1. TypeOK'
  BY DEF Recorded, TypeOK, ServiceTypeOK, Forms, Texts, ScriptStages, CallsMatch
<1>2. CallsMatch'
  BY DEF CallsMatch, TypeOK, ServiceTypeOK, ScriptArgs
<1>3. AccountsMatch'
  BY DEF AccountsMatch, CallsMatch, TypeOK, ServiceTypeOK
<1>4. SessionsEarned'
  BY DEF SessionsEarned, IsEarned, KnowsPassword, AccountsMatch, CallsMatch, TypeOK,
     ServiceTypeOK
<1>5. HaircutsEarned'
  <2>1. \A d \in Calls : HasToken(d)' <=> HasToken(d)
    BY HasTokenStays
  <2> QED
    BY <2>1 DEF HaircutsEarned, CallsMatch, TypeOK, ServiceTypeOK
<1>6. FormKeepsUp'
  BY DEF FormKeepsUp, Pending, SessionsEarned, IsEarned, CallsMatch, TypeOK,
     ServiceTypeOK, Forms, ScriptArgs
<1>7. CalmFormHoldsSession'
  BY DEF CalmFormHoldsSession, FormKeepsUp, Pending, SessionsEarned, IsEarned,
     CallsMatch, TypeOK, ServiceTypeOK, Forms, ScriptArgs
<1>8. MessagesTellTheTruth'
  BY DEF MessagesTellTheTruth, TypeOK, ServiceTypeOK
<1>9. ScriptInOrder'
  BY DEF ScriptInOrder, HaircutsEarned, CallsMatch, TypeOK, ServiceTypeOK,
     ScriptArgs
<1>10. ScriptGoesWell'
  BY CrowdStays DEF ScriptGoesWell, Undisturbed, Meddles, ScriptInOrder, SessionsEarned,
     IsEarned, KnowsPassword, AccountsMatch, CallsMatch, FormKeepsUp, TypeOK,
     ServiceTypeOK, ScriptArgs, Contested
<1> QED
  BY <1>1, <1>2, <1>3, <1>4, <1>5, <1>6, <1>7, <1>8, <1>9, <1>10 DEF Recorded

\* A call that has met no other passes with the session on file and with nothing
\* else.
LEMMA CheckCredentialsKeeps ==
  ASSUME ClientsInd, NEW c \in Calls, CheckCredentials(c), Recorded',
         UNCHANGED <<form, calm, script>>
  PROVE  ClientsInd'
<1> USE DEF ClientsInd, CheckCredentials
<1>1. TypeOK'
  BY DEF Recorded, TypeOK, ServiceTypeOK, Forms, Texts, ScriptStages
<1>2. CallsMatch'
  BY DEF CallsMatch, TypeOK, ServiceTypeOK, ScriptArgs
<1>3. AccountsMatch'
  BY DEF AccountsMatch, CallsMatch, TypeOK, ServiceTypeOK
<1>4. SessionsEarned'
  BY DEF SessionsEarned, IsEarned, KnowsPassword, AccountsMatch, CallsMatch, TypeOK,
     ServiceTypeOK
<1>5. HaircutsEarned'
  <2>1. \A d \in Calls : HasToken(d)' <=> HasToken(d)
    BY HasTokenStays
  <2>2. stage'[c] = "touch" /\ ~raced[c] => HasToken(c)
    BY DEF HasToken, SessionsEarned, CallsMatch, TypeOK, ServiceTypeOK
  <2> QED
    BY <2>1, <2>2 DEF HaircutsEarned, CallsMatch, TypeOK, ServiceTypeOK
<1>6. FormKeepsUp'
  BY DEF FormKeepsUp, Pending, SessionsEarned, IsEarned, CallsMatch, TypeOK,
     ServiceTypeOK, Forms, ScriptArgs
<1>7. CalmFormHoldsSession'
  BY DEF CalmFormHoldsSession, FormKeepsUp, Pending, SessionsEarned, IsEarned,
     CallsMatch, TypeOK, ServiceTypeOK, Forms, ScriptArgs
<1>8. MessagesTellTheTruth'
  BY DEF MessagesTellTheTruth, TypeOK, ServiceTypeOK
<1>9. ScriptInOrder'
  BY DEF ScriptInOrder, HaircutsEarned, CallsMatch, TypeOK, ServiceTypeOK,
     ScriptArgs
<1>10. ScriptGoesWell'
  BY CrowdStays DEF ScriptGoesWell, Undisturbed, Meddles, ScriptInOrder, SessionsEarned,
     IsEarned, KnowsPassword, AccountsMatch, CallsMatch, FormKeepsUp, TypeOK,
     ServiceTypeOK, ScriptArgs
<1> QED
  BY <1>1, <1>2, <1>3, <1>4, <1>5, <1>6, <1>7, <1>8, <1>9, <1>10 DEF Recorded

\* What is stored was checked before, or met another call.
LEMMA PutResourceKeeps ==
  ASSUME ClientsInd, NEW c \in Calls, PutResource(c), Recorded',
         UNCHANGED <<form, calm, script>>
  PROVE  ClientsInd'
<1> USE DEF ClientsInd, PutResource
<1>1. TypeOK'
  BY DEF Recorded, TypeOK, ServiceTypeOK, Forms, Texts, ScriptStages, CallsMatch
<1>2. CallsMatch'
  BY DEF CallsMatch, TypeOK, ServiceTypeOK, ScriptArgs
<1>3. AccountsMatch'
  BY DEF AccountsMatch, CallsMatch, TypeOK, ServiceTypeOK
<1>4. SessionsEarned'
  BY DEF SessionsEarned, IsEarned, KnowsPassword, AccountsMatch, CallsMatch, TypeOK,
     ServiceTypeOK
<1>5. HaircutsEarned'
  <2>1. \A d \in Calls : HasToken(d)' <=> HasToken(d)
    BY HasTokenStays
  <2> QED
    BY <2>1 DEF HaircutsEarned, CallsMatch, TypeOK, ServiceTypeOK
<1>6. FormKeepsUp'
  BY DEF FormKeepsUp, Pending, SessionsEarned, IsEarned, CallsMatch, TypeOK,
     ServiceTypeOK, Forms, ScriptArgs
<1>7. CalmFormHoldsSession'
  BY DEF CalmFormHoldsSession, FormKeepsUp, Pending, SessionsEarned, IsEarned,
     CallsMatch, TypeOK, ServiceTypeOK, Forms, ScriptArgs
<1>8. MessagesTellTheTruth'
  BY DEF MessagesTellTheTruth, TypeOK, ServiceTypeOK
<1>9. ScriptInOrder'
  BY DEF ScriptInOrder, HaircutsEarned, CallsMatch, TypeOK, ServiceTypeOK,
     ScriptArgs
<1>10. ScriptGoesWell'
  BY CrowdStays DEF ScriptGoesWell, Undisturbed, Meddles, ScriptInOrder, SessionsEarned,
     IsEarned, KnowsPassword, AccountsMatch, CallsMatch, FormKeepsUp, TypeOK,
     ServiceTypeOK, ScriptArgs
<1> QED
  BY <1>1, <1>2, <1>3, <1>4, <1>5, <1>6, <1>7, <1>8, <1>9, <1>10 DEF Recorded

\* A get is answered with a put of the same user.
LEMMA GetResourceKeeps ==
  ASSUME ClientsInd, NEW c \in Calls, GetResource(c), Recorded',
         UNCHANGED <<form, calm, script>>
  PROVE  ClientsInd'
<1> USE DEF ClientsInd, GetResource
<1>1. TypeOK'
  BY DEF Recorded, TypeOK, ServiceTypeOK, Forms, Texts, ScriptStages, CallsMatch
<1>2. CallsMatch'
  BY DEF CallsMatch, TypeOK, ServiceTypeOK, ScriptArgs
<1>3. AccountsMatch'
  BY DEF AccountsMatch, CallsMatch, TypeOK, ServiceTypeOK
<1>4. SessionsEarned'
  BY DEF SessionsEarned, IsEarned, KnowsPassword, AccountsMatch, CallsMatch, TypeOK,
     ServiceTypeOK
<1>5. HaircutsEarned'
  <2>1. \A d \in Calls : HasToken(d)' <=> HasToken(d)
    BY HasTokenStays
  <2> QED
    BY <2>1 DEF HaircutsEarned, CallsMatch, TypeOK, ServiceTypeOK
<1>6. FormKeepsUp'
  BY DEF FormKeepsUp, Pending, SessionsEarned, IsEarned, CallsMatch, TypeOK,
     ServiceTypeOK, Forms, ScriptArgs
<1>7. CalmFormHoldsSession'
  BY DEF CalmFormHoldsSession, FormKeepsUp, Pending, SessionsEarned, IsEarned,
     CallsMatch, TypeOK, ServiceTypeOK, Forms, ScriptArgs
<1>8. MessagesTellTheTruth'
  BY DEF MessagesTellTheTruth, TypeOK, ServiceTypeOK
<1>9. ScriptInOrder'
  BY DEF ScriptInOrder, HaircutsEarned, CallsMatch, TypeOK, ServiceTypeOK,
     ScriptArgs
<1>10. ScriptGoesWell'
  BY CrowdStays DEF ScriptGoesWell, Undisturbed, Meddles, ScriptInOrder, SessionsEarned,
     IsEarned, KnowsPassword, AccountsMatch, CallsMatch, FormKeepsUp, TypeOK,
     ServiceTypeOK, ScriptArgs
<1> QED
  BY <1>1, <1>2, <1>3, <1>4, <1>5, <1>6, <1>7, <1>8, <1>9, <1>10 DEF Recorded

\* A SET to be tried again has done no more than it may do in the end, and counts
\* as a fault.
LEMMA RepeatCommandKeeps ==
  ASSUME ClientsInd, NEW c \in Calls, RepeatCommand(c), Recorded',
         UNCHANGED <<form, calm, script>>
  PROVE  ClientsInd'
<1> USE DEF ClientsInd, RepeatCommand, Files
<1>1. TypeOK'
  BY DEF Recorded, TypeOK, ServiceTypeOK, Forms, Texts, ScriptStages, CallsMatch
<1>2. CallsMatch'
  BY DEF CallsMatch, TypeOK, ServiceTypeOK, ScriptArgs
<1>3. AccountsMatch'
  BY DEF AccountsMatch, CallsMatch, TypeOK, ServiceTypeOK
<1>4. SessionsEarned'
  BY DEF SessionsEarned, IsEarned, KnowsPassword, AccountsMatch, CallsMatch, TypeOK,
     ServiceTypeOK
<1>5. HaircutsEarned'
  <2>1. \A d \in Calls : HasToken(d)' <=> HasToken(d)
    BY HasTokenStays
  <2> QED
    BY <2>1 DEF HaircutsEarned, CallsMatch, TypeOK, ServiceTypeOK
<1>6. FormKeepsUp'
  BY DEF FormKeepsUp, Pending, SessionsEarned, IsEarned, CallsMatch, TypeOK,
     ServiceTypeOK, Forms, ScriptArgs
<1>7. CalmFormHoldsSession'
  BY DEF CalmFormHoldsSession, FormKeepsUp, Pending, SessionsEarned, IsEarned,
     CallsMatch, TypeOK, ServiceTypeOK, Forms, ScriptArgs
<1>8. MessagesTellTheTruth'
  BY DEF MessagesTellTheTruth, TypeOK, ServiceTypeOK
<1>9. ScriptInOrder'
  BY DEF ScriptInOrder, HaircutsEarned, CallsMatch, TypeOK, ServiceTypeOK,
     ScriptArgs
<1>10. ScriptGoesWell'
  BY CrowdStays DEF ScriptGoesWell, Undisturbed, Meddles, ScriptInOrder, SessionsEarned,
     IsEarned, KnowsPassword, AccountsMatch, CallsMatch, FormKeepsUp, TypeOK,
     ServiceTypeOK, ScriptArgs
<1> QED
  BY <1>1, <1>2, <1>3, <1>4, <1>5, <1>6, <1>7, <1>8, <1>9, <1>10 DEF Recorded

\* A session that runs out counts as a fault.
LEMMA ExpireSessionKeeps ==
  ASSUME ClientsInd, NEW u \in Usernames, ExpireSession(u), Recorded',
         UNCHANGED <<form, calm, script>>
  PROVE  ClientsInd'
<1> USE DEF ClientsInd, ExpireSession
<1>1. TypeOK'
  BY DEF Recorded, TypeOK, ServiceTypeOK, Forms, Texts, ScriptStages
<1>2. CallsMatch'
  BY DEF CallsMatch, TypeOK, ServiceTypeOK, ScriptArgs
<1>3. AccountsMatch'
  BY DEF AccountsMatch, CallsMatch, TypeOK, ServiceTypeOK
<1>4. SessionsEarned'
  BY DEF SessionsEarned, IsEarned, KnowsPassword, AccountsMatch, CallsMatch, TypeOK,
     ServiceTypeOK
<1>5. HaircutsEarned'
  <2>1. \A d \in Calls : HasToken(d)' <=> HasToken(d)
    BY HasTokenStays
  <2> QED
    BY <2>1 DEF HaircutsEarned, CallsMatch, TypeOK, ServiceTypeOK
<1>6. FormKeepsUp'
  BY DEF FormKeepsUp, Pending, SessionsEarned, IsEarned, CallsMatch, TypeOK,
     ServiceTypeOK, Forms, ScriptArgs
<1>7. CalmFormHoldsSession'
  BY DEF CalmFormHoldsSession, FormKeepsUp, Pending, SessionsEarned, IsEarned,
     CallsMatch, TypeOK, ServiceTypeOK, Forms, ScriptArgs
<1>8. MessagesTellTheTruth'
  BY DEF MessagesTellTheTruth, TypeOK, ServiceTypeOK
<1>9. ScriptInOrder'
  BY DEF ScriptInOrder, HaircutsEarned, CallsMatch, TypeOK, ServiceTypeOK,
     ScriptArgs
<1>10. ScriptGoesWell'
  BY CrowdStays DEF ScriptGoesWell, Undisturbed, Meddles, ScriptInOrder, SessionsEarned,
     IsEarned, KnowsPassword, AccountsMatch, CallsMatch, FormKeepsUp, TypeOK,
     ServiceTypeOK, ScriptArgs
<1> QED
  BY <1>1, <1>2, <1>3, <1>4, <1>5, <1>6, <1>7, <1>8, <1>9, <1>10 DEF Recorded

\* What the auth server forgets is remembered by nobody but the clients.
LEMMA ForgetAllKeeps ==
  ASSUME ClientsInd, ForgetAll, Recorded',
         UNCHANGED <<form, calm, script>>
  PROVE  ClientsInd'
<1> USE DEF ClientsInd, ForgetAll
<1>1. TypeOK'
  BY DEF Recorded, TypeOK, ServiceTypeOK, Forms, Texts, ScriptStages
<1>2. CallsMatch'
  BY DEF CallsMatch, TypeOK, ServiceTypeOK, ScriptArgs
<1>3. AccountsMatch'
  BY DEF AccountsMatch, CallsMatch, TypeOK, ServiceTypeOK
<1>4. SessionsEarned'
  BY DEF SessionsEarned, IsEarned, KnowsPassword, AccountsMatch, CallsMatch, TypeOK,
     ServiceTypeOK
<1>5. HaircutsEarned'
  <2>1. \A d \in Calls : HasToken(d)' <=> HasToken(d)
    BY HasTokenStays
  <2> QED
    BY <2>1 DEF HaircutsEarned, CallsMatch, TypeOK, ServiceTypeOK
<1>6. FormKeepsUp'
  BY DEF FormKeepsUp, Pending, SessionsEarned, IsEarned, CallsMatch, TypeOK,
     ServiceTypeOK, Forms, ScriptArgs
<1>7. CalmFormHoldsSession'
  BY DEF CalmFormHoldsSession, FormKeepsUp, Pending, SessionsEarned, IsEarned,
     CallsMatch, TypeOK, ServiceTypeOK, Forms, ScriptArgs
<1>8. MessagesTellTheTruth'
  BY DEF MessagesTellTheTruth, TypeOK, ServiceTypeOK
<1>9. ScriptInOrder'
  BY DEF ScriptInOrder, HaircutsEarned, CallsMatch, TypeOK, ServiceTypeOK,
     ScriptArgs
<1>10. ScriptGoesWell'
  BY CrowdStays DEF ScriptGoesWell, Undisturbed, Meddles, ScriptInOrder, SessionsEarned,
     IsEarned, KnowsPassword, AccountsMatch, CallsMatch, FormKeepsUp, TypeOK,
     ServiceTypeOK, ScriptArgs
<1> QED
  BY <1>1, <1>2, <1>3, <1>4, <1>5, <1>6, <1>7, <1>8, <1>9, <1>10 DEF Recorded

\* The resource server forgets the resources and refuses the calls it was at.
LEMMA ForgetResourcesKeeps ==
  ASSUME ClientsInd, ForgetResources, Recorded',
         UNCHANGED <<form, calm, script>>
  PROVE  ClientsInd'
<1> USE DEF ClientsInd, ForgetResources, AtResource
<1>1. TypeOK'
  BY DEF Recorded, TypeOK, ServiceTypeOK, Forms, Texts, ScriptStages
<1>2. CallsMatch'
  BY DEF CallsMatch, TypeOK, ServiceTypeOK, ScriptArgs
<1>3. AccountsMatch'
  BY DEF AccountsMatch, CallsMatch, TypeOK, ServiceTypeOK
<1>4. SessionsEarned'
  BY DEF SessionsEarned, IsEarned, KnowsPassword, AccountsMatch, CallsMatch, TypeOK,
     ServiceTypeOK
<1>5. HaircutsEarned'
  <2>1. \A d \in Calls : HasToken(d)' <=> HasToken(d)
    BY HasTokenStays
  <2> QED
    BY <2>1 DEF HaircutsEarned, CallsMatch, TypeOK, ServiceTypeOK
<1>6. FormKeepsUp'
  BY DEF FormKeepsUp, Pending, SessionsEarned, IsEarned, CallsMatch, TypeOK,
     ServiceTypeOK, Forms, ScriptArgs
<1>7. CalmFormHoldsSession'
  BY DEF CalmFormHoldsSession, FormKeepsUp, Pending, SessionsEarned, IsEarned,
     CallsMatch, TypeOK, ServiceTypeOK, Forms, ScriptArgs
<1>8. MessagesTellTheTruth'
  BY DEF MessagesTellTheTruth, TypeOK, ServiceTypeOK
<1>9. ScriptInOrder'
  BY DEF ScriptInOrder, HaircutsEarned, CallsMatch, TypeOK, ServiceTypeOK,
     ScriptArgs
<1>10. ScriptGoesWell'
  BY CrowdStays DEF ScriptGoesWell, Undisturbed, Meddles, ScriptInOrder, SessionsEarned,
     IsEarned, KnowsPassword, AccountsMatch, CallsMatch, FormKeepsUp, TypeOK,
     ServiceTypeOK, ScriptArgs
<1> QED
  BY <1>1, <1>2, <1>3, <1>4, <1>5, <1>6, <1>7, <1>8, <1>9, <1>10 DEF Recorded

-----------------------------------------------------------------------------
(* The form.                                                                 *)

\* Typing changes a field, which nothing looks at before the next click.
LEMMA TypingKeeps ==
  ASSUME ClientsInd, UNCHANGED <<script, since>>,
         \/ \E u \in Usernames : TypeUsername(u)
         \/ \E p \in Passwords : TypePassword(p)
  PROVE  ClientsInd'
<1> USE DEF ClientsInd, service, TypeUsername, TypePassword
<1>1. UNCHANGED <<service, calm, script, since>>
  OBVIOUS
<1>2. /\ form' \in Forms
      /\ form'.session_token = form.session_token
      /\ form'.info_msg = form.info_msg /\ form'.error_msg = form.error_msg
  BY DEF TypeOK, Forms
<1>3. TypeOK' /\ ServiceInd'
  BY <1>1, <1>2 DEF TypeOK, ServiceTypeOK, ServiceInd, CallsMatch, AccountsMatch, SessionsEarned,
     HaircutsEarned, HasToken, IsEarned, KnowsPassword
<1>4. FormKeepsUp' /\ CalmFormHoldsSession' /\ MessagesTellTheTruth'
  BY <1>1, <1>2 DEF FormKeepsUp, CalmFormHoldsSession, MessagesTellTheTruth, Pending
<1>5. ScriptInOrder' /\ PutsAreRecorded' /\ ScriptGoesWell'
  BY <1>1, CrowdStays DEF ScriptInOrder, PutsAreRecorded, ScriptGoesWell, Undisturbed, Meddles
<1> QED
  BY <1>3, <1>4, <1>5 DEF ServiceInd

\* Making a call gives arguments to one that had none, and nothing refers to such a call.
LEMMA SendKeeps ==
  ASSUME ClientsInd, NEW c \in Calls, NEW a \in Args, Send(c, a),
         c \in Ops => a = ScriptArgs(c)
  PROVE  ServiceTypeOK' /\ ServiceInd'
<1> USE DEF ClientsInd, Send
<1>1. ServiceTypeOK'
  BY DEF TypeOK, ServiceTypeOK, FirstStage, AtResource
<1>2. CallsMatch'
  BY DEF CallsMatch, TypeOK, ServiceTypeOK, FirstStage, ScriptArgs
<1>3. AccountsMatch'
  BY DEF AccountsMatch, CallsMatch, TypeOK, ServiceTypeOK, FirstStage
<1>4. \A d \in Calls : args[d] # NoArgs => args'[d] = args[d]
  BY DEF CallsMatch, TypeOK, ServiceTypeOK
<1>5. \A d \in Calls : IsEarned(d) => IsEarned(d)' /\ args'[d] = args[d]
  BY <1>4 DEF IsEarned, KnowsPassword, AccountsMatch, TypeOK, ServiceTypeOK
<1>6. \A d \in Calls : args[d] # NoArgs /\ HasToken(d) => HasToken(d)'
  BY <1>4, <1>5 DEF HasToken, IsEarned
<1>7. SessionsEarned'
  BY <1>4, <1>5 DEF SessionsEarned, IsEarned, KnowsPassword, AccountsMatch, CallsMatch, TypeOK,
     ServiceTypeOK, FirstStage
<1>8. \A d \in Calls : raced[d] => raced'[d]
  BY DEF TypeOK, ServiceTypeOK
<1>9. HaircutsEarned'
  BY <1>4, <1>6, <1>8 DEF HaircutsEarned, CallsMatch, TypeOK, ServiceTypeOK, FirstStage
<1> QED
  BY <1>1, <1>2, <1>3, <1>7, <1>9 DEF ServiceInd

\* ... and a call that is made only adds to the crowd.
LEMMA CrowdGrows ==
  ASSUME ClientsInd, NEW c \in Calls, NEW a \in Args, Send(c, a)
  PROVE  Crowded("login") => Crowded("login")'
<1> USE DEF ClientsInd, Send
<1>1. /\ args[c] = NoArgs
      /\ \A d \in Calls \ {c} : args'[d] = args[d]
  BY DEF CallsMatch, TypeOK, ServiceTypeOK
<1>2. CASE c = "login"
  <2>1. Rivals("login") = {}
    <3>1. \A d \in Calls : args[d].op = "login" => user(d) # None
      BY DEF CallsMatch
    <3>2. user("login") = None
      BY <1>1, <1>2
    <3> QED
      BY <3>1, <3>2 DEF Rivals
  <2>2. ~Crowded("login")
    <3>1. \A ds \in SUBSET Rivals("login") : Cardinality(ds) = 0
      BY <2>1, FS_EmptySet
    <3> QED
      BY <3>1 DEF Crowded
  <2> QED
    BY <2>2
<1>3. CASE c # "login"
  <2>1. Rivals("login") \subseteq Rivals("login")'
    BY <1>1, <1>3 DEF Rivals, Panics
  <2> QED
    BY <2>1 DEF Crowded
<1> QED
  BY <1>2, <1>3

LEMMA ClickKeeps ==
  ASSUME ClientsInd, NEW c \in FormCalls, NEW a \in Args, Click(c, a), UNCHANGED <<script, since>>
  PROVE  ClientsInd'
<1> USE DEF ClientsInd, Click
<1>1. ServiceTypeOK' /\ ServiceInd'
  BY SendKeeps
<1> USE DEF Send
<1>2. TypeOK'
  BY <1>1 DEF TypeOK
<1>3. FormKeepsUp'
  <2>1. /\ stage[c] = "idle" /\ stage'[c] \in {"check", "open", "token", "thrown"}
        /\ \A d \in Calls \ {c} : stage'[d] = stage[d] /\ args'[d] = args[d]
    BY DEF TypeOK, ServiceTypeOK, FirstStage
  <2>2. calm' => Pending' = {c}
    BY DEF Pending
  <2>3. form.session_token # None => form.session_token \in Calls \ {c}
    BY <2>1 DEF FormKeepsUp, TypeOK, Forms
  <2> QED
    BY <2>1, <2>2, <2>3 DEF FormKeepsUp
<1>4. CalmFormHoldsSession'
  BY DEF CalmFormHoldsSession, FormKeepsUp, Pending, SessionsEarned, IsEarned,
     CallsMatch, TypeOK, ServiceTypeOK, Forms, ScriptArgs, FirstStage
<1>5. MessagesTellTheTruth'
  BY DEF MessagesTellTheTruth, TypeOK, ServiceTypeOK, FirstStage
<1>6. ScriptInOrder'
  BY DEF ScriptInOrder, HaircutsEarned, CallsMatch, TypeOK, ServiceTypeOK,
     ScriptArgs, FirstStage
<1>7. ScriptGoesWell'
  <2>1. Undisturbed' => Undisturbed
    <3>1. Crowded("login") => Crowded("login")'
      BY CrowdGrows
    <3>2. \A d \in FormCalls : Meddles(d) => Meddles(d)'
      BY DEF Meddles, CallsMatch, TypeOK, ServiceTypeOK
    <3>3. \A d \in Calls : raced[d] => raced'[d]
      BY DEF TypeOK, ServiceTypeOK
    <3> QED
      BY <3>1, <3>2, <3>3 DEF Undisturbed
  <2>2. \A o \in Ops : stage'[o] = stage[o]
    BY DEF TypeOK, ServiceTypeOK
  <2> QED
    BY <2>1, <2>2 DEF ScriptGoesWell
<1>8. PutsAreRecorded'
  <2>1. \A o \in Ops : stage'[o] = stage[o]
    BY DEF TypeOK, ServiceTypeOK
  <2> QED
    BY <2>1, NothingToRecord DEF Recorded
<1> QED
  BY <1>1, <1>2, <1>3, <1>4, <1>5, <1>6, <1>7, <1>8 DEF ServiceInd

LEMMA ClicksKeep ==
  ASSUME ClientsInd, NEW c \in FormCalls, UNCHANGED <<script, since>>,
         ClickLogin(c) \/ ClickRegister(c) \/ ClickPut(c) \/ ClickGet(c)
  PROVE  ClientsInd'
<1>1. \E a \in Args : Click(c, a)
  BY DEF ClientsInd, TypeOK, Forms, ClickLogin, ClickRegister, ClickPut, ClickGet
<1> QED
  BY <1>1, ClickKeeps

\* A promise that settles changes nothing at the servers.
LEMMA SettlesKeeps ==
  ASSUME ClientsInd, NEW c \in Calls, NEW outcome \in Outcomes, Settles(c, outcome)
  PROVE  ServiceTypeOK' /\ ServiceInd'
<1> USE DEF ClientsInd, Settles
<1>1. ServiceTypeOK'
  BY DEF TypeOK, ServiceTypeOK
<1>2. CallsMatch'
  BY DEF CallsMatch, ScriptArgs
<1>3. AccountsMatch'
  BY DEF AccountsMatch
<1>4. SessionsEarned'
  BY DEF SessionsEarned, IsEarned, KnowsPassword
<1>5. HaircutsEarned'
  BY DEF HaircutsEarned, HasToken, IsEarned, KnowsPassword
<1> QED
  BY <1>1, <1>2, <1>3, <1>4, <1>5 DEF ServiceInd

LEMMA SuccessKeeps ==
  ASSUME ClientsInd, NEW c \in FormCalls, Settles(c, "ok"), UNCHANGED <<calm, script, since>>,
         form' = Informed([form EXCEPT !.session_token = IF args[c].op = "login" THEN c ELSE @],
                          args[c].op)
  PROVE  ClientsInd'
<1> USE DEF ClientsInd
<1>1. ServiceTypeOK' /\ ServiceInd'
  BY SettlesKeeps
<1> USE DEF Settles
<1>2. args[c] \in Args
  BY DEF CallsMatch
<1>3. /\ form' \in Forms
      /\ form'.session_token = IF args[c].op = "login" THEN c ELSE form.session_token
      /\ form'.info_msg = args[c].op /\ form'.error_msg = None
  BY <1>2 DEF TypeOK, Forms, Texts, Informed
<1>4. TypeOK'
  BY <1>1, <1>3 DEF TypeOK
<1>5. stage[c] = "ok" /\ c \notin awaiting'
  OBVIOUS
<1>6. FormKeepsUp'
  BY <1>3 DEF FormKeepsUp, Pending, SessionsEarned, IsEarned, CallsMatch, TypeOK,
     ServiceTypeOK, Forms, ScriptArgs
<1>7. CalmFormHoldsSession'
  BY <1>3 DEF CalmFormHoldsSession, FormKeepsUp, Pending, SessionsEarned, IsEarned,
     CallsMatch, TypeOK, ServiceTypeOK, Forms, ScriptArgs
<1>8. MessagesTellTheTruth'
  BY <1>2, <1>3, <1>5 DEF MessagesTellTheTruth, TypeOK, ServiceTypeOK
<1>9. ScriptInOrder'
  BY DEF ScriptInOrder, HaircutsEarned, CallsMatch, TypeOK, ServiceTypeOK,
     ScriptArgs
<1>10. ScriptGoesWell'
  BY CrowdStays DEF ScriptGoesWell, Undisturbed, Meddles, ScriptInOrder, SessionsEarned,
     IsEarned, KnowsPassword, AccountsMatch, CallsMatch, FormKeepsUp, TypeOK,
     ServiceTypeOK, ScriptArgs
<1>11. PutsAreRecorded'
  BY NothingToRecord DEF Recorded
<1> QED
  BY <1>1, <1>4, <1>6, <1>7, <1>8, <1>9, <1>10, <1>11 DEF ServiceInd

LEMMA FailureKeeps ==
  ASSUME ClientsInd, NEW c \in FormCalls, UNCHANGED <<calm, script, since>>,
         NEW outcome \in {"rejected", "thrown"}, Settles(c, outcome),
         NEW text \in Ops, form' = Failed(form, text)
  PROVE  ClientsInd'
<1> USE DEF ClientsInd
<1>1. ServiceTypeOK' /\ ServiceInd'
  BY SettlesKeeps
<1> USE DEF Settles
<1>2. /\ form' \in Forms
      /\ form'.session_token = form.session_token
      /\ form'.info_msg = None
  BY DEF TypeOK, Forms, Texts, Failed
<1>3. TypeOK'
  BY <1>1, <1>2 DEF TypeOK
<1>4. FormKeepsUp'
  BY <1>2 DEF FormKeepsUp, Pending, SessionsEarned, IsEarned, CallsMatch, TypeOK,
     ServiceTypeOK, Forms, ScriptArgs
<1>5. CalmFormHoldsSession'
  BY <1>2 DEF CalmFormHoldsSession, FormKeepsUp, Pending, SessionsEarned, IsEarned,
     CallsMatch, TypeOK, ServiceTypeOK, Forms, ScriptArgs
<1>6. MessagesTellTheTruth'
  BY <1>2 DEF MessagesTellTheTruth, TypeOK, ServiceTypeOK
<1>7. ScriptInOrder'
  BY DEF ScriptInOrder, HaircutsEarned, CallsMatch, TypeOK, ServiceTypeOK,
     ScriptArgs
<1>8. ScriptGoesWell'
  <2>1. Crowded("login")' <=> Crowded("login")
    BY CrowdStays
  <2>2. Undisturbed' => Undisturbed
    BY <2>1 DEF Undisturbed, Meddles, TypeOK, ServiceTypeOK
  <2> QED
    BY <2>2 DEF ScriptGoesWell
<1>9. PutsAreRecorded'
  BY NothingToRecord DEF Recorded
<1> QED
  BY <1>1, <1>3, <1>4, <1>5, <1>6, <1>7, <1>8, <1>9 DEF ServiceInd

LEMMA FormSettlesKeeps ==
  ASSUME ClientsInd, NEW c \in FormCalls, FormSettles(c), UNCHANGED <<script, since>>
  PROVE  ClientsInd'
<1> USE DEF FormSettles, LoginSettles, RegisterSettles, PutSettles, GetSettles
<1>1. UNCHANGED calm
  OBVIOUS
<1>2. \/ /\ Settles(c, "ok")
         /\ form' = Informed([form EXCEPT !.session_token = IF args[c].op = "login" THEN c ELSE @],
                             args[c].op)
      \/ \E outcome \in {"rejected", "thrown"}, text \in Ops :
           Settles(c, outcome) /\ form' = Failed(form, text)
  BY DEF ClientsInd, TypeOK, Forms
<1> QED
  BY <1>1, <1>2, SuccessKeeps, FailureKeeps

-----------------------------------------------------------------------------
(* The script.                                                               *)

LEMMA ScriptCallsKeeps ==
  ASSUME ClientsInd, ScriptCalls, UNCHANGED <<form, calm, since>>
  PROVE  ClientsInd'
<1> USE DEF ClientsInd
<1>1. PICK o \in Ops : Send(o, ScriptArgs(o)) /\ script' = o
                        /\ script = [register |-> "off", login |-> "registered",
                                     put |-> "loggedIn", get |-> "stored"][o]
  BY DEF ScriptCalls, ScriptArgs
<1>2. ServiceTypeOK' /\ ServiceInd'
  <2>1. ScriptArgs(o) \in Args
    BY DEF ScriptArgs
  <2> QED
    BY <1>1, <2>1, SendKeeps
<1> USE DEF Send
<1>3. TypeOK'
  BY <1>1, <1>2 DEF TypeOK, ScriptStages
<1>4. FormKeepsUp'
  BY <1>1 DEF FormKeepsUp, Pending, SessionsEarned, IsEarned, CallsMatch, TypeOK,
     ServiceTypeOK, Forms, ScriptArgs, FirstStage
<1>5. CalmFormHoldsSession'
  BY <1>1 DEF CalmFormHoldsSession, FormKeepsUp, Pending, SessionsEarned, IsEarned,
     CallsMatch, TypeOK, ServiceTypeOK, Forms, ScriptArgs, FirstStage
<1>6. MessagesTellTheTruth'
  BY <1>1 DEF MessagesTellTheTruth, TypeOK, ServiceTypeOK, FirstStage
<1>7. ScriptInOrder'
  BY <1>1 DEF ScriptInOrder, HaircutsEarned, CallsMatch, TypeOK, ServiceTypeOK,
     ScriptArgs, FirstStage
<1>8. ScriptGoesWell'
  <2>1. ~Panics(ScriptArgs(o))
    BY DEF Panics, ScriptArgs
  <2>2. Crowded("login") => Crowded("login")'
    <3>1. ScriptArgs(o) \in Args
      BY DEF ScriptArgs
    <3> QED
      BY <1>1, <3>1, CrowdGrows
  <2> QED
    BY <1>1, <2>1, <2>2 DEF ScriptGoesWell, Undisturbed, Meddles, ScriptInOrder, SessionsEarned,
       IsEarned, KnowsPassword, AccountsMatch, CallsMatch, FormKeepsUp, TypeOK,
       ServiceTypeOK, ScriptArgs, FirstStage
<1>9. PutsAreRecorded'
  <2>1. \A d \in {"put", "get"} : stage'[d] = "ok" => stage[d] = "ok"
    BY <1>1 DEF TypeOK, ServiceTypeOK, FirstStage, ScriptArgs
  <2> QED
    BY <1>1, <2>1, NothingToRecord DEF Recorded
<1> QED
  BY <1>2, <1>3, <1>4, <1>5, <1>6, <1>7, <1>8, <1>9 DEF ServiceInd

LEMMA ScriptSettlesKeeps ==
  ASSUME ClientsInd, ScriptSettles, UNCHANGED <<form, calm, since>>
  PROVE  ClientsInd'
<1> USE DEF ClientsInd
<1>1. PICK outcome \in Outcomes :
        /\ script \in Ops /\ Settles(script, outcome)
        /\ script' = IF outcome = "ok" THEN Done[script] ELSE "failed"
  BY DEF ScriptSettles
<1>2. ServiceTypeOK' /\ ServiceInd'
  BY <1>1, SettlesKeeps
<1> USE DEF Settles
<1>3. TypeOK'
  BY <1>1, <1>2 DEF TypeOK, ScriptStages, Done
<1>4. FormKeepsUp'
  BY <1>1 DEF FormKeepsUp, Pending, SessionsEarned, IsEarned, CallsMatch, TypeOK,
     ServiceTypeOK, Forms, ScriptArgs, Done
<1>5. CalmFormHoldsSession'
  BY <1>1 DEF CalmFormHoldsSession, FormKeepsUp, Pending, SessionsEarned, IsEarned,
     CallsMatch, TypeOK, ServiceTypeOK, Forms, ScriptArgs, Done
<1>6. MessagesTellTheTruth'
  BY <1>1 DEF MessagesTellTheTruth, TypeOK, ServiceTypeOK, Done
<1>7. ScriptInOrder'
  BY <1>1 DEF ScriptInOrder, HaircutsEarned, CallsMatch, TypeOK, ServiceTypeOK,
     ScriptArgs, Done
<1>8. ScriptGoesWell'
  BY <1>1, CrowdStays DEF ScriptGoesWell, Undisturbed, Meddles, ScriptInOrder, SessionsEarned,
     IsEarned, KnowsPassword, AccountsMatch, CallsMatch, FormKeepsUp, TypeOK,
     ServiceTypeOK, ScriptArgs, Done
<1>9. PutsAreRecorded'
  BY <1>1, NothingToRecord DEF Recorded
<1> QED
  BY <1>2, <1>3, <1>4, <1>5, <1>6, <1>7, <1>8, <1>9 DEF ServiceInd

-----------------------------------------------------------------------------
(* The theorems.                                                             *)

LEMMA ClientsStutters ==
  ASSUME ClientsInd, UNCHANGED vars
  PROVE  ClientsInd'
<1> USE DEF vars, service
<1>1. TypeOK' /\ CallsMatch' /\ AccountsMatch'
  BY DEF ClientsInd, TypeOK, ServiceTypeOK, CallsMatch, AccountsMatch
<1>2. SessionsEarned' /\ HaircutsEarned'
  BY DEF ClientsInd, SessionsEarned, HaircutsEarned, HasToken, IsEarned, KnowsPassword
<1>3. FormKeepsUp' /\ CalmFormHoldsSession' /\ MessagesTellTheTruth'
  BY DEF ClientsInd, FormKeepsUp, CalmFormHoldsSession, MessagesTellTheTruth, Pending
<1>4. ScriptInOrder' /\ PutsAreRecorded' /\ ScriptGoesWell'
  BY CrowdStays
     DEF ClientsInd, ScriptInOrder, PutsAreRecorded, ScriptGoesWell, Undisturbed, Meddles
<1> QED
  BY <1>1, <1>2, <1>3, <1>4 DEF ClientsInd

\* The invariant that ties the calls, the accounts, the sessions and the time stamps together
\* and to what the form and the script believe holds throughout.
THEOREM ClientsInvariant == Spec => []ClientsInd
<1>1. Init => ClientsInd
  BY ClientsInit
<1>2. ClientsInd /\ [Next]_vars => ClientsInd'
  <2> SUFFICES ASSUME ClientsInd, [Next]_vars PROVE ClientsInd'
    OBVIOUS
  <2>1. CASE FormStep /\ UNCHANGED <<script, since>>
    BY <2>1, TypingKeeps, ClicksKeep, FormSettlesKeeps DEF FormStep
  <2>2. CASE ScriptStep /\ UNCHANGED <<form, calm>>
    BY <2>2, ScriptCallsKeeps, ScriptSettlesKeeps DEF ScriptStep
  <2>3. CASE Serving /\ Recording /\ UNCHANGED <<form, calm, script>>
    <3>1. Recorded'
      BY <2>3, ServingRecords
    <3>2. ASSUME NEW c \in Calls, ServiceStep(c) PROVE ClientsInd'
      BY <2>3, <3>1, <3>2, CheckRegisteredKeeps, ReserveKeeps, EnrollKeeps, OpenEnvelopeKeeps,
         SaveSessionKeeps, CheckCredentialsKeeps, PutResourceKeeps, GetResourceKeeps
         DEF ServiceStep
    <3> QED
      BY <2>3, <3>1, <3>2, RepeatCommandKeeps, ExpireSessionKeeps, ForgetAllKeeps,
         ForgetResourcesKeeps
         DEF Serving
  <2>4. CASE UNCHANGED vars
    BY <2>4, ClientsStutters
  <2> QED
    BY <2>1, <2>2, <2>3, <2>4 DEF Next
<1> QED
  BY <1>1, <1>2, PTL DEF Spec

\* What is on file for a user was put with a token of that user.
THEOREM PutsAreByOwners == Spec => []PutIsByOwner
<1>1. ClientsInd => PutIsByOwner
  BY DEF ClientsInd, TypeOK, ServiceTypeOK, HaircutsEarned, HasToken, IsEarned, PutIsByOwner
<1> QED
  BY <1>1, ClientsInvariant, PTL

\* The label of a form that waits for its answers shows the session on file.
THEOREM CalmFormsHoldSessions == Spec => []CalmFormHoldsSession
<1>1. ClientsInd => CalmFormHoldsSession
  BY DEF ClientsInd
<1> QED
  BY <1>1, ClientsInvariant, PTL

\* The form's message is that of a call the servers did complete.
THEOREM MessagesAreTrue == Spec => []MessagesTellTheTruth
<1>1. ClientsInd => MessagesTellTheTruth
  BY DEF ClientsInd
<1> QED
  BY <1>1, ClientsInvariant, PTL

\* The script fails only over something outside it.
THEOREM UndisturbedScriptsSucceed == Spec => []UndisturbedScriptSucceeds
<1>1. ClientsInd => UndisturbedScriptSucceeds
  BY DEF ClientsInd, ScriptGoesWell, Undisturbed, UndisturbedScriptSucceeds
<1> QED
  BY <1>1, ClientsInvariant, PTL

\* The script prints what it has put, or what the form put there for the same user
\* after it.
THEOREM ScriptsReadBack == Spec => []ScriptReadsBack
<1>1. ClientsInd => ScriptReadsBack
  <2> SUFFICES ASSUME ClientsInd, script = "printed"
               PROVE  /\ got["get"] \in since
                      /\ got["get"] \in FormCalls \cup {"put"}
                      /\ args[got["get"]].op = "put" /\ user(got["get"]) = ScriptUser
    BY DEF ScriptReadsBack
  <2>1. stage["get"] = "ok" /\ args["get"] = ScriptArgs("get")
    BY DEF ClientsInd, ScriptInOrder, CallsMatch
  <2>2. got["get"] \in since /\ got["get"] \in Calls
    BY <2>1 DEF ClientsInd, TypeOK, PutsAreRecorded
  <2>3. args[got["get"]].op = "put" /\ user(got["get"]) = ScriptUser
    BY <2>1, <2>2 DEF ClientsInd, TypeOK, ServiceTypeOK, HaircutsEarned, ScriptArgs
  <2>4. got["get"] \in Ops => got["get"] = "put"
    BY <2>3 DEF ClientsInd, CallsMatch, ScriptArgs
  <2> QED
    BY <2>2, <2>3, <2>4
<1> QED
  BY <1>1, ClientsInvariant, PTL
=====================================================================================
