------------------------------- MODULE ResourceProofs -------------------------------
(***********************************************************************************)
(* Proofs about ResourceServer, for any sets of requests, accounts and tokens.      *)
(***********************************************************************************)
EXTENDS ResourceServer, TLAPS

USE DEF RequestMoves, CheckMoves

LEMMA InitInd == Init => ResourceInd
<1> SUFFICES ASSUME Init PROVE ResourceInd
  OBVIOUS
<1> USE ResourceAssumption DEF Init
<1>1. TypeOK
  BY DEF TypeOK, CheckStages
<1>2. ErrIsOwn /\ ErrIsClearedByAPass /\ VerdictStands
  BY DEF ErrIsOwn, ErrIsClearedByAPass, VerdictStands
<1>3. AloneMeansAlone
  BY DEF AloneMeansAlone, InFlight, InFlightStages
<1>4. ServedAloneWasChecked /\ PassedAloneIsNotRefused /\ ServedAfterSomeCheck
  BY DEF ServedAloneWasChecked, PassedAloneIsNotRefused, ServedAfterSomeCheck, Served
<1> QED
  BY <1>1, <1>2, <1>3, <1>4 DEF ResourceInd

\* What the auth server does changes nothing the invariant says of the resource
\* server, except that it is type correct.
LEMMA FrameKeepsInd ==
  ASSUME ResourceInd, TypeOK', UNCHANGED <<haircut, err, request, kind, verdict, alone>>
  PROVE  ResourceInd'
BY DEF ResourceInd, ErrIsOwn, ErrIsClearedByAPass, SomePassed, VerdictStands, AloneMeansAlone,
       InFlight, ServedAloneWasChecked, PassedAloneIsNotRefused, ServedAfterSomeCheck, Served

LEMMA AuthServerKeepsInd ==
  ASSUME ResourceInd,
         \/ \E a \in Accounts, t \in Tokens : SaveSession(a, t)
         \/ \E a \in Accounts : ExpireSession(a)
         \/ \E q \in Requests : CheckAppSecret(q) \/ CheckSessionToken(q)
  PROVE  ResourceInd'
<1> USE DEF inputs
<1>1. ASSUME NEW a \in Accounts, NEW t \in Tokens, SaveSession(a, t) PROVE ResourceInd'
  <2>1. TypeOK'
    BY <1>1 DEF ResourceInd, TypeOK, SaveSession
  <2> QED
    BY <1>1, <2>1, FrameKeepsInd DEF SaveSession
<1>2. ASSUME NEW a \in Accounts, ExpireSession(a) PROVE ResourceInd'
  <2>1. TypeOK'
    BY <1>2 DEF ResourceInd, TypeOK, ExpireSession
  <2> QED
    BY <1>2, <2>1, FrameKeepsInd DEF ExpireSession
<1>3. ASSUME NEW q \in Requests, CheckAppSecret(q) PROVE ResourceInd'
  <2>1. TypeOK'
    BY <1>3 DEF ResourceInd, TypeOK, CheckAppSecret, CheckStages, Statuses
  <2> QED
    BY <1>3, <2>1, FrameKeepsInd DEF CheckAppSecret
<1>4. ASSUME NEW q \in Requests, CheckSessionToken(q) PROVE ResourceInd'
  <2>1. TypeOK'
    BY <1>4 DEF ResourceInd, TypeOK, CheckSessionToken, CheckStages, Statuses
  <2> QED
    BY <1>4, <2>1, FrameKeepsInd DEF CheckSessionToken
<1> QED
  BY <1>1, <1>2, <1>3, <1>4

LEMMA ReceiveKeepsInd ==
  ASSUME ResourceInd, NEW q \in Requests, Receive(q)
  PROVE  ResourceInd'
<1> USE ResourceAssumption DEF ResourceInd, Receive, inputs, TypeOK
<1>1. TypeOK'
  <2>1. kind' \in [Requests -> {"get", "put"}] /\ account' \in [Requests -> Accounts \cup {None}]
        /\ presented' \in [Requests -> Tokens \cup {None}]
    OBVIOUS
  <2>2. alone' \in [Requests -> BOOLEAN]
    OBVIOUS
  <2>3. /\ request' \in [Requests -> {"idle"} \cup InFlightStages \cup Answers]
        /\ check' \in [Requests -> CheckStages]
    BY DEF InFlightStages, CheckStages
  <2> QED
    BY <2>1, <2>2, <2>3
<1>2. ErrIsOwn'
  BY DEF ErrIsOwn, AloneMeansAlone, InFlight, InFlightStages
<1>3. ErrIsClearedByAPass'
  BY DEF ErrIsClearedByAPass, VerdictStands, SomePassed, ServedAfterSomeCheck, Served,
         InFlight, InFlightStages
<1>4. VerdictStands' /\ AloneMeansAlone'
  BY DEF VerdictStands, AloneMeansAlone, InFlight, InFlightStages, Answers
<1>5. ServedAloneWasChecked'
  BY DEF ServedAloneWasChecked, Served, ErrIsOwn, VerdictStands, AloneMeansAlone,
         InFlight, InFlightStages
<1>6. ServedAfterSomeCheck'
  BY DEF ServedAfterSomeCheck, Served, ErrIsClearedByAPass, VerdictStands, SomePassed
<1>7. PassedAloneIsNotRefused'
  BY DEF PassedAloneIsNotRefused, ErrIsOwn, VerdictStands, AloneMeansAlone, InFlight,
         InFlightStages
<1> QED
  BY <1>1, <1>2, <1>3, <1>4, <1>5, <1>6, <1>7 DEF ResourceInd

LEMMA AssignKeepsInd ==
  ASSUME ResourceInd, NEW q \in Requests, AssignErr(q)
  PROVE  ResourceInd'
<1> USE ResourceAssumption DEF ResourceInd, AssignErr, inputs, TypeOK
<1>1. TypeOK'
  BY DEF InFlightStages
<1>2. ErrIsOwn'
  BY DEF ErrIsOwn, AloneMeansAlone, InFlight, InFlightStages
<1>3. ErrIsClearedByAPass'
  BY DEF ErrIsClearedByAPass, VerdictStands, SomePassed, ServedAfterSomeCheck, Served,
         InFlight, InFlightStages
<1>4. VerdictStands' /\ AloneMeansAlone'
  BY DEF VerdictStands, AloneMeansAlone, InFlight, InFlightStages, Answers
<1>5. ServedAloneWasChecked'
  BY DEF ServedAloneWasChecked, Served, ErrIsOwn, VerdictStands, AloneMeansAlone,
         InFlight, InFlightStages
<1>6. ServedAfterSomeCheck'
  BY DEF ServedAfterSomeCheck, Served, ErrIsClearedByAPass, VerdictStands, SomePassed
<1>7. PassedAloneIsNotRefused'
  BY DEF PassedAloneIsNotRefused, ErrIsOwn, VerdictStands, AloneMeansAlone, InFlight,
         InFlightStages
<1> QED
  BY <1>1, <1>2, <1>3, <1>4, <1>5, <1>6, <1>7 DEF ResourceInd

LEMMA GiveUpKeepsInd ==
  ASSUME ResourceInd, NEW q \in Requests, GiveUp(q)
  PROVE  ResourceInd'
<1> USE ResourceAssumption DEF ResourceInd, GiveUp, inputs, TypeOK
<1>1. TypeOK'
  BY DEF InFlightStages
<1>2. ErrIsOwn'
  BY DEF ErrIsOwn, AloneMeansAlone, InFlight, InFlightStages
<1>3. ErrIsClearedByAPass'
  BY DEF ErrIsClearedByAPass, VerdictStands, SomePassed, ServedAfterSomeCheck, Served,
         InFlight, InFlightStages
<1>4. VerdictStands' /\ AloneMeansAlone'
  BY DEF VerdictStands, AloneMeansAlone, InFlight, InFlightStages, Answers
<1>5. ServedAloneWasChecked'
  BY DEF ServedAloneWasChecked, Served, ErrIsOwn, VerdictStands, AloneMeansAlone,
         InFlight, InFlightStages
<1>6. ServedAfterSomeCheck'
  BY DEF ServedAfterSomeCheck, Served, ErrIsClearedByAPass, VerdictStands, SomePassed
<1>7. PassedAloneIsNotRefused'
  BY DEF PassedAloneIsNotRefused, ErrIsOwn, VerdictStands, AloneMeansAlone, InFlight,
         InFlightStages
<1> QED
  BY <1>1, <1>2, <1>3, <1>4, <1>5, <1>6, <1>7 DEF ResourceInd

LEMMA TestKeepsInd ==
  ASSUME ResourceInd, NEW q \in Requests, TestErr(q)
  PROVE  ResourceInd'
<1> USE ResourceAssumption DEF ResourceInd, TestErr, inputs, TypeOK
<1>1. TypeOK'
  BY DEF InFlightStages, Answers
<1>2. ErrIsOwn'
  BY DEF ErrIsOwn, AloneMeansAlone, InFlight, InFlightStages
<1>3. ErrIsClearedByAPass'
  BY DEF ErrIsClearedByAPass, VerdictStands, SomePassed, ServedAfterSomeCheck, Served,
         InFlight, InFlightStages
<1>4. VerdictStands' /\ AloneMeansAlone'
  BY DEF VerdictStands, AloneMeansAlone, InFlight, InFlightStages, Answers
<1>5. ServedAloneWasChecked'
  BY DEF ServedAloneWasChecked, Served, ErrIsOwn, VerdictStands, AloneMeansAlone,
         InFlight, InFlightStages
<1>6. ServedAfterSomeCheck'
  BY DEF ServedAfterSomeCheck, Served, ErrIsClearedByAPass, VerdictStands, SomePassed
<1>7. PassedAloneIsNotRefused'
  BY DEF PassedAloneIsNotRefused, ErrIsOwn, VerdictStands, AloneMeansAlone, InFlight,
         InFlightStages
<1> QED
  BY <1>1, <1>2, <1>3, <1>4, <1>5, <1>6, <1>7 DEF ResourceInd

LEMMA GetKeepsInd ==
  ASSUME ResourceInd, NEW q \in Requests, GetValue(q)
  PROVE  ResourceInd'
<1> USE ResourceAssumption DEF ResourceInd, GetValue, inputs, TypeOK
<1>1. TypeOK'
  BY DEF Answers
<1>2. ErrIsOwn'
  BY DEF ErrIsOwn, AloneMeansAlone, InFlight, InFlightStages
<1>3. ErrIsClearedByAPass'
  BY DEF ErrIsClearedByAPass, VerdictStands, SomePassed, ServedAfterSomeCheck, Served,
         InFlight, InFlightStages
<1>4. VerdictStands' /\ AloneMeansAlone'
  BY DEF VerdictStands, AloneMeansAlone, InFlight, InFlightStages, Answers
<1>5. ServedAloneWasChecked'
  BY DEF ServedAloneWasChecked, Served, ErrIsOwn, VerdictStands, AloneMeansAlone,
         InFlight, InFlightStages
<1>6. ServedAfterSomeCheck'
  BY DEF ServedAfterSomeCheck, Served, ErrIsClearedByAPass, VerdictStands, SomePassed
<1>7. PassedAloneIsNotRefused'
  BY DEF PassedAloneIsNotRefused, ErrIsOwn, VerdictStands, AloneMeansAlone, InFlight,
         InFlightStages
<1> QED
  BY <1>1, <1>2, <1>3, <1>4, <1>5, <1>6, <1>7 DEF ResourceInd

LEMMA PutKeepsInd ==
  ASSUME ResourceInd, NEW q \in Requests, PutValue(q)
  PROVE  ResourceInd'
<1> USE ResourceAssumption DEF ResourceInd, PutValue, inputs, TypeOK
<1>1. TypeOK'
  BY DEF InFlightStages
<1>2. ErrIsOwn'
  BY DEF ErrIsOwn, AloneMeansAlone, InFlight, InFlightStages
<1>3. ErrIsClearedByAPass'
  BY DEF ErrIsClearedByAPass, VerdictStands, SomePassed, ServedAfterSomeCheck, Served,
         InFlight, InFlightStages
<1>4. VerdictStands' /\ AloneMeansAlone'
  BY DEF VerdictStands, AloneMeansAlone, InFlight, InFlightStages, Answers
<1>5. ServedAloneWasChecked'
  BY DEF ServedAloneWasChecked, Served, ErrIsOwn, VerdictStands, AloneMeansAlone,
         InFlight, InFlightStages
<1>6. ServedAfterSomeCheck'
  BY DEF ServedAfterSomeCheck, Served, ErrIsClearedByAPass, VerdictStands, SomePassed
<1>7. PassedAloneIsNotRefused'
  BY DEF PassedAloneIsNotRefused, ErrIsOwn, VerdictStands, AloneMeansAlone, InFlight,
         InFlightStages
<1> QED
  BY <1>1, <1>2, <1>3, <1>4, <1>5, <1>6, <1>7 DEF ResourceInd

LEMMA TestPutKeepsInd ==
  ASSUME ResourceInd, NEW q \in Requests, TestPutErr(q)
  PROVE  ResourceInd'
<1> USE ResourceAssumption DEF ResourceInd, TestPutErr, inputs, TypeOK
<1>1. TypeOK'
  BY DEF Answers
<1>2. ErrIsOwn'
  BY DEF ErrIsOwn, AloneMeansAlone, InFlight, InFlightStages
<1>3. ErrIsClearedByAPass'
  BY DEF ErrIsClearedByAPass, VerdictStands, SomePassed, ServedAfterSomeCheck, Served,
         InFlight, InFlightStages
<1>4. VerdictStands' /\ AloneMeansAlone'
  BY DEF VerdictStands, AloneMeansAlone, InFlight, InFlightStages, Answers
<1>5. ServedAloneWasChecked'
  BY DEF ServedAloneWasChecked, Served, ErrIsOwn, VerdictStands, AloneMeansAlone,
         InFlight, InFlightStages
<1>6. ServedAfterSomeCheck'
  BY DEF ServedAfterSomeCheck, Served, ErrIsClearedByAPass, VerdictStands, SomePassed
<1>7. PassedAloneIsNotRefused'
  <2>1. PICK failed \in {FALSE, err} :
          request' = [request EXCEPT ![q] = IF failed THEN "serverError" ELSE "ok"]
    OBVIOUS
  <2>2. alone[q] => ~failed
    BY <2>1 DEF ErrIsOwn
  <2>3. alone[q] => request'[q] = "ok"
    BY <2>1, <2>2
  <2>4. \A r \in Requests : r # q => request'[r] = request[r]
    BY <2>1
  <2> QED
    BY <2>3, <2>4 DEF PassedAloneIsNotRefused
<1> QED
  BY <1>1, <1>2, <1>3, <1>4, <1>5, <1>6, <1>7 DEF ResourceInd

LEMMA RestartKeepsInd ==
  ASSUME ResourceInd, Restart
  PROVE  ResourceInd'
<1> USE ResourceAssumption DEF ResourceInd, Restart, inputs, TypeOK
<1>1. TypeOK'
  BY DEF Answers
<1>2. ErrIsOwn'
  BY DEF ErrIsOwn, AloneMeansAlone, InFlight, InFlightStages
<1>3. ErrIsClearedByAPass'
  BY DEF ErrIsClearedByAPass, VerdictStands, SomePassed, ServedAfterSomeCheck, Served,
         InFlight, InFlightStages
<1>4. VerdictStands' /\ AloneMeansAlone'
  BY DEF VerdictStands, AloneMeansAlone, InFlight, InFlightStages, Answers
<1>5. ServedAloneWasChecked'
  BY DEF ServedAloneWasChecked, Served, ErrIsOwn, VerdictStands, AloneMeansAlone,
         InFlight, InFlightStages
<1>6. ServedAfterSomeCheck'
  BY DEF ServedAfterSomeCheck, Served, ErrIsClearedByAPass, VerdictStands, SomePassed
<1>7. PassedAloneIsNotRefused'
  BY DEF PassedAloneIsNotRefused, ErrIsOwn, VerdictStands, AloneMeansAlone, InFlight,
         InFlightStages
<1> QED
  BY <1>1, <1>2, <1>3, <1>4, <1>5, <1>6, <1>7 DEF ResourceInd

LEMMA NextKeepsInd == ResourceInd /\ [Next]_vars => ResourceInd'
<1> SUFFICES ASSUME ResourceInd, [Next]_vars PROVE ResourceInd'
  OBVIOUS
<1>1. ASSUME NEW q \in Requests, ServerStep(q) PROVE ResourceInd'
  BY <1>1, AssignKeepsInd, GiveUpKeepsInd, TestKeepsInd, GetKeepsInd, PutKeepsInd,
     TestPutKeepsInd DEF ServerStep
<1>2. CASE UNCHANGED vars
  <2>1. TypeOK'
    BY <1>2 DEF vars, ResourceInd, TypeOK, inputs
  <2> QED
    BY <1>2, <2>1, FrameKeepsInd DEF vars
<1> QED
  BY <1>1, <1>2, AuthServerKeepsInd, ReceiveKeepsInd, RestartKeepsInd DEF Next

-----------------------------------------------------------------------------
\* Every reachable state satisfies the inductive invariant.
THEOREM ResourceInductive == Spec => []ResourceInd
<1>1. Init => ResourceInd
  BY InitInd
<1>2. ResourceInd /\ [Next]_vars => ResourceInd'
  BY NextKeepsInd
<1> QED
  BY <1>1, <1>2, PTL DEF Spec

\* A request no other overlapped is served only if its own check passed.
THEOREM ServedAloneWereChecked == Spec => []ServedAloneWasChecked
<1>1. ResourceInd => ServedAloneWasChecked
  BY DEF ResourceInd
<1> QED
  BY <1>1, ResourceInductive, PTL

\* A request no other overlapped is not refused after its own check passed.
THEOREM PassedAloneAreNotRefused == Spec => []PassedAloneIsNotRefused
<1>1. ResourceInd => PassedAloneIsNotRefused
  BY DEF ResourceInd
<1> QED
  BY <1>1, ResourceInductive, PTL

\* Until the auth server has confirmed some token, nothing is served.
THEOREM ServedAfterSomeChecks == Spec => []ServedAfterSomeCheck
<1>1. ResourceInd => ServedAfterSomeCheck
  BY DEF ResourceInd
<1> QED
  BY <1>1, ResourceInductive, PTL
=====================================================================================
