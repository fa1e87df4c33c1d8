------------------------------ MODULE AccountDirectory ------------------------------
(***********************************************************************************)
(* What registration promises of an account, whatever the clients and Redis do: it  *)
(* is reserved once, enrolled only after it was reserved, and never goes back       *)
(* unless the store itself is lost.                                                 *)
(***********************************************************************************)
CONSTANTS
  Accounts,
  Forgetful   \* TRUE when the store dies with the process (miniredis)

VARIABLE phase

Phases == {"free", "reserved", "enrolled"}

Init == phase = [a \in Accounts |-> "free"]

Reserve(a) ==
  /\ phase[a] = "free"
  /\ phase' = [phase EXCEPT ![a] = "reserved"]

Enroll(a) ==
  /\ phase[a] = "reserved"
  /\ phase' = [phase EXCEPT ![a] = "enrolled"]

Forget ==
  /\ Forgetful
  /\ phase' = [a \in Accounts |-> "free"]

Next ==
  \/ \E a \in Accounts : Reserve(a) \/ Enroll(a)
  \/ Forget

Spec == Init /\ [][Next]_phase
=====================================================================================
