--------------------------------- MODULE MCContract ---------------------------------
(* The contract on small sets of model values. *)
EXTENDS Contract, TLC

\* Names are interchangeable; sound where no liveness is checked.
Interchangeable ==
  UNION {Permutations(S) : S \in {Runs, Logins, Accounts, Passwords}}
=====================================================================================
