------------------------------- MODULE MCRegistration -------------------------------
(* Registration on small sets of model values. *)
EXTENDS Registration, TLC

\* Runs, and passwords, are interchangeable; sound where no liveness is checked.
Interchangeable == Permutations(Runs) \cup Permutations(Passwords)
=====================================================================================
