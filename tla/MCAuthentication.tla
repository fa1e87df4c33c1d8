------------------------------ MODULE MCAuthentication ------------------------------
(* Authentication on small sets of model values. *)
EXTENDS Authentication, TLC

\* Runs, logins, and passwords, are interchangeable; sound where no liveness is checked.
Interchangeable == Permutations(Runs) \cup Permutations(Logins) \cup Permutations(Accounts) \cup Permutations(Passwords)
=====================================================================================
