--------------------------------- MODULE NonceWindow ---------------------------------
(***********************************************************************************)
(* What the server remembers of the authentication nonces it has issued: of each    *)
(* account the newest ones, up to a fixed number, newest first.  A nonce is found   *)
(* until that many newer ones have been issued for its account, and never again.    *)
(***********************************************************************************)
EXTENDS Naturals, Sequences

CONSTANTS
  Accounts,
  Logins,      \* a nonce is named by the login it was drawn for
  Size,        \* how many nonces are remembered
  Forgetful    \* TRUE when the store dies with the process (miniredis)

VARIABLE window

Newest(s) == SubSeq(s, 1, IF Size < Len(s) THEN Size ELSE Len(s))

Init == window = [a \in Accounts |-> <<>>]

Issue(a, l) == window' = [window EXCEPT ![a] = Newest(<<l>> \o @)]

Forget ==
  /\ Forgetful
  /\ window' = [a \in Accounts |-> <<>>]

Next ==
  \/ \E a \in Accounts, l \in Logins : Issue(a, l)
  \/ Forget

Spec == Init /\ [][Next]_window
=====================================================================================
