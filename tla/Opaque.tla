---------------------------------- MODULE Opaque ----------------------------------
(***********************************************************************************)
(* The OPAQUE exchange of protocol-lib as a term algebra.                           *)
(*                                                                                  *)
(* Everything the protocol draws at random is named by the run that draws it: a     *)
(* registration run r draws one OPRF key kU (on the server), one salt and one user  *)
(* key pair (on the client), all called r; a login draws one nonce, named by the    *)
(* login.  Two draws of different runs are different, which is the one              *)
(* cryptographic assumption of the development.                                     *)
(***********************************************************************************)

CONSTANTS
  Runs,       \* registration runs: one call of run_password_reg each
  Accounts,   \* (apptoken, username) pairs: the part of every Redis key that varies
  Passwords,
  None        \* "no such Redis key"

ASSUME NoneIsNoRun == None \notin Runs

(***********************************************************************************)
(* What the registration handler keeps under reg:<apptoken>:<username>:envelope.    *)
(* owner stands for the three values run `owner' draws and sends together (user     *)
(* key, salt, envelope nonce), pw and sealedUnder for the key that encrypts envU    *)
(* (password and OPRF key, hardened), and kU for the OPRF key the server filed.     *)
(***********************************************************************************)
Envelopes == [owner : Runs, pw : Passwords, sealedUnder : Runs, kU : Runs]

NoEnvelope == [owner |-> None, pw |-> None, sealedUnder |-> None, kU |-> None]

\* What MakeEnvU computes from the password and an evaluation under kU, and
\* what StoreUserData puts beside it.
UserEnvelope(run, pw, evaluatedUnder, stored) ==
  [owner |-> run, pw |-> pw, sealedUnder |-> evaluatedUnder, kU |-> stored]

\* Mutation: the key is hardened from the OPRF key alone, without the password.
OpensForAnybody(env, pw) == env.kU = env.sealedUnder

\* decryptEnvU succeeds: the server's evaluation (under the filed kU) of this
\* password hardens to the key the envelope was sealed with.
Opens(env, pw) == env.pw = pw /\ env.kU = env.sealedUnder

(***********************************************************************************)
(* A session token is an authentication nonce followed by a key derived from it and *)
(* the Diffie-Hellman secret of the user key and the server key; the server key     *)
(* is the same throughout, so the user key's owner stands for the secret.           *)
(***********************************************************************************)
SessionToken(env, nonce) == [nonce |-> nonce, owner |-> env.owner]

NoToken == [nonce |-> None, owner |-> None]
=====================================================================================
