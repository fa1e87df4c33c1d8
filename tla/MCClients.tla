---------------------------------- MODULE MCClients ----------------------------------
(* The clients on small sets of model values. *)
EXTENDS Clients, TLC

\* Calls of the form are interchangeable; sound where no liveness is checked.
Interchangeable == Permutations(FormCalls)

\* A click reads the fields and nothing else does: once every click has been made,
\* states that differ in what is typed are one.
Observable ==
  IF \E c \in FormCalls : stage[c] = "idle"
    THEN vars
    ELSE <<service, form.session_token, form.info_msg, form.error_msg, calm, script, since>>
=====================================================================================
