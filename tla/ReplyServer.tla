---------------------------- MODULE ReplyServer ----------------------------
(***************************************************************************)
(* What the validator Service promises its callers (spec sections 3, 4.4  *)
(* and 7), with no Worker, engine or channel in it.  A caller whose last  *)
(* call has returned may call again; a call made after the server stopped *)
(* fails at once; otherwise it waits until it is given exactly one answer *)
(* of the kinds its operation allows.  A server that fails to start drops *)
(* every waiting call.                                                     *)
(*                                                                         *)
(* The answers allowed while running include the existing behaviour the  *)
(* spec flags as an open question (section 9): a RotateKey call may be    *)
(* dropped ("canceled") by a later one.                                   *)
(***************************************************************************)
CONSTANTS Callers

VARIABLES
  server,   \* "init", "running" or "stopped"
  op,       \* op[c]: the operation of c's current call, or "NoOp"
  reply     \* reply[c]: its answer, "none" while it waits

Ops == {"RotateKey", "Sign", "Setup", "AddValidators", "RemoveValidators"}

\* A caller with a call in progress.
Pending(c) == op[c] # "NoOp" /\ reply[c] = "none"

\* The answers a running server may give to a call of operation o.
Allowed(o) ==
  CASE o = "RotateKey" -> {"ok", "err", "canceled"}
    [] o = "Sign"      -> {"ok", "err", "busy"}
    [] OTHER           -> {"ok", "err"}

Init ==
  /\ server = "init"
  /\ op = [c \in Callers |-> "NoOp"]
  /\ reply = [c \in Callers |-> "none"]

Call(c, o) ==
  /\ op[c] = "NoOp" \/ reply[c] # "none"
  /\ op' = [op EXCEPT ![c] = o]
  /\ reply' = [reply EXCEPT ![c] = IF server = "stopped" THEN "sendfail" ELSE "none"]
  /\ UNCHANGED server

Run ==
  /\ server = "init"
  /\ server' = "running"
  /\ UNCHANGED <<op, reply>>

Stop ==
  /\ server = "init"
  /\ server' = "stopped"
  /\ reply' = [c \in Callers |-> IF Pending(c) THEN "canceled" ELSE reply[c]]
  /\ UNCHANGED op

Answer(c, r) ==
  /\ server = "running"
  /\ Pending(c)
  /\ r \in Allowed(op[c])
  /\ reply' = [reply EXCEPT ![c] = r]
  /\ UNCHANGED <<server, op>>

Next ==
  \/ \E c \in Callers, o \in Ops : Call(c, o)
  \/ Run
  \/ Stop
  \/ \E c \in Callers, r \in {"ok", "err", "canceled", "busy"} : Answer(c, r)

Spec == Init /\ [][Next]_<<server, op, reply>>
=============================================================================
