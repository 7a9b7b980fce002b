------------------------- MODULE NetworkReplyServer -------------------------
(***************************************************************************)
(* What the validator network Service promises its callers (spec 2, 4.3,  *)
(* 4.5), with no channel and no Worker in it.  A replying call waits for *)
(* exactly one answer, ok or err, while the server runs; a notification   *)
(* returns Ok at once; a call made after the server ended fails at once;  *)
(* and when the server ends every waiting call fails.  Nothing else ever  *)
(* changes what a caller was told.                                         *)
(***************************************************************************)
CONSTANTS Callers

VARIABLES
  server,   \* "running" or "ended"
  op,       \* op[c]: the operation of c's last call, or "NoOp"
  reply     \* reply[c]: its answer, "none" while it waits

Requests == {"StartListening", "AddAddress", "RemoveExplicitPeer", "Subscribe", "Publish"}

Notifications == {"NewValidators", "RemoveValidators"}

\* A caller waiting for the answer to a replying call.
Pending(c) == op[c] \in Requests /\ reply[c] = "none"

Init ==
  /\ server = "running"
  /\ op = [c \in Callers |-> "NoOp"]
  /\ reply = [c \in Callers |-> "none"]

\* What a call of o returns at once: "none" means it waits for an answer.
CallResult(o) ==
  IF server = "ended" THEN "sendfail"
  ELSE IF o \in Requests THEN "none"
  ELSE "ok"

Call(c, o) ==
  /\ op[c] = "NoOp" \/ reply[c] # "none"
  /\ op' = [op EXCEPT ![c] = o]
  /\ reply' = [reply EXCEPT ![c] = CallResult(o)]
  /\ UNCHANGED server

Answer(c, r) ==
  /\ server = "running"
  /\ Pending(c)
  /\ reply' = [reply EXCEPT ![c] = r]
  /\ UNCHANGED <<server, op>>

Stop ==
  /\ server = "running"
  /\ server' = "ended"
  /\ reply' = [c \in Callers |-> IF Pending(c) THEN "recvfail" ELSE reply[c]]
  /\ UNCHANGED op

Next ==
  \/ \E c \in Callers, o \in Requests \cup Notifications : Call(c, o)
  \/ \E c \in Callers, r \in {"ok", "err"} : Answer(c, r)
  \/ Stop

Spec == Init /\ [][Next]_<<server, op, reply>>
=============================================================================
