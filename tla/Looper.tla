------------------------------- MODULE Looper -------------------------------
(***************************************************************************)
(* The light client's header loop (redlight/src/looper.rs,               *)
(* finalized_headers) composed with the validator Worker it drives through *)
(* the Service.  The looper is one of the Worker's callers: it issues its  *)
(* Service calls through ValidatorWorker's Call and reads the result from  *)
(* reply[Looper]; every other step of the Worker is ValidatorWorker's own.  *)
(*                                                                         *)
(* The chain and the DAS node are outside: each of their answers is a      *)
(* nondeterministic choice among the outcomes the looper distinguishes.   *)
(* A header, a block and the signed metadata are not data here: only the  *)
(* nonce the metadata carries, and the nonces the chain has accepted.     *)
(***************************************************************************)
EXTENDS ValidatorWorker

CONSTANTS
  Looper,       \* the finalized_headers task, a caller of the Service
  MaxHeaders    \* how many header messages the subscription yields at most

ASSUME LooperAssumption == Callers = {Looper} /\ MaxHeaders \in Nat

VARIABLES
  lpc,          \* where finalized_headers is
  nonce,        \* its local nonce counter
  headers,      \* header messages received so far (bounded by MaxHeaders)
  submitted     \* the nonces of the metadata the chain accepted, in order

looper_vars == <<lpc, nonce, headers, submitted>>
all_vars == <<vars, looper_vars>>

\* Where the task can be; "panicked" is an unwrap on an Err, "done" a return.
Pcs == {"subscribe", "rotate", "await_key", "loop", "sign", "await_sig",
        "done", "panicked"}

-----------------------------------------------------------------------------
(* finalized_headers, one action per await point.                          *)

\* subscribe_best: on failure the task logs and returns.
Subscribe ==
  /\ lpc = "subscribe"
  /\ lpc' \in {"rotate", "done"}
  /\ UNCHANGED <<nonce, headers, submitted>>
  /\ UNCHANGED vars

\* service.rotate_key(): the Service call, then the await on its reply.
RotateKeyCall ==
  /\ lpc = "rotate"
  /\ Call(Looper, "RotateKey")
  /\ lpc' = "await_key"
  /\ UNCHANGED <<nonce, headers, submitted>>

\* .unwrap() of the key, then rpc_client.new_key(..).unwrap().
KeyReturned ==
  /\ lpc = "await_key"
  /\ reply[Looper] # "none"
  /\ IF reply[Looper] = "ok"
       THEN \E accepted \in BOOLEAN : lpc' = IF accepted THEN "loop" ELSE "panicked"
       ELSE lpc' = "panicked"
  /\ UNCHANGED <<nonce, headers, submitted>>
  /\ UNCHANGED vars

\* One turn of `while let Some(message) = new_heads_sub.next()`: the stream
\* ends and the task returns; or a message arrives.  An Err message, or
\* Ok(None) from get_latest_block or check_data_availability, continues the
\* loop; an Err from either DAS call returns; otherwise the metadata is
\* signed.  The send of the timestamp to message_tx is only logged.
NextHeader ==
  /\ lpc = "loop"
  /\ \/ /\ lpc' = "done"
        /\ UNCHANGED headers
     \/ /\ headers < MaxHeaders
        /\ headers' = headers + 1
        /\ lpc' \in {"loop", "done", "sign"}
  /\ UNCHANGED <<nonce, submitted>>
  /\ UNCHANGED vars

\* service.start_signing(&msg): msg encodes the metadata and the nonce.
SignCall ==
  /\ lpc = "sign"
  /\ Call(Looper, "Sign")
  /\ lpc' = "await_sig"
  /\ UNCHANGED <<nonce, headers, submitted>>

\* .unwrap() of the signature, then submit_metadata with the same nonce:
\* on success the nonce is incremented, on failure the task returns.
SignatureReturned ==
  /\ lpc = "await_sig"
  /\ reply[Looper] # "none"
  /\ \/ /\ reply[Looper] # "ok"
        /\ lpc' = "panicked"
        /\ UNCHANGED <<nonce, submitted>>
     \/ /\ reply[Looper] = "ok"
        /\ \/ /\ lpc' = "loop"
              /\ submitted' = Append(submitted, nonce)
              /\ nonce' = nonce + 1
           \/ /\ lpc' = "done"
              /\ UNCHANGED <<nonce, submitted>>
  /\ UNCHANGED headers
  /\ UNCHANGED vars

LooperStep ==
  Subscribe \/ RotateKeyCall \/ KeyReturned \/ NextHeader \/ SignCall \/ SignatureReturned

-----------------------------------------------------------------------------
\* The Worker's own steps leave the looper where it is.
WorkerStart == Start /\ UNCHANGED looper_vars
WorkerCommand == HandleCommand /\ UNCHANGED looper_vars
WorkerMessage == HandleMessage /\ UNCHANGED looper_vars

LInit ==
  /\ Init
  /\ lpc = "subscribe"
  /\ nonce = 0
  /\ headers = 0
  /\ submitted = << >>

\* The looper is the only caller of the Service in this repository.
LNext == LooperStep \/ WorkerStart \/ WorkerCommand \/ WorkerMessage

\* The looper is a spawned task: it runs whenever it is not awaiting; the
\* Worker keeps the fairness of its select! loop.
LFairness ==
  /\ WF_all_vars(WorkerStart)
  /\ WF_all_vars(WorkerCommand)
  /\ WF_all_vars(LooperStep)

LSpec == LInit /\ [][LNext]_all_vars /\ LFairness

-----------------------------------------------------------------------------
LTypeOK ==
  /\ TypeOK
  /\ lpc \in Pcs
  /\ nonce \in Nat
  /\ headers \in 0..MaxHeaders
  /\ submitted \in Seq(Nat)

(* The looper's unwraps never meet a contention or a dropped-channel error *)
(* while the Worker runs: being the only caller, it calls start_signing    *)
(* again only after the previous signature was delivered, which emptied    *)
(* sign_sender (take() in handle_send!), so the busy check never fires;   *)
(* and its single rotate_key cannot be displaced.  So the looper panics    *)
(* only on a protocol error or a Worker that failed to start.             *)
LooperNeverBusyOrDropped ==
  /\ reply[Looper] # "busy"
  /\ reply[Looper] = "canceled" => worker = "stopped"
=============================================================================
