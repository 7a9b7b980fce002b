---------------------------- MODULE NetworkService ----------------------------
(***************************************************************************)
(* The validator network Service of                                       *)
(* crates/rc-validator-network/src/service.rs: a cloneable handle whose   *)
(* every method sends one Command over the mpsc channel `to_worker`.      *)
(* Five methods carry a oneshot sender and await the reply; two           *)
(* (new_validators, remove_validators) carry none and return Ok(()) as    *)
(* soon as the command is queued.                                          *)
(*                                                                         *)
(* The network Worker that consumes the channel is not in the repository; *)
(* it is modelled from the spec (4.3, 4.5): it takes commands in order,   *)
(* answers each oneshot with ok or err, and may end, which drops the      *)
(* receiver and with it every queued command and its oneshot sender.      *)
(***************************************************************************)
EXTENDS Naturals, Sequences

CONSTANTS
  Callers,    \* tasks holding a clone of the Service
  MaxQueue    \* bound on the commands queued at once (the channel is not)

ASSUME NetworkAssumption == MaxQueue \in Nat \ {0}

\* The methods that send a oneshot sender and await its reply.
Requests == {"StartListening", "AddAddress", "RemoveExplicitPeer", "Subscribe", "Publish"}

\* The methods that send a command without a reply channel.
Notifications == {"NewValidators", "RemoveValidators"}

NetOps == Requests \cup Notifications

VARIABLES
  net,        \* the network Worker: "running" or "ended"
  to_worker,  \* queued commands [caller, op], oldest first
  op,         \* op[c]: the method c called last, or "NoOp"
  reply,      \* reply[c]: what it returned; "none" while it awaits the reply
  lost        \* history: a command whose call returned Ok was dropped unapplied

vars == <<net, to_worker, op, reply, lost>>

Init ==
  /\ net = "running"
  /\ to_worker = << >>
  /\ op = [c \in Callers |-> "NoOp"]
  /\ reply = [c \in Callers |-> "none"]
  /\ lost = FALSE

\* A caller whose last call has returned may call again.
Idle(c) == op[c] = "NoOp" \/ reply[c] # "none"

\* `self.to_worker.clone().send(cmd).await?`: a fresh clone never waits
\* for room, so the send fails only when the Worker's receiver is gone.
\* On success the caller's state becomes r.
SendCommand(c, o, r) ==
  /\ Idle(c)
  /\ op' = [op EXCEPT ![c] = o]
  /\ \/ /\ net = "ended"
        /\ reply' = [reply EXCEPT ![c] = "sendfail"]
        /\ UNCHANGED to_worker
     \/ /\ net = "running"
        /\ Len(to_worker) < MaxQueue
        /\ to_worker' = Append(to_worker, [caller |-> c, op |-> o])
        /\ reply' = [reply EXCEPT ![c] = r]
  /\ UNCHANGED <<net, lost>>

\* A replying method: after the send, `receiver.await` waits for the answer.
Request(c, o) == SendCommand(c, o, "none")

\* Faulty variant of Notify: the send's error is discarded
\* (`let _ = ...send(..).await; Ok(())`), so the call reports Ok even
\* when the Worker is gone.
NotifyIgnoringSendError(c, o) ==
  /\ Idle(c)
  /\ op' = [op EXCEPT ![c] = o]
  /\ \/ /\ net = "ended"
        /\ UNCHANGED to_worker
     \/ /\ net = "running"
        /\ Len(to_worker) < MaxQueue
        /\ to_worker' = Append(to_worker, [caller |-> c, op |-> o])
  /\ reply' = [reply EXCEPT ![c] = "ok"]
  /\ UNCHANGED <<net, lost>>

\* new_validators, remove_validators: `Ok(())` right after the send.
Notify(c, o) == SendCommand(c, o, "ok")

StartListening(c) == Request(c, "StartListening")

AddAddress(c) == Request(c, "AddAddress")

RemoveExplicitPeer(c) == Request(c, "RemoveExplicitPeer")

Subscribe(c) == Request(c, "Subscribe")

Publish(c) == Request(c, "Publish")

NewValidators(c) == Notify(c, "NewValidators")

RemoveValidators(c) == Notify(c, "RemoveValidators")

\* The Worker takes the oldest command; a request is answered through its
\* oneshot with ok or err, a notification is applied with no answer.
HandleCommand ==
  LET h == Head(to_worker) IN
  /\ net = "running"
  /\ to_worker # << >>
  /\ to_worker' = Tail(to_worker)
  /\ \/ /\ h.op \in Requests
        /\ \E r \in {"ok", "err"} : reply' = [reply EXCEPT ![h.caller] = r]
     \/ /\ h.op \in Notifications
        /\ UNCHANGED reply
  /\ UNCHANGED <<net, op, lost>>

\* Faulty variant of End: the queued commands are not dropped with the
\* receiver, so their oneshot senders stay alive.
EndKeepingQueue ==
  /\ net = "running"
  /\ net' = "ended"
  /\ UNCHANGED <<to_worker, op, reply, lost>>

\* The Worker ends.  Dropping the mpsc receiver drains the channel: every
\* queued oneshot sender is dropped, so its caller's receiver.await fails;
\* a queued notification is dropped although its caller was told Ok.
End ==
  LET queued == {to_worker[i] : i \in DOMAIN to_worker} IN
  /\ net = "running"
  /\ net' = "ended"
  /\ to_worker' = << >>
  /\ reply' = [c \in Callers |->
                 IF [caller |-> c, op |-> op[c]] \in queued /\ op[c] \in Requests
                   THEN "recvfail" ELSE reply[c]]
  /\ lost' = (lost \/ \E m \in queued : m.op \in Notifications)
  /\ UNCHANGED op

Next ==
  \/ \E c \in Callers :
       \/ StartListening(c) \/ AddAddress(c) \/ RemoveExplicitPeer(c)
       \/ Subscribe(c) \/ Publish(c)
       \/ NewValidators(c) \/ RemoveValidators(c)
  \/ HandleCommand
  \/ End

\* The Worker is a task the executor polls while it is not ended.
Fairness == WF_vars(HandleCommand)

Spec == Init /\ [][Next]_vars /\ Fairness

-----------------------------------------------------------------------------
(* Properties *)

TypeOK ==
  /\ net \in {"running", "ended"}
  /\ to_worker \in Seq([caller : Callers, op : NetOps])
  /\ op \in [Callers -> NetOps \cup {"NoOp"}]
  /\ reply \in [Callers -> {"none", "ok", "err", "sendfail", "recvfail"}]
  /\ lost \in BOOLEAN

Awaiting(c) == op[c] \in Requests /\ reply[c] = "none"

(* Every call of a replying method returns: with the Worker's answer, or  *)
(* with a communication error once the Worker has ended.                  *)
CallReturns == \A c \in Callers : Awaiting(c) ~> ~Awaiting(c)

(* Spec 3 and 7: a Command is never silently dropped; a command that the  *)
(* Worker never applies surfaces to its caller as a communication error.  *)
NoSilentDrop == ~lost

NRS == INSTANCE NetworkReplyServer WITH server <- net

(* The Service with the network Worker behind it implements the abstract  *)
(* reply server: every oneshot answer goes to a caller awaiting that call, *)
(* a send fails only after the Worker ended, and the Worker's end fails    *)
(* exactly the calls still awaiting.  Notifications are invisible to it.   *)
RefinesNetworkReplyServer == NRS!Spec
=============================================================================
