-------------------------- MODULE ValidatorWorker --------------------------
(***************************************************************************)
(* The rc-validator Worker (crates/rc-validator/src/worker.rs) together    *)
(* with the callers that drive it through cloned Service handles           *)
(* (crates/rc-validator/src/service.rs).                                   *)
(*                                                                         *)
(* A caller builds a oneshot channel, pushes a Command carrying its sender *)
(* into the mpsc command channel and awaits the receiver.  The Worker's    *)
(* run loop selects, one event at a time, between the next command, the   *)
(* next DKG-topic message and the next Sign-topic message.  A RotateKey or *)
(* Sign command parks its sender in the dkg_sender / sign_sender slot,     *)
(* which is emptied (take()) by the phase-2 message that ends a round.     *)
(*                                                                         *)
(* The FROST engine (FrostDkg, outside this repository's sources) is       *)
(* abstracted to one round flag per protocol and a nondeterministic choice *)
(* among the outcomes the spec allows each engine call.  Publishing is a   *)
(* round trip to the network service that may fail; a payload that was    *)
(* published is recorded in `published` as <<topic, kind>>.  Gossip from  *)
(* peers arrives at any time, in any order and any number of times.  An   *)
(* undecodable payload only logs, so it is a stuttering step.              *)
(***************************************************************************)
EXTENDS Naturals, Sequences, FiniteSets

CONSTANTS
  Callers,    \* tasks holding a clone of the Service handle
  NoSender    \* Option::None in a reply slot

ASSUME CallersAssumption == IsFiniteSet(Callers) /\ NoSender \notin Callers

VARIABLES
  worker,           \* "init" before run(), "running" in its loop, "stopped" after run() failed
  command_receiver, \* the mpsc channel: Seq of [op, caller]
  dkg_sender,       \* the caller parked in Worker.dkg_sender, or NoSender
  sign_sender,      \* the caller parked in Worker.sign_sender, or NoSender
  op,               \* op[c]: the Service method c last called, or NoOp
  reply,            \* reply[c]: what c's oneshot receiver holds ("none" = still empty)
  dkg_round,        \* FrostDkg: is a DKG round in progress at this node?
  sign_round,       \* FrostDkg: is a signing round in progress at this node?
  published         \* <<topic, kind>> of every payload published successfully

vars == <<worker, command_receiver, dkg_sender, sign_sender, op, reply,
          dkg_round, sign_round, published>>

Ops == {"RotateKey", "Sign", "Setup", "AddValidators", "RemoveValidators"}
NoOp == "NoOp"

(* "canceled": the oneshot sender was dropped unanswered (the Service     *)
(* reports "Failed to receive response from worker"); "sendfail": the     *)
(* command could not be enqueued ("Failed to send command to worker").     *)
Replies == {"none", "ok", "err", "busy", "canceled", "sendfail"}

Command == [op : Ops, caller : Callers]
Payloads == ({"dkg_topic"} \X {"DkgPart1", "DkgPart2", "null"})
              \cup ({"sign_topic"} \X {"SignPart1", "SignPart2"})

-----------------------------------------------------------------------------
(* Helpers.                                                                *)

\* The commands of a channel, the callers they belong to, and whether no
\* caller has two commands in it.
EntriesOf(s) == {s[i] : i \in 1..Len(s)}
CallersOf(s) == {e.caller : e \in EntriesOf(s)}
UniqueCallers(s) ==
  \A i, j \in 1..Len(s) : i # j => s[i].caller # s[j].caller

\* The callers whose command is still in the channel.
Queued == CallersOf(command_receiver)

\* handle_send!: deliver a result through the sender taken from a slot, if any.
Answer(slot, result) ==
  IF slot = NoSender THEN reply ELSE [reply EXCEPT ![slot] = result]

\* serialize_and_publish: the payload reaches the topic only when the
\* network service's publish round trip succeeds.
Publish(ok, topic, kind) == IF ok THEN {<<topic, kind>>} ELSE {}

\* FrostDkg::dkg_part2 / sign_part2: a completed result, "no result yet", or
\* an error; a phase-2 message outside a round is out of sequence.
Phase2Outcomes(round) ==
  IF round = "active" THEN {"done", "pending", "err"} ELSE {"err"}

\* The command at the head of the channel, taken by the run loop.
HeadIs(o) ==
  /\ worker = "running"
  /\ command_receiver # << >>
  /\ Head(command_receiver).op = o

-----------------------------------------------------------------------------
(* Callers: the five Service methods, which differ only in the Command.   *)

\* A caller whose previous call has returned calls method o.
Call(c, o) ==
  /\ op[c] = NoOp \/ reply[c] # "none"
  /\ op' = [op EXCEPT ![c] = o]
  /\ \/ /\ worker # "stopped"
        /\ command_receiver' = Append(command_receiver, [op |-> o, caller |-> c])
        /\ reply' = [reply EXCEPT ![c] = "none"]
     \/ /\ worker = "stopped"
        /\ reply' = [reply EXCEPT ![c] = "sendfail"]
        /\ UNCHANGED command_receiver
  /\ UNCHANGED <<worker, dkg_sender, sign_sender, dkg_round, sign_round, published>>

-----------------------------------------------------------------------------
(* Worker.                                                                 *)

\* run(): subscribe to both topics; a failed subscription ends run() with
\* an error and drops the Worker, its receiver, and every queued sender.
Start ==
  /\ worker = "init"
  /\ \/ worker' = "running" /\ UNCHANGED <<command_receiver, reply>>
     \/ /\ worker' = "stopped"
        /\ command_receiver' = << >>
        /\ reply' = [c \in Callers |-> IF c \in Queued THEN "canceled" ELSE reply[c]]
  /\ UNCHANGED <<dkg_sender, sign_sender, op, dkg_round, sign_round, published>>

\* start_dkg: the engine may start a round; its DkgPart1 is published only
\* if it did and the publish succeeded.  Errors are only logged.
StartDkg ==
  \E started, sent \in BOOLEAN :
    /\ dkg_round' = IF started THEN "active" ELSE dkg_round
    /\ published' = published \cup Publish(started /\ sent, "dkg_topic", "DkgPart1")

\* Faulty variant of start_sign: the DKG topic constant is used by mistake.
StartSignWrongTopic ==
  \E started, sent \in BOOLEAN :
    /\ sign_round' = IF started THEN "active" ELSE sign_round
    /\ published' = published \cup Publish(started /\ sent, "dkg_topic", "SignPart1")

\* start_sign, likewise on the sign topic.
StartSign ==
  \E started, sent \in BOOLEAN :
    /\ sign_round' = IF started THEN "active" ELSE sign_round
    /\ published' = published \cup Publish(started /\ sent, "sign_topic", "SignPart1")

\* RotateKey: start_dkg, then park the sender, dropping any sender already
\* parked.
RotateKey ==
  /\ HeadIs("RotateKey")
  /\ command_receiver' = Tail(command_receiver)
  /\ StartDkg
  /\ dkg_sender' = Head(command_receiver).caller
  /\ reply' = Answer(dkg_sender, "canceled")
  /\ UNCHANGED <<worker, sign_sender, op, sign_round>>

\* Faulty variant of Sign: the busy answer goes to the parked sender.
SignBusyToParked ==
  /\ HeadIs("Sign")
  /\ command_receiver' = Tail(command_receiver)
  /\ \/ /\ sign_sender # NoSender
        /\ reply' = [reply EXCEPT ![sign_sender] = "busy"]
        /\ UNCHANGED <<sign_sender, sign_round, published>>
     \/ /\ sign_sender = NoSender
        /\ StartSign
        /\ sign_sender' = Head(command_receiver).caller
        /\ UNCHANGED reply
  /\ UNCHANGED <<worker, dkg_sender, op, dkg_round>>

\* Faulty variant of Sign without the busy check: like RotateKey, it drops
\* the parked sender.
SignNoBusyCheck ==
  /\ HeadIs("Sign")
  /\ command_receiver' = Tail(command_receiver)
  /\ StartSign
  /\ sign_sender' = Head(command_receiver).caller
  /\ reply' = Answer(sign_sender, "canceled")
  /\ UNCHANGED <<worker, dkg_sender, op, dkg_round>>

\* Faulty variant of Sign: a request that finds the slot busy is put back
\* at the end of the channel instead of being answered.
SignRequeueBusy ==
  /\ HeadIs("Sign")
  /\ \/ /\ sign_sender # NoSender
        /\ command_receiver' = Append(Tail(command_receiver), Head(command_receiver))
        /\ UNCHANGED <<reply, sign_sender, sign_round, published>>
     \/ /\ sign_sender = NoSender
        /\ command_receiver' = Tail(command_receiver)
        /\ StartSign
        /\ sign_sender' = Head(command_receiver).caller
        /\ UNCHANGED reply
  /\ UNCHANGED <<worker, dkg_sender, op, dkg_round>>

\* Sign: answer "busy" while a sender is parked; otherwise start_sign and
\* park the sender.
Sign ==
  /\ HeadIs("Sign")
  /\ command_receiver' = Tail(command_receiver)
  /\ \/ /\ sign_sender # NoSender
        /\ reply' = [reply EXCEPT ![Head(command_receiver).caller] = "busy"]
        /\ UNCHANGED <<sign_sender, sign_round, published>>
     \/ /\ sign_sender = NoSender
        /\ StartSign
        /\ sign_sender' = Head(command_receiver).caller
        /\ UNCHANGED reply
  /\ UNCHANGED <<worker, dkg_sender, op, dkg_round>>

\* Setup, AddValidators, RemoveValidators: answered at once with the
\* result of set_nt, resp. of the network service call.  The threshold and
\* the validator list are data no property here tells apart.
Immediate(o) ==
  /\ HeadIs(o)
  /\ command_receiver' = Tail(command_receiver)
  /\ \E result \in {"ok", "err"} :
       reply' = [reply EXCEPT ![Head(command_receiver).caller] = result]
  /\ UNCHANGED <<worker, dkg_sender, sign_sender, op, dkg_round, sign_round, published>>

Setup == Immediate("Setup")
AddValidators == Immediate("AddValidators")
RemoveValidators == Immediate("RemoveValidators")

HandleCommand == RotateKey \/ Sign \/ Setup \/ AddValidators \/ RemoveValidators

\* A DkgPart1 message: dkg_part1 joins the round and its answer is published.
DkgPart1 ==
  /\ worker = "running"
  /\ \E joined, sent \in BOOLEAN :
       /\ dkg_round' = IF joined THEN "active" ELSE dkg_round
       /\ published' = published \cup Publish(joined /\ sent, "dkg_topic", "DkgPart2")
  /\ UNCHANGED <<worker, command_receiver, dkg_sender, sign_sender, op, reply, sign_round>>

\* A DkgPart2 message: a key or an error goes to the parked sender, if any,
\* and empties the slot; Ok(None) publishes the serialised None, "null".
DkgPart2 ==
  /\ worker = "running"
  /\ \E outcome \in Phase2Outcomes(dkg_round) :
       \/ /\ outcome \in {"done", "err"}
          /\ reply' = Answer(dkg_sender, IF outcome = "done" THEN "ok" ELSE "err")
          /\ dkg_sender' = NoSender
          /\ dkg_round' = "idle"
          /\ UNCHANGED published
       \/ /\ outcome = "pending"
          /\ \E sent \in BOOLEAN : published' = published \cup Publish(sent, "dkg_topic", "null")
          /\ UNCHANGED <<reply, dkg_sender, dkg_round>>
  /\ UNCHANGED <<worker, command_receiver, sign_sender, op, sign_round>>

\* A SignPart1 message: sign_part1's answer is published, then the received
\* SignPart1 is published again whatever sign_part1 returned.
SignPart1 ==
  /\ worker = "running"
  /\ \E joined, sent, resent \in BOOLEAN :
       /\ sign_round' = IF joined THEN "active" ELSE sign_round
       /\ published' = published \cup Publish(joined /\ sent, "sign_topic", "SignPart2")
                                 \cup Publish(resent, "sign_topic", "SignPart1")
  /\ UNCHANGED <<worker, command_receiver, dkg_sender, sign_sender, op, reply, dkg_round>>

\* Faulty variant of SignPart2: the sender is answered through a reference
\* instead of take(), so the slot stays occupied.
SignPart2NoTake ==
  /\ worker = "running"
  /\ \E outcome \in Phase2Outcomes(sign_round) \ {"pending"} :
       /\ reply' = Answer(sign_sender, IF outcome = "done" THEN "ok" ELSE "err")
       /\ sign_round' = "idle"
  /\ UNCHANGED <<worker, command_receiver, dkg_sender, sign_sender, op, dkg_round, published>>

\* A SignPart2 message: a signature or an error goes to the parked sender,
\* if any, and empties the slot; Ok(None) does nothing (a stuttering step).
SignPart2 ==
  /\ worker = "running"
  /\ \E outcome \in Phase2Outcomes(sign_round) \ {"pending"} :
       /\ reply' = Answer(sign_sender, IF outcome = "done" THEN "ok" ELSE "err")
       /\ sign_sender' = NoSender
       /\ sign_round' = "idle"
  /\ UNCHANGED <<worker, command_receiver, dkg_sender, op, dkg_round, published>>

HandleMessage == DkgPart1 \/ DkgPart2 \/ SignPart1 \/ SignPart2

-----------------------------------------------------------------------------
Init ==
  /\ worker = "init"
  /\ command_receiver = << >>
  /\ dkg_sender = NoSender
  /\ sign_sender = NoSender
  /\ op = [c \in Callers |-> NoOp]
  /\ reply = [c \in Callers |-> "none"]
  /\ dkg_round = "idle"
  /\ sign_round = "idle"
  /\ published = {}

Next ==
  \/ \E c \in Callers, o \in Ops : Call(c, o)
  \/ Start
  \/ HandleCommand
  \/ HandleMessage

(* The select! loop polls its ready branches in random order, so a command *)
(* that stays ready is eventually taken; gossip is up to the peers and     *)
(* callers call when they like, so neither gets fairness.                  *)
Fairness == WF_vars(Start) /\ WF_vars(HandleCommand)

Spec == Init /\ [][Next]_vars /\ Fairness

-----------------------------------------------------------------------------
(* Properties.                                                             *)

TypeOK ==
  /\ worker \in {"init", "running", "stopped"}
  /\ command_receiver \in Seq(Command)
  /\ dkg_sender \in Callers \cup {NoSender}
  /\ sign_sender \in Callers \cup {NoSender}
  /\ op \in [Callers -> Ops \cup {NoOp}]
  /\ reply \in [Callers -> Replies]
  /\ dkg_round \in {"idle", "active"}
  /\ sign_round \in {"idle", "active"}
  /\ published \subseteq Payloads

(* Every call still awaiting its reply is held in exactly one place the    *)
(* Worker will answer from: once in the command channel, or parked in the  *)
(* slot of its own kind; and a parked sender belongs to a caller that is   *)
(* still waiting.  Breaks if a reply goes to the wrong sender (e.g. the    *)
(* busy answer to the parked Sign caller) or a slot keeps an answered one. *)
Waiting(c) == op[c] # NoOp /\ reply[c] = "none"

SlotOwnership ==
  /\ dkg_sender # NoSender =>
       /\ op[dkg_sender] = "RotateKey" /\ Waiting(dkg_sender) /\ dkg_sender \notin Queued
  /\ sign_sender # NoSender =>
       /\ op[sign_sender] = "Sign" /\ Waiting(sign_sender) /\ sign_sender \notin Queued
  /\ \A e \in EntriesOf(command_receiver) : op[e.caller] = e.op /\ Waiting(e.caller)
  /\ UniqueCallers(command_receiver)
  /\ \A c \in Callers :
       Waiting(c) => c \in Queued \/ c = dkg_sender \/ c = sign_sender

(* A Sign request is never dropped unanswered while the Worker runs: the   *)
(* busy check in handle_command answers a second request instead of       *)
(* overwriting the parked sender (worker.rs:111-122).                      *)
NoSignRequestDropped ==
  \A c \in Callers : op[c] = "Sign" /\ reply[c] = "canceled" => worker = "stopped"

(* Spec section 3: a Command is always answered, never silently dropped    *)
(* under normal operation (only a Worker that failed to start drops them). *)
NoRequestDropped ==
  \A c \in Callers : reply[c] = "canceled" => worker = "stopped"

(* Spec section 7: an error tied to an outstanding request is delivered to *)
(* its reply channel.  So a Sign caller waits in the slot only while a     *)
(* signing round is in progress to answer it.                              *)
SignSlotBackedByRound ==
  sign_sender # NoSender => sign_round = "active"

(* Spec sections 4.4 and 6: every payload on the DKG topic is a serialised *)
(* DkgMessage, which every receiver can decode.                            *)
DkgPublishesDecodable ==
  \A m \in published : m[1] = "dkg_topic" => m[2] \in {"DkgPart1", "DkgPart2"}

(* Every call is eventually either answered or parked in its slot: the     *)
(* run loop keeps taking commands however much gossip arrives.             *)
RequestEventuallyTaken ==
  \A c \in Callers :
    Waiting(c) ~> (~Waiting(c) \/ c = dkg_sender \/ c = sign_sender)

(* The Worker and the Service together implement the reply-server        *)
(* promise: every answer a caller sees goes to a caller still waiting, is *)
(* given once, and is of a kind its operation allows ("busy" only to Sign, *)
(* "canceled" while running only to RotateKey); a failed start cancels    *)
(* exactly the waiting calls.  The slots, channel, rounds and publications *)
(* are hidden: every step on them alone is a stuttering step.              *)
RS == INSTANCE ReplyServer WITH server <- worker
RefinesReplyServer == RS!Spec
=============================================================================
