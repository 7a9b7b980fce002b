----------------------- MODULE ValidatorWorkerProofs -----------------------
(***************************************************************************)
(* Proofs about ValidatorWorker for every set of callers.                  *)
(*                                                                         *)
(* SlotOwnership is not inductive by itself: Start may drop the command    *)
(* channel and must not leave a sender parked, which holds because no      *)
(* command is handled before run() has subscribed (StartedBeforeParking). *)
(***************************************************************************)
EXTENDS ValidatorWorker, TLAPS

\* No sender is parked before the run loop has started.
StartedBeforeParking ==
  worker = "init" => dkg_sender = NoSender /\ sign_sender = NoSender

IInv == TypeOK /\ SlotOwnership /\ StartedBeforeParking

-----------------------------------------------------------------------------
(* The command channel under the two operations the model applies to it.  *)

\* Taking the head command removes exactly its caller from the channel.
LEMMA TailQueue ==
  ASSUME NEW s \in Seq(Command), s # << >>, UniqueCallers(s)
  PROVE  /\ Tail(s) \in Seq(Command)
         /\ Head(s) \in EntriesOf(s)
         /\ EntriesOf(Tail(s)) \subseteq EntriesOf(s)
         /\ UniqueCallers(Tail(s))
         /\ CallersOf(Tail(s)) = CallersOf(s) \ {Head(s).caller}
<1>1. /\ Tail(s) \in Seq(Command)
      /\ Len(Tail(s)) = Len(s) - 1
      /\ \A i \in 1..Len(Tail(s)) : Tail(s)[i] = s[i + 1]
  OBVIOUS
<1>2. Head(s) \in EntriesOf(s)
  BY DEF EntriesOf
<1>3. EntriesOf(Tail(s)) \subseteq EntriesOf(s)
  BY <1>1 DEF EntriesOf
<1>4. UniqueCallers(Tail(s))
  BY <1>1 DEF UniqueCallers
<1>5. CallersOf(Tail(s)) = CallersOf(s) \ {Head(s).caller}
  <2>1. ASSUME NEW c \in CallersOf(Tail(s)) PROVE c \in CallersOf(s) \ {Head(s).caller}
    <3>1. PICK i \in 1..Len(Tail(s)) : c = Tail(s)[i].caller
      BY DEF CallersOf, EntriesOf
    <3>2. c = s[i + 1].caller /\ i + 1 \in 1..Len(s) /\ i + 1 # 1
      BY <1>1, <3>1
    <3> QED
      BY <3>2 DEF CallersOf, EntriesOf, UniqueCallers
  <2>2. ASSUME NEW c \in CallersOf(s) \ {Head(s).caller} PROVE c \in CallersOf(Tail(s))
    <3>1. PICK k \in 1..Len(s) : c = s[k].caller
      BY DEF CallersOf, EntriesOf
    <3>2. k # 1
      BY <3>1
    <3>3. k - 1 \in 1..Len(Tail(s)) /\ Tail(s)[k - 1] = s[k]
      BY <1>1, <3>2
    <3> QED
      BY <3>1, <3>3 DEF CallersOf, EntriesOf
  <2> QED
    BY <2>1, <2>2
<1> QED
  BY <1>1, <1>2, <1>3, <1>4, <1>5

\* Appending a command of a caller not in the channel adds exactly it.
LEMMA AppendQueue ==
  ASSUME NEW s \in Seq(Command), NEW e \in Command, UniqueCallers(s),
         e.caller \notin CallersOf(s)
  PROVE  /\ Append(s, e) \in Seq(Command)
         /\ EntriesOf(Append(s, e)) = EntriesOf(s) \cup {e}
         /\ UniqueCallers(Append(s, e))
         /\ CallersOf(Append(s, e)) = CallersOf(s) \cup {e.caller}
<1>1. /\ Append(s, e) \in Seq(Command)
      /\ Len(Append(s, e)) = Len(s) + 1
      /\ \A i \in 1..Len(s) : Append(s, e)[i] = s[i]
      /\ Append(s, e)[Len(s) + 1] = e
  OBVIOUS
<1>2. EntriesOf(Append(s, e)) = EntriesOf(s) \cup {e}
  BY <1>1 DEF EntriesOf
<1>3. UniqueCallers(Append(s, e))
  BY <1>1 DEF UniqueCallers, CallersOf, EntriesOf
<1> QED
  BY <1>1, <1>2, <1>3 DEF CallersOf

-----------------------------------------------------------------------------
(* A caller that is not waiting is nowhere the Worker could answer it.    *)
LEMMA NotWaitingNowhere ==
  ASSUME IInv, NEW c \in Callers, ~Waiting(c)
  PROVE  c \notin Queued /\ c # dkg_sender /\ c # sign_sender
<1>1. c \notin Queued
  <2> SUFFICES ASSUME c \in Queued PROVE FALSE
    OBVIOUS
  <2>1. PICK e \in EntriesOf(command_receiver) : e.caller = c
    BY DEF Queued, CallersOf
  <2> QED
    BY <2>1 DEF IInv, SlotOwnership
<1>2. c # dkg_sender /\ c # sign_sender
  BY CallersAssumption DEF IInv, SlotOwnership
<1> QED
  BY <1>1, <1>2

LEMMA InitIInv == Init => IInv
<1> SUFFICES ASSUME Init PROVE IInv
  OBVIOUS
<1>1. command_receiver = << >> /\ EntriesOf(command_receiver) = {} /\ Queued = {}
  BY DEF Init, EntriesOf, Queued, CallersOf
<1>2. TypeOK
  BY DEF Init, TypeOK, Replies
<1>3. SlotOwnership
  BY <1>1 DEF Init, SlotOwnership, UniqueCallers, Waiting
<1> QED
  BY <1>2, <1>3 DEF Init, IInv, StartedBeforeParking

(* A call enqueues the caller's command, or fails at once on a stopped    *)
(* Worker; either way the caller was not waiting anywhere before.         *)
LEMMA CallStep ==
  ASSUME IInv, NEW c \in Callers, NEW o \in Ops, Call(c, o)
  PROVE  IInv'
<1>1. c \notin Queued /\ c # dkg_sender /\ c # sign_sender
  BY NotWaitingNowhere DEF Call, Waiting
<1>2. CASE worker # "stopped"
  <2> DEFINE e == [op |-> o, caller |-> c]
  <2>1. /\ command_receiver' = Append(command_receiver, e)
        /\ reply' = [reply EXCEPT ![c] = "none"]
        /\ op' = [op EXCEPT ![c] = o]
        /\ UNCHANGED <<worker, dkg_sender, sign_sender, dkg_round, sign_round, published>>
    BY <1>2 DEF Call
  <2>2. /\ Append(command_receiver, e) \in Seq(Command)
        /\ EntriesOf(Append(command_receiver, e)) = EntriesOf(command_receiver) \cup {e}
        /\ UniqueCallers(Append(command_receiver, e))
        /\ CallersOf(Append(command_receiver, e)) = CallersOf(command_receiver) \cup {c}
    <3>1. e \in Command /\ c \notin CallersOf(command_receiver)
      BY <1>1 DEF Command, Queued
    <3> QED
      BY <3>1, AppendQueue DEF IInv, TypeOK, SlotOwnership
  <2>3. Queued' = Queued \cup {c}
    BY <2>1, <2>2 DEF Queued
  <2>4. TypeOK'
    BY <2>1, <2>2 DEF IInv, TypeOK, Replies
  <2>5. \A d \in Callers : d # c => (Waiting(d)' <=> Waiting(d)) /\ op'[d] = op[d]
    BY <2>1 DEF IInv, TypeOK, Waiting
  <2>6. Waiting(c)' /\ op'[c] = o
    BY <2>1 DEF IInv, TypeOK, Waiting, Ops, NoOp
  <2>7. SlotOwnership'
    <3>1. (dkg_sender # NoSender =>
             op[dkg_sender] = "RotateKey" /\ Waiting(dkg_sender) /\ dkg_sender \notin Queued)'
      BY <1>1, <2>1, <2>3, <2>5, CallersAssumption DEF IInv, TypeOK, SlotOwnership, Waiting
    <3>2. (sign_sender # NoSender =>
             op[sign_sender] = "Sign" /\ Waiting(sign_sender) /\ sign_sender \notin Queued)'
      BY <1>1, <2>1, <2>3, <2>5, CallersAssumption DEF IInv, TypeOK, SlotOwnership, Waiting
    <3>3. (\A f \in EntriesOf(command_receiver) : op[f.caller] = f.op /\ Waiting(f.caller))'
      BY <1>1, <2>1, <2>2, <2>5, <2>6 DEF IInv, TypeOK, SlotOwnership, Queued, CallersOf,
                                          Waiting, Command
    <3>4. (\A d \in Callers : Waiting(d) => d \in Queued \/ d = dkg_sender \/ d = sign_sender)'
      BY <2>1, <2>3, <2>5 DEF IInv, SlotOwnership
    <3> QED
      BY <2>1, <2>2, <3>1, <3>2, <3>3, <3>4 DEF SlotOwnership
  <2> QED
    BY <2>1, <2>4, <2>7 DEF IInv, StartedBeforeParking
<1>3. CASE worker = "stopped"
  <2>1. /\ reply' = [reply EXCEPT ![c] = "sendfail"]
        /\ op' = [op EXCEPT ![c] = o]
        /\ UNCHANGED <<worker, command_receiver, dkg_sender, sign_sender, dkg_round,
                       sign_round, published>>
    BY <1>3 DEF Call
  <2>2. TypeOK'
    BY <2>1 DEF IInv, TypeOK, Replies
  <2>3. \A d \in Callers : Waiting(d)' => d # c /\ Waiting(d) /\ op'[d] = op[d]
    BY <2>1 DEF IInv, TypeOK, Waiting
  <2>4. SlotOwnership'
    BY <1>1, <2>1, <2>3, CallersAssumption DEF IInv, TypeOK, SlotOwnership, Queued,
                                                CallersOf, Waiting
  <2> QED
    BY <2>1, <2>2, <2>4 DEF IInv, StartedBeforeParking
<1> QED
  BY <1>2, <1>3

(* run() starts with both slots empty; if it fails, every queued caller   *)
(* is cancelled with the channel, so nobody is left waiting.              *)
LEMMA StartStep == IInv /\ Start => IInv'
<1> SUFFICES ASSUME IInv, Start PROVE IInv'
  OBVIOUS
<1>1. dkg_sender = NoSender /\ sign_sender = NoSender
  BY DEF Start, IInv, StartedBeforeParking
<1>2. CASE worker' = "running"
  BY <1>1, <1>2 DEF Start, IInv, TypeOK, SlotOwnership, StartedBeforeParking, Waiting,
                    Queued, CallersOf
<1>3. CASE worker' = "stopped"
  <2>1. /\ command_receiver' = << >>
        /\ reply' = [d \in Callers |-> IF d \in Queued THEN "canceled" ELSE reply[d]]
        /\ UNCHANGED <<dkg_sender, sign_sender, op>>
    BY <1>3 DEF Start
  <2>2. Queued' = {} /\ EntriesOf(command_receiver') = {} /\ UniqueCallers(command_receiver')
    BY <2>1 DEF Queued, CallersOf, EntriesOf, UniqueCallers
  <2>3. TypeOK'
    BY <1>3, <2>1 DEF Start, IInv, TypeOK, Replies
  <2>4. \A d \in Callers : ~Waiting(d)'
    <3> SUFFICES ASSUME NEW d \in Callers, Waiting(d)' PROVE FALSE
      OBVIOUS
    <3>1. d \notin Queued
      BY <2>1 DEF Waiting
    <3>2. Waiting(d)
      BY <2>1, <3>1 DEF Waiting
    <3> QED
      BY <1>1, <3>1, <3>2, CallersAssumption DEF IInv, SlotOwnership
  <2> QED
    BY <1>1, <1>3, <2>1, <2>2, <2>3, <2>4 DEF IInv, SlotOwnership, StartedBeforeParking
<1> QED
  BY <1>2, <1>3 DEF Start

-----------------------------------------------------------------------------
(* Facts shared by the handlers.                                          *)

\* The channel holds commands of callers.
LEMMA QueueTyped ==
  ASSUME TypeOK
  PROVE  EntriesOf(command_receiver) \subseteq Command /\ Queued \subseteq Callers
<1>1. EntriesOf(command_receiver) \subseteq Command
  BY DEF TypeOK, EntriesOf
<1> QED
  BY <1>1 DEF Queued, CallersOf, Command

\* handle_send! changes the reply of the slot's caller only.
LEMMA AnswerFacts ==
  ASSUME TypeOK, NEW slot \in Callers \cup {NoSender}, NEW r \in Replies
  PROVE  /\ Answer(slot, r) \in [Callers -> Replies]
         /\ \A d \in Callers : d # slot => Answer(slot, r)[d] = reply[d]
         /\ slot # NoSender => Answer(slot, r)[slot] = r
BY DEF TypeOK, Answer

\* Taking the head command: its caller was waiting for exactly this call,
\* is in no slot, and leaves the channel.
LEMMA TakeHead ==
  ASSUME IInv, command_receiver # << >>, command_receiver' = Tail(command_receiver)
  PROVE  LET h == Head(command_receiver) IN
         /\ h \in Command
         /\ op[h.caller] = h.op /\ Waiting(h.caller)
         /\ h.caller # dkg_sender /\ h.caller # sign_sender
         /\ command_receiver' \in Seq(Command)
         /\ EntriesOf(command_receiver') \subseteq EntriesOf(command_receiver)
         /\ UniqueCallers(command_receiver')
         /\ Queued' = Queued \ {h.caller}
<1> DEFINE h == Head(command_receiver)
<1>1. /\ Tail(command_receiver) \in Seq(Command)
      /\ h \in EntriesOf(command_receiver)
      /\ EntriesOf(Tail(command_receiver)) \subseteq EntriesOf(command_receiver)
      /\ UniqueCallers(Tail(command_receiver))
      /\ CallersOf(Tail(command_receiver)) = CallersOf(command_receiver) \ {h.caller}
  BY TailQueue DEF IInv, TypeOK, SlotOwnership
<1>2. h \in Command
  BY DEF IInv, TypeOK
<1>3. op[h.caller] = h.op /\ Waiting(h.caller)
  BY <1>1 DEF IInv, SlotOwnership
<1>4. h.caller \in Queued
  BY <1>1 DEF Queued, CallersOf
<1>5. h.caller # dkg_sender /\ h.caller # sign_sender
  BY <1>2, <1>4, CallersAssumption DEF IInv, SlotOwnership, Command
<1> QED
  BY <1>1, <1>2, <1>3, <1>5 DEF Queued

\* Every payload a handler can publish is a payload of the model.
LEMMA PublishTyped ==
  ASSUME NEW ok \in BOOLEAN, NEW t, NEW k, <<t, k>> \in Payloads
  PROVE  Publish(ok, t, k) \subseteq Payloads
BY DEF Publish

-----------------------------------------------------------------------------
(* The command handlers.                                                  *)

(* RotateKey parks the head caller and cancels the caller it displaces,   *)
(* which therefore stops waiting.                                         *)
LEMMA RotateKeyStep == IInv /\ RotateKey => IInv'
<1> SUFFICES ASSUME IInv, RotateKey PROVE IInv'
  OBVIOUS
<1> DEFINE h == Head(command_receiver)
           c == h.caller
           old == dkg_sender
<1>1. /\ command_receiver # << >> /\ h.op = "RotateKey"
      /\ command_receiver' = Tail(command_receiver)
      /\ dkg_sender' = c
      /\ reply' = Answer(old, "canceled")
      /\ UNCHANGED <<worker, sign_sender, op, sign_round>>
      /\ dkg_round' \in {"idle", "active"}
      /\ published' \subseteq Payloads
  <2>1. PICK started, sent \in BOOLEAN :
          /\ dkg_round' = IF started THEN "active" ELSE dkg_round
          /\ published' = published \cup Publish(started /\ sent, "dkg_topic", "DkgPart1")
    BY DEF RotateKey, StartDkg
  <2>2. Publish(started /\ sent, "dkg_topic", "DkgPart1") \subseteq Payloads
    BY PublishTyped DEF Payloads
  <2> QED
    BY <2>1, <2>2 DEF RotateKey, HeadIs, IInv, TypeOK
<1>2. /\ h \in Command
      /\ op[c] = "RotateKey" /\ Waiting(c)
      /\ c # old /\ c # sign_sender
      /\ command_receiver' \in Seq(Command)
      /\ EntriesOf(command_receiver') \subseteq EntriesOf(command_receiver)
      /\ UniqueCallers(command_receiver')
      /\ Queued' = Queued \ {c}
  BY <1>1, TakeHead
<1>3. /\ reply' \in [Callers -> Replies]
      /\ \A d \in Callers : d # old => reply'[d] = reply[d]
      /\ old # NoSender => reply'[old] = "canceled"
  BY <1>1, AnswerFacts DEF IInv, TypeOK, Replies
<1>4. c \in Callers /\ old \notin Queued
  BY <1>2, QueueTyped, CallersAssumption DEF Command, IInv, SlotOwnership
<1>5. sign_sender # NoSender => sign_sender # old
  BY DEF IInv, SlotOwnership
<1>6. TypeOK'
  BY <1>1, <1>2, <1>3, <1>4 DEF IInv, TypeOK
<1>7. SlotOwnership'
  <2>1. (dkg_sender # NoSender =>
           op[dkg_sender] = "RotateKey" /\ Waiting(dkg_sender) /\ dkg_sender \notin Queued)'
    BY <1>1, <1>2, <1>3, <1>4 DEF Waiting
  <2>2. (sign_sender # NoSender =>
           op[sign_sender] = "Sign" /\ Waiting(sign_sender) /\ sign_sender \notin Queued)'
    BY <1>1, <1>2, <1>3, <1>5 DEF IInv, TypeOK, SlotOwnership, Waiting
  <2>3. (\A f \in EntriesOf(command_receiver) : op[f.caller] = f.op /\ Waiting(f.caller))'
    <3> SUFFICES ASSUME NEW f \in EntriesOf(command_receiver')
                 PROVE  op[f.caller] = f.op /\ reply'[f.caller] = "none" /\ op[f.caller] # NoOp
      BY <1>1 DEF Waiting
    <3>1. f \in EntriesOf(command_receiver) /\ f \in Command
      BY <1>2, QueueTyped DEF IInv
    <3>2. f.caller \in Queued /\ f.caller \in Callers
      BY <3>1 DEF Queued, CallersOf, Command
    <3> QED
      BY <1>3, <1>4, <3>1, <3>2 DEF IInv, SlotOwnership, Waiting
  <2>4. (\A d \in Callers : Waiting(d) => d \in Queued \/ d = dkg_sender \/ d = sign_sender)'
    <3> SUFFICES ASSUME NEW d \in Callers, op[d] # NoOp, reply'[d] = "none"
                 PROVE  d \in Queued' \/ d = c \/ d = sign_sender
      BY <1>1 DEF Waiting
    <3>1. d # old
      BY <1>3, CallersAssumption
    <3>2. Waiting(d)
      BY <1>3, <3>1 DEF Waiting
    <3> QED
      BY <1>2, <3>1, <3>2 DEF IInv, SlotOwnership
  <2> QED
    BY <1>2, <2>1, <2>2, <2>3, <2>4 DEF SlotOwnership
<1> QED
  BY <1>1, <1>6, <1>7 DEF IInv, StartedBeforeParking, HeadIs, RotateKey

(* Sign either answers the head caller "busy", leaving the parked caller  *)
(* alone, or parks the head caller in the empty slot.                     *)
LEMMA SignStep == IInv /\ Sign => IInv'
<1> SUFFICES ASSUME IInv, Sign PROVE IInv'
  OBVIOUS
<1> DEFINE h == Head(command_receiver)
           c == h.caller
<1>1. /\ command_receiver # << >> /\ h.op = "Sign"
      /\ command_receiver' = Tail(command_receiver)
      /\ UNCHANGED <<worker, dkg_sender, op, dkg_round>>
  BY DEF Sign, HeadIs
<1>2. /\ h \in Command
      /\ op[c] = "Sign" /\ Waiting(c)
      /\ c # dkg_sender /\ c # sign_sender
      /\ command_receiver' \in Seq(Command)
      /\ EntriesOf(command_receiver') \subseteq EntriesOf(command_receiver)
      /\ UniqueCallers(command_receiver')
      /\ Queued' = Queued \ {c}
  BY <1>1, TakeHead
<1>3. c \in Callers
  BY <1>2 DEF Command
<1>4. \A f \in EntriesOf(command_receiver') : f.caller \in Queued' /\ f \in EntriesOf(command_receiver)
  BY <1>2 DEF Queued, CallersOf
<1>5. CASE sign_sender # NoSender
  <2>1. /\ reply' = [reply EXCEPT ![c] = "busy"]
        /\ UNCHANGED <<sign_sender, sign_round, published>>
    BY <1>5 DEF Sign
  <2>2. TypeOK'
    BY <1>1, <1>2, <1>3, <2>1 DEF IInv, TypeOK, Replies
  <2>3. SlotOwnership'
    <3>1. \A d \in Callers : d # c => (Waiting(d)' <=> Waiting(d))
      BY <1>1, <2>1 DEF IInv, TypeOK, Waiting
    <3>2. reply'[c] = "busy"
      BY <1>3, <2>1 DEF IInv, TypeOK
    <3>3. (dkg_sender # NoSender =>
             op[dkg_sender] = "RotateKey" /\ Waiting(dkg_sender) /\ dkg_sender \notin Queued)'
      BY <1>1, <1>2, <3>1 DEF IInv, TypeOK, SlotOwnership
    <3>4. (sign_sender # NoSender =>
             op[sign_sender] = "Sign" /\ Waiting(sign_sender) /\ sign_sender \notin Queued)'
      BY <1>1, <1>2, <2>1, <3>1 DEF IInv, TypeOK, SlotOwnership
    <3>5. (\A f \in EntriesOf(command_receiver) : op[f.caller] = f.op /\ Waiting(f.caller))'
      BY <1>1, <1>2, <1>4, <3>1, QueueTyped DEF IInv, SlotOwnership
    <3>6. (\A d \in Callers : Waiting(d) => d \in Queued \/ d = dkg_sender \/ d = sign_sender)'
      BY <1>1, <1>2, <2>1, <3>1, <3>2 DEF IInv, SlotOwnership, Waiting
    <3> QED
      BY <1>2, <3>3, <3>4, <3>5, <3>6 DEF SlotOwnership
  <2> QED
    BY <1>1, <2>2, <2>3 DEF IInv, StartedBeforeParking, HeadIs, Sign
<1>6. CASE sign_sender = NoSender
  <2>1. /\ sign_sender' = c
        /\ UNCHANGED reply
        /\ sign_round' \in {"idle", "active"}
        /\ published' \subseteq Payloads
    <3>1. PICK started, sent \in BOOLEAN :
            /\ sign_round' = IF started THEN "active" ELSE sign_round
            /\ published' = published \cup Publish(started /\ sent, "sign_topic", "SignPart1")
      BY <1>6 DEF Sign, StartSign
    <3>2. Publish(started /\ sent, "sign_topic", "SignPart1") \subseteq Payloads
      BY PublishTyped DEF Payloads
    <3> QED
      BY <1>6, <3>1, <3>2 DEF Sign, IInv, TypeOK
  <2>2. TypeOK'
    BY <1>1, <1>2, <1>3, <2>1 DEF IInv, TypeOK
  <2>3. SlotOwnership'
    <3>1. (dkg_sender # NoSender =>
             op[dkg_sender] = "RotateKey" /\ Waiting(dkg_sender) /\ dkg_sender \notin Queued)'
      BY <1>1, <1>2, <2>1 DEF IInv, TypeOK, SlotOwnership, Waiting
    <3>2. (sign_sender # NoSender =>
             op[sign_sender] = "Sign" /\ Waiting(sign_sender) /\ sign_sender \notin Queued)'
      BY <1>1, <1>2, <2>1 DEF Waiting
    <3>3. (\A f \in EntriesOf(command_receiver) : op[f.caller] = f.op /\ Waiting(f.caller))'
      BY <1>1, <1>4, <2>1 DEF IInv, SlotOwnership, Waiting
    <3>4. (\A d \in Callers : Waiting(d) => d \in Queued \/ d = dkg_sender \/ d = sign_sender)'
      BY <1>1, <1>2, <1>6, <2>1, CallersAssumption DEF IInv, SlotOwnership, Waiting
    <3> QED
      BY <1>2, <3>1, <3>2, <3>3, <3>4 DEF SlotOwnership
  <2> QED
    BY <1>1, <2>2, <2>3 DEF IInv, StartedBeforeParking, HeadIs, Sign
<1> QED
  BY <1>5, <1>6

(* Setup, AddValidators and RemoveValidators answer the head caller.      *)
LEMMA ImmediateStep ==
  ASSUME IInv, NEW o \in {"Setup", "AddValidators", "RemoveValidators"}, Immediate(o)
  PROVE  IInv'
<1> DEFINE h == Head(command_receiver)
           c == h.caller
<1>1. /\ command_receiver # << >>
      /\ command_receiver' = Tail(command_receiver)
      /\ reply'[c] \in {"ok", "err"}
      /\ reply' \in [Callers -> Replies]
      /\ \A d \in Callers : d # c => reply'[d] = reply[d]
      /\ UNCHANGED <<worker, dkg_sender, sign_sender, op, dkg_round, sign_round, published>>
  <2>1. c \in Callers
    BY QueueTyped DEF Immediate, HeadIs, IInv, EntriesOf, Queued, CallersOf
  <2> QED
    BY <2>1 DEF Immediate, HeadIs, IInv, TypeOK, Replies
<1>2. /\ h \in Command
      /\ c # dkg_sender /\ c # sign_sender
      /\ command_receiver' \in Seq(Command)
      /\ EntriesOf(command_receiver') \subseteq EntriesOf(command_receiver)
      /\ UniqueCallers(command_receiver')
      /\ Queued' = Queued \ {c}
  BY <1>1, TakeHead
<1>3. \A f \in EntriesOf(command_receiver') : f.caller \in Queued' /\ f \in EntriesOf(command_receiver)
  BY <1>2 DEF Queued, CallersOf
<1>4. \A d \in Callers : d # c => (Waiting(d)' <=> Waiting(d))
  BY <1>1 DEF Waiting
<1>5. reply'[c] # "none"
  BY <1>1
<1>6. TypeOK'
  BY <1>1, <1>2 DEF IInv, TypeOK
<1>7. SlotOwnership'
  <2>1. (dkg_sender # NoSender =>
           op[dkg_sender] = "RotateKey" /\ Waiting(dkg_sender) /\ dkg_sender \notin Queued)'
    BY <1>1, <1>2, <1>4 DEF IInv, TypeOK, SlotOwnership
  <2>2. (sign_sender # NoSender =>
           op[sign_sender] = "Sign" /\ Waiting(sign_sender) /\ sign_sender \notin Queued)'
    BY <1>1, <1>2, <1>4 DEF IInv, TypeOK, SlotOwnership
  <2>3. (\A f \in EntriesOf(command_receiver) : op[f.caller] = f.op /\ Waiting(f.caller))'
    BY <1>1, <1>2, <1>3, <1>4, QueueTyped DEF IInv, SlotOwnership
  <2>4. (\A d \in Callers : Waiting(d) => d \in Queued \/ d = dkg_sender \/ d = sign_sender)'
    BY <1>1, <1>2, <1>4, <1>5 DEF IInv, SlotOwnership, Waiting
  <2> QED
    BY <1>2, <2>1, <2>2, <2>3, <2>4 DEF SlotOwnership
<1> QED
  BY <1>1, <1>6, <1>7 DEF IInv, StartedBeforeParking

-----------------------------------------------------------------------------
(* The gossip handlers.                                                   *)

(* A phase-1 message only moves the engine and publishes.                 *)
LEMMA Part1Step == IInv /\ (DkgPart1 \/ SignPart1) => IInv'
<1> SUFFICES ASSUME IInv, DkgPart1 \/ SignPart1 PROVE IInv'
  OBVIOUS
<1>1. /\ UNCHANGED <<worker, command_receiver, dkg_sender, sign_sender, op, reply>>
      /\ dkg_round' \in {"idle", "active"} /\ sign_round' \in {"idle", "active"}
      /\ published' \subseteq Payloads
  <2>1. CASE DkgPart1
    <3>1. PICK joined, sent \in BOOLEAN :
            /\ dkg_round' = IF joined THEN "active" ELSE dkg_round
            /\ published' = published \cup Publish(joined /\ sent, "dkg_topic", "DkgPart2")
      BY <2>1 DEF DkgPart1
    <3>2. Publish(joined /\ sent, "dkg_topic", "DkgPart2") \subseteq Payloads
      BY PublishTyped DEF Payloads
    <3> QED
      BY <2>1, <3>1, <3>2 DEF DkgPart1, IInv, TypeOK
  <2>2. CASE SignPart1
    <3>1. PICK joined, sent, resent \in BOOLEAN :
            /\ sign_round' = IF joined THEN "active" ELSE sign_round
            /\ published' = published \cup Publish(joined /\ sent, "sign_topic", "SignPart2")
                                      \cup Publish(resent, "sign_topic", "SignPart1")
      BY <2>2 DEF SignPart1
    <3>2. /\ Publish(joined /\ sent, "sign_topic", "SignPart2") \subseteq Payloads
          /\ Publish(resent, "sign_topic", "SignPart1") \subseteq Payloads
      BY PublishTyped DEF Payloads
    <3> QED
      BY <2>2, <3>1, <3>2 DEF SignPart1, IInv, TypeOK
  <2> QED
    BY <2>1, <2>2
<1> QED
  BY <1>1 DEF IInv, TypeOK, SlotOwnership, StartedBeforeParking, Waiting, Queued, CallersOf,
              EntriesOf, UniqueCallers

(* Handing a result to the caller parked in a slot and emptying the slot  *)
(* keeps the invariant: that caller stops waiting, nobody else changes.   *)
LEMMA ReleaseSlot ==
  ASSUME IInv, NEW r \in {"ok", "err"},
         \/ /\ reply' = Answer(dkg_sender, r) /\ dkg_sender' = NoSender
            /\ UNCHANGED sign_sender
         \/ /\ reply' = Answer(sign_sender, r) /\ sign_sender' = NoSender
            /\ UNCHANGED dkg_sender,
         UNCHANGED <<worker, command_receiver, op>>,
         dkg_round' \in {"idle", "active"}, sign_round' \in {"idle", "active"},
         published' \subseteq Payloads
  PROVE  IInv'
<1> DEFINE slot == IF dkg_sender' = NoSender /\ sign_sender' = sign_sender
                     THEN dkg_sender ELSE sign_sender
<1>1. /\ reply' = Answer(slot, r)
      /\ dkg_sender' = IF slot = dkg_sender THEN NoSender ELSE dkg_sender
      /\ sign_sender' = IF slot = dkg_sender THEN sign_sender ELSE NoSender
      /\ (slot = dkg_sender => UNCHANGED sign_sender)
      /\ (slot # dkg_sender => UNCHANGED dkg_sender /\ slot = sign_sender)
  BY DEF IInv, SlotOwnership
<1>2. slot \in Callers \cup {NoSender}
  BY DEF IInv, TypeOK
<1>3. /\ reply' \in [Callers -> Replies]
      /\ \A d \in Callers : d # slot => reply'[d] = reply[d]
      /\ slot # NoSender => reply'[slot] = r
  BY <1>1, <1>2, AnswerFacts DEF IInv, TypeOK, Replies
<1>4. slot \notin Queued
  BY <1>1, QueueTyped, CallersAssumption DEF IInv, SlotOwnership
<1>5. \A d \in Callers : Waiting(d)' => d # slot /\ Waiting(d)
  BY <1>3, CallersAssumption DEF Waiting
<1>6. TypeOK'
  BY <1>1, <1>3 DEF IInv, TypeOK
<1>7. SlotOwnership'
  <2>1. (dkg_sender # NoSender =>
           op[dkg_sender] = "RotateKey" /\ Waiting(dkg_sender) /\ dkg_sender \notin Queued)'
    BY <1>1, <1>3 DEF IInv, TypeOK, SlotOwnership, Waiting, Queued
  <2>2. (sign_sender # NoSender =>
           op[sign_sender] = "Sign" /\ Waiting(sign_sender) /\ sign_sender \notin Queued)'
    BY <1>1, <1>3 DEF IInv, TypeOK, SlotOwnership, Waiting, Queued
  <2>3. (\A f \in EntriesOf(command_receiver) : op[f.caller] = f.op /\ Waiting(f.caller))'
    <3> SUFFICES ASSUME NEW f \in EntriesOf(command_receiver)
                 PROVE  op[f.caller] = f.op /\ Waiting(f.caller)'
      OBVIOUS
    <3>1. f.caller \in Queued /\ f.caller \in Callers
      BY QueueTyped DEF IInv, Queued, CallersOf
    <3> QED
      BY <1>3, <1>4, <3>1 DEF IInv, SlotOwnership, Waiting
  <2>4. (UniqueCallers(command_receiver))'
    BY DEF IInv, SlotOwnership
  <2>5. (\A d \in Callers : Waiting(d) => d \in Queued \/ d = dkg_sender \/ d = sign_sender)'
    BY <1>1, <1>5 DEF IInv, SlotOwnership, Queued
  <2> QED
    BY <2>1, <2>2, <2>3, <2>4, <2>5 DEF SlotOwnership
<1> QED
  BY <1>6, <1>7 DEF IInv, StartedBeforeParking

(* A phase-2 message either releases the slot its round belongs to or     *)
(* only publishes.                                                        *)
LEMMA Part2Step == IInv /\ (DkgPart2 \/ SignPart2) => IInv'
<1> SUFFICES ASSUME IInv, DkgPart2 \/ SignPart2 PROVE IInv'
  OBVIOUS
<1>1. CASE DkgPart2
  <2>1. PICK outcome \in Phase2Outcomes(dkg_round) :
          \/ /\ outcome \in {"done", "err"}
             /\ reply' = Answer(dkg_sender, IF outcome = "done" THEN "ok" ELSE "err")
             /\ dkg_sender' = NoSender
             /\ dkg_round' = "idle"
             /\ UNCHANGED published
          \/ /\ outcome = "pending"
             /\ \E sent \in BOOLEAN : published' = published \cup Publish(sent, "dkg_topic", "null")
             /\ UNCHANGED <<reply, dkg_sender, dkg_round>>
    BY <1>1 DEF DkgPart2
  <2>2. UNCHANGED <<worker, command_receiver, sign_sender, op, sign_round>>
    BY <1>1 DEF DkgPart2
  <2>3. CASE outcome \in {"done", "err"}
    <3>1. PICK r \in {"ok", "err"} : reply' = Answer(dkg_sender, r)
      BY <2>1, <2>3
    <3> QED
      BY <2>1, <2>2, <2>3, <3>1, ReleaseSlot DEF IInv, TypeOK
  <2>4. CASE outcome = "pending"
    <3>1. PICK sent \in BOOLEAN : published' = published \cup Publish(sent, "dkg_topic", "null")
      BY <2>1, <2>4
    <3>2. Publish(sent, "dkg_topic", "null") \subseteq Payloads
      BY PublishTyped DEF Payloads
    <3> QED
      BY <2>1, <2>2, <2>4, <3>1, <3>2
         DEF IInv, TypeOK, SlotOwnership, StartedBeforeParking, Waiting, Queued, CallersOf,
             EntriesOf, UniqueCallers
  <2> QED
    BY <2>1, <2>3, <2>4
<1>2. CASE SignPart2
  <2>1. PICK outcome \in Phase2Outcomes(sign_round) \ {"pending"} :
          /\ reply' = Answer(sign_sender, IF outcome = "done" THEN "ok" ELSE "err")
          /\ sign_sender' = NoSender
          /\ sign_round' = "idle"
    BY <1>2 DEF SignPart2
  <2>2. PICK r \in {"ok", "err"} : reply' = Answer(sign_sender, r)
    BY <2>1
  <2> QED
    BY <1>2, <2>1, <2>2, ReleaseSlot DEF SignPart2, IInv, TypeOK
<1> QED
  BY <1>1, <1>2

(* Every step of the system, and every stuttering step, preserves IInv.   *)
LEMMA NextStep == IInv /\ [Next]_vars => IInv'
<1> SUFFICES ASSUME IInv, [Next]_vars PROVE IInv'
  OBVIOUS
<1>1. CASE \E c \in Callers, o \in Ops : Call(c, o)
  BY <1>1, CallStep
<1>2. CASE Start
  BY <1>2, StartStep
<1>3. CASE HandleCommand
  <2>1. CASE RotateKey
    BY <2>1, RotateKeyStep
  <2>2. CASE Sign
    BY <2>2, SignStep
  <2>3. CASE Setup \/ AddValidators \/ RemoveValidators
    BY <2>3, ImmediateStep DEF Setup, AddValidators, RemoveValidators
  <2> QED
    BY <1>3, <2>1, <2>2, <2>3 DEF HandleCommand
<1>4. CASE HandleMessage
  BY <1>4, Part1Step, Part2Step DEF HandleMessage
<1>5. CASE UNCHANGED vars
  BY <1>5 DEF vars, IInv, TypeOK, SlotOwnership, StartedBeforeParking, Waiting, Queued,
              CallersOf, EntriesOf, UniqueCallers
<1> QED
  BY <1>1, <1>2, <1>3, <1>4, <1>5 DEF Next

(* Every command, reply slot and queue entry stays well typed.            *)
THEOREM TypeCorrect == Spec => []TypeOK
BY InitIInv, NextStep, PTL DEF Spec, IInv

(* For every number of callers: a parked dkg_sender / sign_sender belongs *)
(* to a caller still waiting on that very operation and no longer queued, *)
(* queue entries match their callers' pending operations, no caller is   *)
(* queued twice, and every waiting caller is either queued or parked.     *)
THEOREM SlotOwnershipHolds == Spec => []SlotOwnership
BY InitIInv, NextStep, PTL DEF Spec, IInv

-----------------------------------------------------------------------------
(* No Sign request is dropped while the Worker runs.                      *)

\* A step makes a Sign caller "canceled" only by stopping the Worker; any
\* other canceled Sign caller was already so.
CancelsOnlyByStopping ==
  \A d \in Callers :
    reply'[d] = "canceled" /\ op'[d] = "Sign" =>
      \/ worker' = "stopped"
      \/ reply[d] = "canceled" /\ op[d] = "Sign"

LEMMA CancelStep == IInv /\ [Next]_vars => CancelsOnlyByStopping
<1> SUFFICES ASSUME IInv, [Next]_vars, NEW d \in Callers,
                    reply'[d] = "canceled", op'[d] = "Sign"
             PROVE  \/ worker' = "stopped"
                    \/ reply[d] = "canceled" /\ op[d] = "Sign"
  BY DEF CancelsOnlyByStopping
<1>1. CASE \E c \in Callers, o \in Ops : Call(c, o)
  BY <1>1 DEF Call, IInv, TypeOK
<1>2. CASE Start
  BY <1>2 DEF Start
<1>3. CASE RotateKey
  <2>1. reply' = Answer(dkg_sender, "canceled") /\ UNCHANGED <<worker, op>>
    BY <1>3 DEF RotateKey
  <2>2. d # dkg_sender
    BY <2>1, CallersAssumption DEF IInv, SlotOwnership
  <2> QED
    BY <2>1, <2>2, AnswerFacts DEF IInv, TypeOK, Replies
<1>4. CASE Sign
  <2> DEFINE c == Head(command_receiver).caller
  <2>1. c \in Callers
    BY <1>4, TakeHead DEF Sign, HeadIs, Command
  <2>2. reply' = [reply EXCEPT ![c] = "busy"] \/ reply' = reply
    BY <1>4 DEF Sign
  <2> QED
    BY <1>4, <2>1, <2>2 DEF Sign, IInv, TypeOK
<1>5. CASE Setup \/ AddValidators \/ RemoveValidators
  <2>1. PICK o \in {"Setup", "AddValidators", "RemoveValidators"} : Immediate(o)
    BY <1>5 DEF Setup, AddValidators, RemoveValidators
  <2> DEFINE c == Head(command_receiver).caller
  <2>2. c \in Callers
    BY <2>1, TakeHead DEF Immediate, HeadIs, Command
  <2>3. PICK r \in {"ok", "err"} : reply' = [reply EXCEPT ![c] = r]
    BY <2>1 DEF Immediate
  <2> QED
    BY <2>1, <2>2, <2>3 DEF Immediate, IInv, TypeOK
<1>6. CASE DkgPart1 \/ SignPart1
  BY <1>6 DEF DkgPart1, SignPart1
<1>7. CASE DkgPart2
  <2>1. CASE reply' = reply
    BY <1>7, <2>1 DEF DkgPart2
  <2>2. CASE reply' # reply
    <3>1. PICK r \in {"ok", "err"} : reply' = Answer(dkg_sender, r)
      BY <1>7, <2>2 DEF DkgPart2
    <3>2. d # dkg_sender => reply'[d] = reply[d]
      BY <3>1, AnswerFacts DEF IInv, TypeOK, Replies
    <3>3. dkg_sender # NoSender => reply'[dkg_sender] = r
      BY <3>1, AnswerFacts DEF IInv, TypeOK, Replies
    <3> QED
      BY <1>7, <3>2, <3>3, CallersAssumption DEF DkgPart2
  <2> QED
    BY <2>1, <2>2
<1>8. CASE SignPart2
  <2>1. PICK r \in {"ok", "err"} : reply' = Answer(sign_sender, r)
    BY <1>8 DEF SignPart2
  <2>2. d # sign_sender => reply'[d] = reply[d]
    BY <2>1, AnswerFacts DEF IInv, TypeOK, Replies
  <2>3. sign_sender # NoSender => reply'[sign_sender] = r
    BY <2>1, AnswerFacts DEF IInv, TypeOK, Replies
  <2> QED
    BY <1>8, <2>2, <2>3, CallersAssumption DEF SignPart2
<1>9. CASE UNCHANGED vars
  BY <1>9 DEF vars
<1> QED
  BY <1>1, <1>2, <1>3, <1>4, <1>5, <1>6, <1>7, <1>8, <1>9
     DEF Next, HandleCommand, HandleMessage

\* A stopped Worker never runs again.
LEMMA StoppedForever == worker = "stopped" /\ [Next]_vars => worker' = "stopped"
BY DEF Next, vars, Call, Start, HandleCommand, HandleMessage, RotateKey, Sign,
       Setup, AddValidators, RemoveValidators, Immediate, HeadIs,
       DkgPart1, DkgPart2, SignPart1, SignPart2

(* For every number of callers, a caller of sign() is told "Failed to      *)
(* receive response from worker" only when run() ended: the busy check in  *)
(* handle_command never lets a second Sign displace the parked sender.     *)
THEOREM NoSignRequestDroppedHolds == Spec => []NoSignRequestDropped
<1>1. Init => NoSignRequestDropped
  BY DEF Init, NoSignRequestDropped
<1>2. IInv /\ NoSignRequestDropped /\ [Next]_vars => NoSignRequestDropped'
  <2> SUFFICES ASSUME IInv, NoSignRequestDropped, [Next]_vars, NEW d \in Callers,
                      op'[d] = "Sign", reply'[d] = "canceled"
               PROVE  worker' = "stopped"
    BY DEF NoSignRequestDropped
  <2>1. CancelsOnlyByStopping
    BY CancelStep
  <2> QED
    BY <2>1, StoppedForever DEF CancelsOnlyByStopping, NoSignRequestDropped
<1> QED
  BY <1>1, <1>2, InitIInv, NextStep, PTL DEF Spec
=============================================================================
