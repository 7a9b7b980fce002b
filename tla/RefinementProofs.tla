-------------------------- MODULE RefinementProofs --------------------------
(***************************************************************************)
(* ValidatorWorker implements ReplyServer under the mapping that keeps    *)
(* worker, op and reply and hides the rest.  The initial state maps to the *)
(* abstract initial state, and under the Worker's inductive invariant IInv *)
(* every step maps to an abstract step or a stutter:                      *)
(*   Call -> Call; Start -> Run or Stop; the handle_send! and the direct   *)
(*   replies of handle_command -> Answer; every other step -> stutter.     *)
(* IInv is what makes Answer's guard hold: a slot holds a waiting caller   *)
(* of the slot's operation, and the head of the channel is a waiting      *)
(* caller of the command's operation.                                      *)
(***************************************************************************)
EXTENDS ValidatorWorkerProofs, TLAPS

absvars == <<worker, op, reply>>

\* Answering the caller parked in a slot of operation o is an abstract
\* Answer, or a stutter when the slot is empty.
LEMMA AnswerSlot ==
  ASSUME IInv, worker = "running",
         NEW slot \in Callers \cup {NoSender}, NEW r,
         slot # NoSender => Waiting(slot) /\ r \in RS!Allowed(op[slot]),
         reply' = Answer(slot, r), UNCHANGED <<worker, op>>
  PROVE  [RS!Next]_absvars
<1>1. CASE slot = NoSender
  BY <1>1 DEF Answer, absvars
<1>2. CASE slot # NoSender
  <2>1. RS!Answer(slot, r)
    BY <1>2 DEF Answer, RS!Answer, RS!Pending, Waiting, NoOp
  <2>2. r \in {"ok", "err", "canceled", "busy"}
    BY <1>2 DEF RS!Allowed
  <2> QED
    BY <1>2, <2>1, <2>2 DEF RS!Next
<1> QED
  BY <1>1, <1>2

\* The initial Worker state is the abstract initial state.
LEMMA InitRefines == Init => RS!Init
BY DEF Init, RS!Init, NoOp

\* Under IInv every Worker step is an abstract step or a stutter.
LEMMA StepRefines == IInv /\ [Next]_vars => [RS!Next]_absvars
<1> SUFFICES ASSUME IInv, [Next]_vars PROVE [RS!Next]_absvars
  OBVIOUS
<1>1. CASE \E c \in Callers, o \in Ops : Call(c, o)
  <2>1. PICK c \in Callers, o \in Ops : Call(c, o)
    BY <1>1
  <2>2. RS!Call(c, o)
    BY <2>1 DEF Call, RS!Call, NoOp, IInv, TypeOK
  <2> QED
    BY <2>2 DEF RS!Next, RS!Ops, Ops
<1>2. CASE Start
  <2>1. CASE worker' = "running"
    <3>1. RS!Run
      BY <1>2, <2>1 DEF Start, RS!Run
    <3> QED
      BY <3>1 DEF RS!Next
  <2>2. CASE worker' = "stopped"
    <3>1. worker = "init" /\ dkg_sender = NoSender /\ sign_sender = NoSender
      BY <1>2 DEF Start, IInv, StartedBeforeParking
    <3>2. \A c \in Callers : c \in Queued <=> RS!Pending(c)
      <4> SUFFICES ASSUME NEW c \in Callers PROVE c \in Queued <=> Waiting(c)
        BY DEF RS!Pending, Waiting, NoOp
      <4>1. c \in Queued => Waiting(c)
        <5> SUFFICES ASSUME c \in Queued PROVE Waiting(c)
          OBVIOUS
        <5>1. PICK e \in EntriesOf(command_receiver) : e.caller = c
          BY DEF Queued, CallersOf
        <5> QED
          BY <5>1 DEF IInv, SlotOwnership
      <4>2. Waiting(c) => c \in Queued
        BY <3>1, CallersAssumption DEF IInv, SlotOwnership
      <4> QED
        BY <4>1, <4>2
    <3>3. RS!Stop
      BY <1>2, <2>2, <3>1, <3>2 DEF Start, RS!Stop
    <3> QED
      BY <3>3 DEF RS!Next
  <2> QED
    BY <1>2, <2>1, <2>2 DEF Start
<1>3. CASE RotateKey
  <2>1. /\ worker = "running"
        /\ reply' = Answer(dkg_sender, "canceled")
        /\ UNCHANGED <<worker, op>>
        /\ dkg_sender \in Callers \cup {NoSender}
    BY <1>3 DEF RotateKey, HeadIs, IInv, TypeOK
  <2>2. dkg_sender # NoSender => Waiting(dkg_sender) /\ op[dkg_sender] = "RotateKey"
    BY DEF IInv, SlotOwnership
  <2>3. "canceled" \in RS!Allowed("RotateKey")
    BY DEF RS!Allowed
  <2> QED
    BY <2>1, <2>2, <2>3, AnswerSlot
<1>4. CASE Sign
  <2> DEFINE h == Head(command_receiver)
  <2>1. /\ worker = "running" /\ h.op = "Sign" /\ UNCHANGED <<worker, op>>
        /\ command_receiver # << >> /\ command_receiver' = Tail(command_receiver)
    BY <1>4 DEF Sign, HeadIs
  <2>2. h \in Command /\ op[h.caller] = "Sign" /\ Waiting(h.caller)
    BY <2>1, TakeHead
  <2>3. CASE sign_sender # NoSender
    <3>1. reply' = [reply EXCEPT ![h.caller] = "busy"]
      BY <1>4, <2>3 DEF Sign
    <3>2. RS!Answer(h.caller, "busy")
      BY <2>1, <2>2, <3>1 DEF RS!Answer, RS!Pending, RS!Allowed, Waiting, NoOp, Command
    <3> QED
      BY <2>2, <3>2 DEF RS!Next, Command
  <2>4. CASE sign_sender = NoSender
    BY <1>4, <2>1, <2>4 DEF Sign, absvars
  <2> QED
    BY <2>3, <2>4
<1>5. CASE Setup \/ AddValidators \/ RemoveValidators
  <2>1. PICK o \in {"Setup", "AddValidators", "RemoveValidators"} : Immediate(o)
    BY <1>5 DEF Setup, AddValidators, RemoveValidators
  <2> DEFINE h == Head(command_receiver)
  <2>2. /\ worker = "running" /\ h.op = o /\ UNCHANGED <<worker, op>>
        /\ command_receiver # << >> /\ command_receiver' = Tail(command_receiver)
    BY <2>1 DEF Immediate, HeadIs
  <2>3. h \in Command /\ op[h.caller] = o /\ Waiting(h.caller)
    BY <2>2, TakeHead
  <2>4. PICK r \in {"ok", "err"} : reply' = [reply EXCEPT ![h.caller] = r]
    BY <2>1 DEF Immediate
  <2>5. RS!Answer(h.caller, r)
    BY <2>2, <2>3, <2>4 DEF RS!Answer, RS!Pending, RS!Allowed, Waiting, NoOp, Command
  <2> QED
    BY <2>3, <2>5 DEF RS!Next, Command
<1>6. CASE DkgPart1 \/ SignPart1
  BY <1>6 DEF DkgPart1, SignPart1, absvars
<1>7. CASE DkgPart2
  <2>1. /\ worker = "running" /\ UNCHANGED <<worker, op>>
        /\ dkg_sender \in Callers \cup {NoSender}
        /\ dkg_sender # NoSender => Waiting(dkg_sender) /\ op[dkg_sender] = "RotateKey"
    BY <1>7 DEF DkgPart2, IInv, TypeOK, SlotOwnership
  <2>2. CASE reply' = reply
    BY <2>1, <2>2 DEF absvars
  <2>3. CASE reply' # reply
    <3>1. PICK r \in {"ok", "err"} : reply' = Answer(dkg_sender, r)
      BY <1>7, <2>3 DEF DkgPart2
    <3>2. r \in RS!Allowed("RotateKey")
      BY DEF RS!Allowed
    <3> QED
      BY <2>1, <3>1, <3>2, AnswerSlot
  <2> QED
    BY <2>2, <2>3
<1>8. CASE SignPart2
  <2>1. /\ worker = "running" /\ UNCHANGED <<worker, op>>
        /\ sign_sender \in Callers \cup {NoSender}
        /\ sign_sender # NoSender => Waiting(sign_sender) /\ op[sign_sender] = "Sign"
    BY <1>8 DEF SignPart2, IInv, TypeOK, SlotOwnership
  <2>2. PICK r \in {"ok", "err"} : reply' = Answer(sign_sender, r)
    BY <1>8 DEF SignPart2
  <2>3. r \in RS!Allowed("Sign")
    BY DEF RS!Allowed
  <2> QED
    BY <2>1, <2>2, <2>3, AnswerSlot
<1>9. CASE UNCHANGED vars
  BY <1>9 DEF vars, absvars
<1> QED
  BY <1>1, <1>2, <1>3, <1>4, <1>5, <1>6, <1>7, <1>8, <1>9
     DEF Next, HandleCommand, HandleMessage

(* For every set of callers, the Worker with its Service implements the   *)
(* reply-server promise: each answer goes once to a waiting caller and is *)
(* of a kind its operation allows.                                         *)
THEOREM Refinement == Spec => RefinesReplyServer
<1>1. IInv /\ [Next]_vars => [RS!Next]_absvars
  BY StepRefines
<1> QED
  BY InitRefines, InitIInv, NextStep, <1>1, PTL DEF Spec, RefinesReplyServer, RS!Spec, absvars
=============================================================================
