---------------------------- MODULE LooperProofs ----------------------------
(***************************************************************************)
(* Proofs about the looper composed with the Worker, for every bound on   *)
(* the header stream.                                                      *)
(*                                                                         *)
(* Every step of the composition is a step of ValidatorWorker (or leaves  *)
(* the Worker alone), so the Worker's inductive invariant IInv holds.     *)
(* With the looper as the only caller, the command at the head of the     *)
(* channel is the looper's, and SlotOwnership says a parked caller is not *)
(* queued: so when the head command is handled, both slots are empty, the *)
(* busy branch of Sign cannot fire and RotateKey displaces nobody.         *)
(***************************************************************************)
EXTENDS Looper, RefinementProofs, TLAPS

\* Each looper step either makes a Service call or leaves the Worker alone.
LEMMA LNextIsNext == [LNext]_all_vars => [Next]_vars
<1> SUFFICES ASSUME [LNext]_all_vars PROVE [Next]_vars
  OBVIOUS
<1>1. Looper \in Callers /\ "RotateKey" \in Ops /\ "Sign" \in Ops
  BY LooperAssumption DEF Ops
<1>2. CASE RotateKeyCall \/ SignCall
  BY <1>1, <1>2 DEF RotateKeyCall, SignCall, Next
<1>3. CASE Subscribe \/ KeyReturned \/ NextHeader \/ SignatureReturned
  BY <1>3 DEF Subscribe, KeyReturned, NextHeader, SignatureReturned
<1>4. CASE WorkerStart \/ WorkerCommand \/ WorkerMessage
  BY <1>4 DEF WorkerStart, WorkerCommand, WorkerMessage, Next
<1>5. CASE UNCHANGED all_vars
  BY <1>5 DEF all_vars
<1> QED
  BY <1>2, <1>3, <1>4, <1>5 DEF LNext, LooperStep

\* The composition keeps the Worker's inductive invariant.
LEMMA LooperIInv == LSpec => []IInv
<1>1. LInit => IInv
  BY InitIInv DEF LInit
<1>2. IInv /\ [LNext]_all_vars => IInv'
  BY LNextIsNext, NextStep
<1> QED
  BY <1>1, <1>2, PTL DEF LSpec

\* When the only caller's command is taken, neither slot holds a caller.
LEMMA SlotsEmptyAtHead ==
  ASSUME IInv, command_receiver # << >>, command_receiver' = Tail(command_receiver)
  PROVE  dkg_sender = NoSender /\ sign_sender = NoSender
<1>1. Head(command_receiver).caller = Looper
  <2>1. Head(command_receiver) \in Command
    BY TakeHead
  <2> QED
    BY <2>1, LooperAssumption DEF Command
<1>2. Looper # dkg_sender /\ Looper # sign_sender
  BY <1>1, TakeHead
<1> QED
  BY <1>2, LooperAssumption DEF IInv, TypeOK

\* One Worker step never makes the only caller's reply "busy", and makes
\* it "canceled" only by stopping the Worker.
LEMMA SingleCallerStep ==
  ASSUME IInv, LooperNeverBusyOrDropped, [Next]_vars
  PROVE  LooperNeverBusyOrDropped'
<1> DEFINE L == Looper
<1>1. L \in Callers
  BY LooperAssumption
<1>0. worker = "stopped" => worker' = "stopped"
  BY StoppedForever
<1> SUFFICES \/ reply'[L] \in {"none", "ok", "err", "sendfail"}
             \/ reply'[L] = "canceled" /\ worker' = "stopped"
             \/ reply'[L] = reply[L]
  BY <1>0 DEF LooperNeverBusyOrDropped
<1>2. CASE \E c \in Callers, o \in Ops : Call(c, o)
  <2>1. PICK c \in Callers, o \in Ops : Call(c, o)
    BY <1>2
  <2>2. c = L
    BY LooperAssumption
  <2> QED
    BY <1>0, <2>1, <2>2 DEF Call, IInv, TypeOK
<1>3. CASE Start
  <2>1. CASE worker' = "running"
    BY <1>3, <2>1 DEF Start
  <2>2. CASE worker' = "stopped"
    BY <1>3, <2>2, <1>1 DEF Start
  <2> QED
    BY <1>3, <2>1, <2>2 DEF Start
<1>4. CASE RotateKey
  <2>1. dkg_sender = NoSender
    BY <1>4, SlotsEmptyAtHead DEF RotateKey, HeadIs
  <2> QED
    BY <1>0, <1>4, <2>1 DEF RotateKey, Answer
<1>5. CASE Sign
  <2>1. sign_sender = NoSender
    BY <1>5, SlotsEmptyAtHead DEF Sign, HeadIs
  <2> QED
    BY <1>0, <1>5, <2>1 DEF Sign
<1>6. CASE Setup \/ AddValidators \/ RemoveValidators
  <2>1. PICK o \in {"Setup", "AddValidators", "RemoveValidators"} : Immediate(o)
    BY <1>6 DEF Setup, AddValidators, RemoveValidators
  <2>2. Head(command_receiver).caller = L
    <3>1. Head(command_receiver) \in Command
      BY <2>1, TakeHead DEF Immediate, HeadIs
    <3> QED
      BY <3>1, LooperAssumption DEF Command
  <2> QED
    BY <1>0, <2>1, <2>2 DEF Immediate, IInv, TypeOK
<1>7. CASE DkgPart1 \/ SignPart1
  BY <1>0, <1>7 DEF DkgPart1, SignPart1
<1>8. CASE DkgPart2
  <2>1. CASE reply' = reply
    BY <1>0, <1>8, <2>1 DEF DkgPart2
  <2>2. CASE reply' # reply
    <3>1. PICK r \in {"ok", "err"} : reply' = Answer(dkg_sender, r)
      BY <1>8, <2>2 DEF DkgPart2
    <3>2. /\ L # dkg_sender => reply'[L] = reply[L]
          /\ dkg_sender # NoSender => reply'[dkg_sender] = r
      BY <1>1, <3>1, AnswerFacts DEF IInv, TypeOK, Replies
    <3> QED
      BY <1>1, <3>2, CallersAssumption
  <2> QED
    BY <2>1, <2>2
<1>9. CASE SignPart2
  <2>1. PICK r \in {"ok", "err"} : reply' = Answer(sign_sender, r)
    BY <1>9 DEF SignPart2
  <2>2. /\ L # sign_sender => reply'[L] = reply[L]
        /\ sign_sender # NoSender => reply'[sign_sender] = r
    BY <1>1, <2>1, AnswerFacts DEF IInv, TypeOK, Replies
  <2> QED
    BY <1>1, <2>2, CallersAssumption
<1>10. CASE UNCHANGED vars
  BY <1>10 DEF vars
<1> QED
  BY <1>2, <1>3, <1>4, <1>5, <1>6, <1>7, <1>8, <1>9, <1>10
     DEF Next, HandleCommand, HandleMessage

(* For every bound on the header stream: the looper's rotate_key and      *)
(* start_signing unwraps never meet "Another sign request is in progress" *)
(* and never a dropped reply channel while run() is alive.                *)
THEOREM LooperNeverBusyOrDroppedHolds == LSpec => []LooperNeverBusyOrDropped
<1>1. LInit => LooperNeverBusyOrDropped
  BY LooperAssumption DEF LInit, Init, LooperNeverBusyOrDropped
<1>2. IInv /\ LooperNeverBusyOrDropped /\ [LNext]_all_vars => LooperNeverBusyOrDropped'
  BY LNextIsNext, SingleCallerStep
<1> QED
  BY <1>1, <1>2, LooperIInv, PTL DEF LSpec

(* For every bound on the header stream, the Worker driven by the looper  *)
(* task still implements the abstract ReplyServer: the looper's calls are *)
(* Service calls and its other steps touch no Worker state, so the        *)
(* composition's answers are those the abstract server allows.            *)
THEOREM LooperRefinement == LSpec => RefinesReplyServer
<1>1. LInit => RS!Init
  BY InitRefines DEF LInit
<1>2. IInv /\ [LNext]_all_vars => [RS!Next]_absvars
  BY LNextIsNext, StepRefines
<1> QED
  BY <1>1, <1>2, LooperIInv, PTL DEF LSpec, RefinesReplyServer, RS!Spec, absvars
=============================================================================
