------------------------ MODULE NetworkServiceProofs ------------------------
(***************************************************************************)
(* Proofs about the network Service for every set of callers and every    *)
(* queue bound.                                                            *)
(*                                                                         *)
(* The inductive invariant says a caller awaiting a reply has its command *)
(* queued before a live Worker (AwaitedCommandQueued).  That alone is not *)
(* inductive: when the Worker answers the head request, its caller must   *)
(* have no other request left in the channel, and an idle caller must     *)
(* have none at all.  That is QueuedRequests: a request in the channel    *)
(* belongs to a caller awaiting exactly that request, and a caller has at *)
(* most one.  An ended Worker has drained the channel (EndedEmpty).       *)
(***************************************************************************)
EXTENDS NetworkService, TLAPS

\* A caller awaiting a reply has its command queued with a live Worker
\* behind it.  In the code this holds by construction (a failed send drops
\* the oneshot sender with the command), so it is only a conjunct of the
\* inductive invariant here, not a property checked on its own.
AwaitedCommandQueued ==
  \A c \in Callers : Awaiting(c) =>
    /\ net = "running"
    /\ \E i \in DOMAIN to_worker : to_worker[i] = [caller |-> c, op |-> op[c]]

IsRequestOf(i, c) == to_worker[i].caller = c /\ to_worker[i].op \in Requests

QueuedRequests ==
  \A c \in Callers :
    /\ \A i \in DOMAIN to_worker : IsRequestOf(i, c) => Awaiting(c) /\ to_worker[i].op = op[c]
    /\ \A i, j \in DOMAIN to_worker : IsRequestOf(i, c) /\ IsRequestOf(j, c) => i = j

EndedEmpty == net = "ended" => to_worker = << >>

IInv == TypeOK /\ AwaitedCommandQueued /\ QueuedRequests /\ EndedEmpty

Command == [caller : Callers, op : NetOps]

LEMMA InitIInv == Init => IInv
<1> SUFFICES ASSUME Init PROVE IInv
  OBVIOUS
<1>1. TypeOK
  <2>1. to_worker \in Seq([caller : Callers, op : NetOps])
    BY DEF Init
  <2>2. op \in [Callers -> NetOps \cup {"NoOp"}]
    BY DEF Init
  <2>3. reply \in [Callers -> {"none", "ok", "err", "sendfail", "recvfail"}]
    BY DEF Init
  <2> QED
    BY <2>1, <2>2, <2>3 DEF Init, TypeOK
<1>2. AwaitedCommandQueued
  BY DEF Init, AwaitedCommandQueued, Awaiting, Requests
<1>3. QueuedRequests /\ EndedEmpty
  BY DEF Init, QueuedRequests, EndedEmpty
<1> QED
  BY <1>1, <1>2, <1>3 DEF IInv

\* A send: the caller was idle, so none of its requests is in the channel.
LEMMA SendStep ==
  ASSUME IInv, NEW c \in Callers, NEW o \in NetOps, NEW r,
         o \in Requests => r = "none", o \in Notifications => r = "ok",
         SendCommand(c, o, r)
  PROVE  IInv'
<1>1. ~Awaiting(c)
  BY DEF SendCommand, Idle, Awaiting, Requests
<1>2. \A i \in DOMAIN to_worker : ~IsRequestOf(i, c)
  BY <1>1 DEF IInv, QueuedRequests
<1>3. CASE net = "ended" /\ reply' = [reply EXCEPT ![c] = "sendfail"] /\ UNCHANGED to_worker
  <2>1. \A d \in Callers : ~Awaiting(d)
    BY <1>3 DEF IInv, AwaitedCommandQueued
  <2>2. \A d \in Callers : ~Awaiting(d)'
    BY <1>3, <2>1 DEF SendCommand, Awaiting, IInv, TypeOK
  <2> QED
    BY <1>3, <2>2 DEF SendCommand, IInv, TypeOK, AwaitedCommandQueued, QueuedRequests,
                      EndedEmpty, IsRequestOf
<1>4. CASE /\ net = "running" /\ Len(to_worker) < MaxQueue
           /\ to_worker' = Append(to_worker, [caller |-> c, op |-> o])
           /\ reply' = [reply EXCEPT ![c] = r]
  <2> DEFINE e == [caller |-> c, op |-> o]
  <2>1. /\ to_worker' \in Seq(Command)
        /\ Len(to_worker') = Len(to_worker) + 1
        /\ \A i \in 1..Len(to_worker) : to_worker'[i] = to_worker[i]
        /\ to_worker'[Len(to_worker) + 1] = e
    BY <1>4 DEF IInv, TypeOK, Command
  <2>2. TypeOK'
    <3>1. r \in {"none", "ok"}
      BY DEF NetOps
    <3> QED
      BY <1>4, <2>1, <3>1 DEF SendCommand, IInv, TypeOK, Command
  <2>3. AwaitedCommandQueued'
    <3> SUFFICES ASSUME NEW d \in Callers, Awaiting(d)'
                 PROVE  \E i \in DOMAIN to_worker' : to_worker'[i] = [caller |-> d, op |-> op'[d]]
      BY <1>4 DEF SendCommand, AwaitedCommandQueued
    <3>1. CASE d = c
      BY <3>1, <2>1 DEF SendCommand, IInv, TypeOK
    <3>2. CASE d # c
      BY <3>2, <1>4, <2>1 DEF SendCommand, Awaiting, IInv, TypeOK, AwaitedCommandQueued
    <3> QED
      BY <3>1, <3>2
  <2>4. QueuedRequests'
    <3> SUFFICES ASSUME NEW d \in Callers
                 PROVE  /\ \A i \in DOMAIN to_worker' : IsRequestOf(i, d)' =>
                                Awaiting(d)' /\ to_worker'[i].op = op'[d]
                        /\ \A i, j \in DOMAIN to_worker' :
                                IsRequestOf(i, d)' /\ IsRequestOf(j, d)' => i = j
      BY DEF QueuedRequests
    <3>0. DOMAIN to_worker' = 1..Len(to_worker) + 1 /\ DOMAIN to_worker = 1..Len(to_worker)
      BY <2>1 DEF IInv, TypeOK
    <3>1. CASE d = c
      <4>1. \A i \in DOMAIN to_worker' : IsRequestOf(i, c)' => i = Len(to_worker) + 1
        BY <3>0, <2>1, <1>2 DEF IsRequestOf
      <4>2. to_worker'[Len(to_worker) + 1].op \in Requests =>
              Awaiting(c)' /\ to_worker'[Len(to_worker) + 1].op = op'[c]
        <5> SUFFICES ASSUME o \in Requests PROVE Awaiting(c)' /\ o = op'[c]
          BY <2>1
        <5>1. r = "none"
          OBVIOUS
        <5> QED
          BY <1>4, <5>1 DEF SendCommand, Awaiting, IInv, TypeOK
      <4> QED
        BY <3>1, <4>1, <4>2 DEF IsRequestOf
    <3>2. CASE d # c
      <4>1. \A i \in DOMAIN to_worker' : IsRequestOf(i, d)' =>
              /\ i \in DOMAIN to_worker
              /\ to_worker'[i] = to_worker[i]
              /\ to_worker[i].caller = d /\ to_worker[i].op \in Requests
        BY <3>0, <3>2, <2>1 DEF IsRequestOf
      <4>2. Awaiting(d)' = Awaiting(d) /\ op'[d] = op[d]
        BY <3>2, <1>4 DEF SendCommand, Awaiting, IInv, TypeOK
      <4>3. \A i \in DOMAIN to_worker : to_worker[i].caller = d /\ to_worker[i].op \in Requests =>
              Awaiting(d) /\ to_worker[i].op = op[d]
        BY DEF IInv, QueuedRequests, IsRequestOf
      <4>4. \A i, j \in DOMAIN to_worker :
              /\ to_worker[i].caller = d /\ to_worker[i].op \in Requests
              /\ to_worker[j].caller = d /\ to_worker[j].op \in Requests
              => i = j
        BY DEF IInv, QueuedRequests, IsRequestOf
      <4> QED
        BY <4>1, <4>2, <4>3, <4>4
    <3> QED
      BY <3>1, <3>2
  <2> QED
    BY <1>4, <2>2, <2>3, <2>4 DEF SendCommand, IInv, EndedEmpty
<1> QED
  BY <1>3, <1>4 DEF SendCommand

\* The Worker takes the head: a request is answered and was its caller's
\* only one; every other entry moves one place up.
LEMMA HandleStep ==
  ASSUME IInv, HandleCommand
  PROVE  IInv'
<1> DEFINE h == Head(to_worker)
<1>1. /\ to_worker \in Seq(Command) /\ to_worker # << >>
      /\ h = to_worker[1] /\ h \in Command /\ 1 \in DOMAIN to_worker
      /\ to_worker' \in Seq(Command)
      /\ Len(to_worker') = Len(to_worker) - 1
      /\ DOMAIN to_worker' = 1..Len(to_worker')
      /\ \A i \in 1..Len(to_worker') : to_worker'[i] = to_worker[i + 1]
      /\ net = "running" /\ UNCHANGED <<net, op, lost>>
  <2>1. /\ net = "running" /\ to_worker # << >> /\ to_worker' = Tail(to_worker)
        /\ UNCHANGED <<net, op, lost>>
    BY DEF HandleCommand
  <2>2. to_worker \in Seq(Command)
    BY DEF IInv, TypeOK, Command
  <2> QED
    BY <2>1, <2>2
<1>2. \/ /\ h.op \in Requests
         /\ \E r \in {"ok", "err"} : reply' = [reply EXCEPT ![h.caller] = r]
      \/ /\ h.op \in Notifications
         /\ reply' = reply
  BY DEF HandleCommand
<1>3. TypeOK'
  BY <1>1, <1>2 DEF IInv, TypeOK, Command
<1>4. ASSUME NEW d \in Callers, Awaiting(d)'
      PROVE  Awaiting(d) /\ op'[d] = op[d] /\ (h.op \in Requests => d # h.caller)
  <2>1. CASE h.op \in Requests
    <3>1. PICK r \in {"ok", "err"} : reply' = [reply EXCEPT ![h.caller] = r]
      BY <2>1, <1>2 DEF Requests, Notifications
    <3>2. d # h.caller
      BY <1>1, <1>4, <3>1 DEF Awaiting, IInv, TypeOK, Command
    <3> QED
      BY <1>1, <1>4, <3>1, <3>2 DEF Awaiting, IInv, TypeOK
  <2>2. CASE h.op \notin Requests
    BY <1>1, <1>2, <1>4, <2>2 DEF Awaiting
  <2> QED
    BY <2>1, <2>2
<1>5. \A d \in Callers, i \in DOMAIN to_worker :
        IsRequestOf(i, d) /\ i # 1 => ~(h.op \in Requests /\ h.caller = d)
  BY <1>1 DEF IInv, QueuedRequests, IsRequestOf
<1>6. AwaitedCommandQueued'
  <2> SUFFICES ASSUME NEW d \in Callers, Awaiting(d)'
               PROVE  \E i \in DOMAIN to_worker' : to_worker'[i] = [caller |-> d, op |-> op'[d]]
    BY <1>1 DEF AwaitedCommandQueued
  <2>1. Awaiting(d) /\ op'[d] = op[d] /\ (h.op \in Requests => d # h.caller)
    BY <1>4
  <2>2. PICK k \in DOMAIN to_worker : to_worker[k] = [caller |-> d, op |-> op[d]]
    BY <2>1 DEF IInv, AwaitedCommandQueued
  <2>3. op[d] \in Requests
    BY <2>1 DEF Awaiting
  <2>4. k # 1
    BY <1>1, <2>1, <2>2, <2>3
  <2>5. k - 1 \in DOMAIN to_worker' /\ to_worker'[k - 1] = to_worker[k]
    BY <1>1, <2>4
  <2> QED
    BY <2>1, <2>2, <2>5
<1>7. QueuedRequests'
  <2> SUFFICES ASSUME NEW d \in Callers
               PROVE  /\ \A i \in DOMAIN to_worker' : IsRequestOf(i, d)' =>
                              Awaiting(d)' /\ to_worker'[i].op = op'[d]
                      /\ \A i, j \in DOMAIN to_worker' :
                              IsRequestOf(i, d)' /\ IsRequestOf(j, d)' => i = j
    BY DEF QueuedRequests
  <2>1. ASSUME NEW i \in DOMAIN to_worker', IsRequestOf(i, d)'
        PROVE  Awaiting(d)' /\ to_worker'[i].op = op'[d]
    <3>1. IsRequestOf(i + 1, d) /\ i + 1 \in DOMAIN to_worker /\ i + 1 # 1
      BY <1>1, <2>1 DEF IsRequestOf
    <3>2. Awaiting(d) /\ to_worker[i + 1].op = op[d]
      BY <3>1 DEF IInv, QueuedRequests
    <3>3. ~(h.op \in Requests /\ h.caller = d)
      BY <1>5, <3>1
    <3>4. reply'[d] = reply[d]
      <4>1. CASE h.op \in Requests
        <5>1. PICK r \in {"ok", "err"} : reply' = [reply EXCEPT ![h.caller] = r]
          BY <4>1, <1>2 DEF Requests, Notifications
        <5> QED
          BY <3>3, <4>1, <5>1
      <4>2. CASE h.op \notin Requests
        BY <4>2, <1>2
      <4> QED
        BY <4>1, <4>2
    <3> QED
      BY <1>1, <3>1, <3>2, <3>4 DEF Awaiting
  <2>2. ASSUME NEW i \in DOMAIN to_worker', NEW j \in DOMAIN to_worker',
               IsRequestOf(i, d)', IsRequestOf(j, d)'
        PROVE  i = j
    <3>1. IsRequestOf(i + 1, d) /\ IsRequestOf(j + 1, d)
          /\ i + 1 \in DOMAIN to_worker /\ j + 1 \in DOMAIN to_worker
      BY <1>1, <2>2 DEF IsRequestOf
    <3>2. i + 1 = j + 1
      BY <3>1 DEF IInv, QueuedRequests
    <3> QED
      BY <3>2, <1>1
  <2> QED
    BY <2>1, <2>2
<1> QED
  BY <1>1, <1>3, <1>6, <1>7 DEF IInv, EndedEmpty

\* The Worker ends: the channel is drained and every awaiting caller, whose
\* request was queued, gets the communication error.
LEMMA EndStep ==
  ASSUME IInv, End
  PROVE  IInv'
<1>1. \A d \in Callers : ~Awaiting(d)'
  <2> SUFFICES ASSUME NEW d \in Callers, Awaiting(d)' PROVE FALSE
    OBVIOUS
  <2>1. Awaiting(d) /\ op'[d] = op[d]
    BY DEF End, Awaiting, IInv, TypeOK
  <2>2. \E i \in DOMAIN to_worker : to_worker[i] = [caller |-> d, op |-> op[d]]
    BY <2>1 DEF IInv, AwaitedCommandQueued
  <2>3. reply'[d] = "recvfail"
    BY <2>1, <2>2 DEF End, Awaiting
  <2> QED
    BY <2>3 DEF Awaiting
<1>2. TypeOK'
  BY DEF End, IInv, TypeOK
<1> QED
  BY <1>1, <1>2 DEF End, IInv, AwaitedCommandQueued, QueuedRequests, EndedEmpty, IsRequestOf

LEMMA NextStep == IInv /\ [Next]_vars => IInv'
<1> SUFFICES ASSUME IInv, [Next]_vars PROVE IInv'
  OBVIOUS
<1>1. ASSUME NEW c \in Callers, NEW o \in Requests, Request(c, o) PROVE IInv'
  BY <1>1, SendStep DEF Request, NetOps, Notifications, Requests
<1>2. ASSUME NEW c \in Callers, NEW o \in Notifications, Notify(c, o) PROVE IInv'
  BY <1>2, SendStep DEF Notify, NetOps, Notifications, Requests
<1>3. CASE \E c \in Callers : \/ StartListening(c) \/ AddAddress(c) \/ RemoveExplicitPeer(c)
                             \/ Subscribe(c) \/ Publish(c)
  BY <1>3, <1>1 DEF StartListening, AddAddress, RemoveExplicitPeer, Subscribe, Publish,
                    Requests
<1>4. CASE \E c \in Callers : NewValidators(c) \/ RemoveValidators(c)
  BY <1>4, <1>2 DEF NewValidators, RemoveValidators, Notifications
<1>5. CASE UNCHANGED vars
  BY <1>5 DEF vars, IInv, TypeOK, AwaitedCommandQueued, QueuedRequests, EndedEmpty,
              IsRequestOf, Awaiting
<1> QED
  BY <1>3, <1>4, <1>5, HandleStep, EndStep DEF Next

LEMMA IInvHolds == Spec => []IInv
BY InitIInv, NextStep, PTL DEF Spec

-----------------------------------------------------------------------------
(* The refinement of NetworkReplyServer, under the mapping server <- net. *)

NVars == <<net, op, reply>>

LEMMA InitRefines == Init => NRS!Init
BY DEF Init, NRS!Init

\* A send is the abstract call: sendfail once the Worker ended, otherwise
\* a request waits and a notification returns Ok.
LEMMA SendRefines ==
  ASSUME NEW c \in Callers, NEW o \in NetOps, NEW r,
         o \in Requests => r = "none", o \in Notifications => r = "ok",
         SendCommand(c, o, r)
  PROVE  NRS!Call(c, o)
<1>1. /\ op[c] = "NoOp" \/ reply[c] # "none"
      /\ op' = [op EXCEPT ![c] = o]
      /\ UNCHANGED net
  BY DEF SendCommand, Idle
<1>2. reply' = [reply EXCEPT ![c] = NRS!CallResult(o)]
  <2>1. CASE net = "ended"
    <3>1. reply' = [reply EXCEPT ![c] = "sendfail"]
      BY <2>1 DEF SendCommand
    <3>2. NRS!CallResult(o) = "sendfail"
      BY <2>1 DEF NRS!CallResult
    <3> QED
      BY <3>1, <3>2
  <2>2. CASE net = "running"
    <3>1. reply' = [reply EXCEPT ![c] = r]
      BY <2>2 DEF SendCommand
    <3>2. CASE o \in Requests
      <4>1. NRS!CallResult(o) = "none"
        BY <2>2, <3>2 DEF NRS!CallResult, Requests, NRS!Requests
      <4> QED
        BY <3>1, <3>2, <4>1
    <3>3. CASE o \notin Requests
      <4>1. o \in Notifications /\ o \notin NRS!Requests
        BY <3>3 DEF NetOps, Requests, NRS!Requests
      <4>2. NRS!CallResult(o) = "ok"
        BY <2>2, <4>1 DEF NRS!CallResult
      <4> QED
        BY <3>1, <4>1, <4>2
    <3> QED
      BY <3>2, <3>3
  <2> QED
    BY <2>1, <2>2 DEF SendCommand
<1> QED
  BY <1>1, <1>2 DEF NRS!Call

\* The Worker answering the head request is the abstract answer to its
\* caller, who by QueuedRequests is waiting on exactly that request; a
\* notification changes nothing a caller sees.
LEMMA HandleRefines ==
  ASSUME IInv, HandleCommand
  PROVE  [NRS!Next]_NVars
<1> DEFINE h == Head(to_worker)
<1>1. /\ net = "running" /\ to_worker # << >> /\ UNCHANGED <<net, op>>
      /\ \/ /\ h.op \in Requests
            /\ \E r \in {"ok", "err"} : reply' = [reply EXCEPT ![h.caller] = r]
         \/ /\ h.op \in Notifications
            /\ UNCHANGED reply
  BY DEF HandleCommand
<1>2. CASE h.op \in Requests
  <2>1. 1 \in DOMAIN to_worker /\ h = to_worker[1] /\ h.caller \in Callers
    <3>1. to_worker \in Seq(Command)
      BY DEF IInv, TypeOK, Command
    <3>2. to_worker # << >>
      BY <1>1
    <3>3. 1 \in DOMAIN to_worker /\ h = to_worker[1] /\ h \in Command
      BY <3>1, <3>2
    <3> QED
      BY <3>3 DEF Command
  <2>2. Awaiting(h.caller) /\ h.op = op[h.caller]
    BY <1>2, <2>1 DEF IInv, QueuedRequests, IsRequestOf
  <2>3. NRS!Pending(h.caller)
    BY <2>2 DEF Awaiting, NRS!Pending, Requests, NRS!Requests
  <2>4. PICK r \in {"ok", "err"} : reply' = [reply EXCEPT ![h.caller] = r]
    BY <1>1, <1>2 DEF Requests, Notifications
  <2>5. NRS!Answer(h.caller, r)
    BY <1>1, <2>3, <2>4 DEF NRS!Answer
  <2> QED
    BY <2>1, <2>5 DEF NRS!Next
<1>3. CASE h.op \notin Requests
  BY <1>1, <1>3 DEF NVars
<1> QED
  BY <1>2, <1>3

\* The Worker's end is the abstract stop: the callers whose requests were
\* queued are exactly those waiting.
LEMMA EndRefines ==
  ASSUME IInv, End
  PROVE  NRS!Stop
<1> DEFINE queued == {to_worker[i] : i \in DOMAIN to_worker}
<1>1. ASSUME NEW c \in Callers
      PROVE  ([caller |-> c, op |-> op[c]] \in queued /\ op[c] \in Requests) <=> NRS!Pending(c)
  <2>1. ASSUME [caller |-> c, op |-> op[c]] \in queued, op[c] \in Requests
        PROVE  Awaiting(c)
    <3>1. PICK i \in DOMAIN to_worker : to_worker[i] = [caller |-> c, op |-> op[c]]
      BY <2>1
    <3>2. IsRequestOf(i, c)
      BY <2>1, <3>1 DEF IsRequestOf
    <3> QED
      BY <3>2 DEF IInv, QueuedRequests
  <2>2. Awaiting(c) => [caller |-> c, op |-> op[c]] \in queued /\ op[c] \in Requests
    BY DEF IInv, AwaitedCommandQueued, Awaiting
  <2>3. Awaiting(c) <=> NRS!Pending(c)
    BY DEF Awaiting, NRS!Pending, Requests, NRS!Requests
  <2> QED
    BY <2>1, <2>2, <2>3
<1>2. reply' = [c \in Callers |-> IF NRS!Pending(c) THEN "recvfail" ELSE reply[c]]
  BY <1>1 DEF End
<1> QED
  BY <1>2 DEF End, NRS!Stop

LEMMA StepRefines == IInv /\ [Next]_vars => [NRS!Next]_NVars
<1> SUFFICES ASSUME IInv, [Next]_vars PROVE [NRS!Next]_NVars
  OBVIOUS
<1>1. ASSUME NEW c \in Callers, NEW o \in Requests, Request(c, o) PROVE [NRS!Next]_NVars
  <2>1. NRS!Call(c, o) /\ o \in NRS!Requests
    BY <1>1, SendRefines DEF Request, NetOps, Notifications, Requests, NRS!Requests
  <2> QED
    BY <2>1 DEF NRS!Next
<1>2. ASSUME NEW c \in Callers, NEW o \in Notifications, Notify(c, o) PROVE [NRS!Next]_NVars
  <2>1. NRS!Call(c, o) /\ o \in NRS!Notifications
    BY <1>2, SendRefines DEF Notify, NetOps, Notifications, Requests, NRS!Notifications
  <2> QED
    BY <2>1 DEF NRS!Next
<1>3. CASE \E c \in Callers : \/ StartListening(c) \/ AddAddress(c) \/ RemoveExplicitPeer(c)
                             \/ Subscribe(c) \/ Publish(c)
  BY <1>3, <1>1 DEF StartListening, AddAddress, RemoveExplicitPeer, Subscribe, Publish,
                    Requests
<1>4. CASE \E c \in Callers : NewValidators(c) \/ RemoveValidators(c)
  BY <1>4, <1>2 DEF NewValidators, RemoveValidators, Notifications
<1>5. CASE HandleCommand
  BY <1>5, HandleRefines
<1>6. CASE End
  BY <1>6, EndRefines DEF NRS!Next
<1>7. CASE UNCHANGED vars
  BY <1>7 DEF vars, NVars
<1> QED
  BY <1>3, <1>4, <1>5, <1>6, <1>7 DEF Next

(* For every set of callers and queue bound, the Service with the network *)
(* Worker behind it implements NetworkReplyServer: each oneshot answer    *)
(* goes to a caller awaiting that call, sends fail only after the Worker  *)
(* ended, and its end fails exactly the calls still awaiting.              *)
THEOREM Refinement == Spec => RefinesNetworkReplyServer
<1>1. []IInv /\ [][Next]_vars => [][NRS!Next]_NVars
  BY StepRefines, PTL
<1> QED
  BY <1>1, InitRefines, IInvHolds, PTL DEF Spec, RefinesNetworkReplyServer, NRS!Spec, NVars

(* The Service's state keeps its types for every set of callers.           *)
THEOREM TypeCorrect == Spec => []TypeOK
<1>1. IInv => TypeOK
  BY DEF IInv
<1> QED
  BY <1>1, InitIInv, NextStep, PTL DEF Spec
=============================================================================
