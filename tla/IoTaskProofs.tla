------------------------------ MODULE IoTaskProofs -------------------------------
(* Theorems about IoTask for every value of its constants: its types, and that *)
(* it delivers control messages as ControlDelivery promises.                   *)
EXTENDS IoTask, LeastElement, SequenceTheorems

--------------------------------------------------------------------------------
\* Types

Received == {<<>>} \cup {<<m>> : m \in Message}

TaskRecord ==
  [live : BOOLEAN, reused : BOOLEAN, at : {"idle", "receive", "process"}, own : BOOLEAN,
   slot : Slots \cup {NoSlot}, local : Received]

IoRecord ==
  [at : {"read", "dispatch", "report", "announce", "delay"}, slot : Slots,
   message : Message \cup {NULL}, iters : 0 .. ItersRange - 1, read : 0 .. MaxMessages]

\* A message is dispatched as it was read, with the number of the last one that was.
DispatchesLast ==
  io.at = "dispatch" => io.message \in Message /\ io.message.number = io.read

\* A task past its lookup works on a slot that holds it, and has a message just while it is to
\* process one.
WorksOnOwn ==
  \A t \in Tcbs :
    /\ task[t].at # "idle" => task[t].slot \in Slots /\ probes[task[t].slot] = t
    /\ (task[t].at = "process") = (task[t].local # <<>>)

TInv ==
  /\ enabled \in BOOLEAN
  /\ probes \in [Slots -> Tcbs \cup {NULL}] /\ control \in [Slots -> BOOLEAN]
  /\ mailbox \in [Slots -> Seq(Message)]
  /\ processed \in [Tcbs -> Seq(Message)]
  /\ io \in IoRecord /\ DispatchesLast
  /\ task \in [Tcbs -> TaskRecord] /\ WorksOnOwn

--------------------------------------------------------------------------------
\* The search for a slot

\* The first of the slots p that holds t.
SlotOf(p, t) ==
  LET found == {i \in Slots : p[i] = t}
  IN  IF found = {} THEN NoSlot ELSE CHOOSE i \in found : \A j \in found : i <= j

\* get_tcb_probe returns a slot that holds the TCB, or none if no slot does.
LEMMA SlotFound ==
  ASSUME NEW p, NEW t
  PROVE  \/ SlotOf(p, t) = NoSlot /\ \A i \in Slots : p[i] # t
         \/ SlotOf(p, t) \in Slots /\ SlotOf(p, t) # NoSlot /\ p[SlotOf(p, t)] = t
<1> DEFINE found == {i \in Slots : p[i] = t}
<1>1. CASE found = {}
  BY <1>1 DEF SlotOf
<1>2. CASE found # {}
  <2>1. found \in SUBSET Nat
    BY SizesAssumption DEF Slots
  <2>2. \E i \in found : \A j \in found : i <= j
    BY <2>1, <1>2, LeastExists
  <2>3. SlotOf(p, t) \in found
    BY <2>2, <1>2 DEF SlotOf
  <2> QED
    BY <2>3 DEF Slots, NoSlot
<1> QED
  BY <1>1, <1>2

\* The model's search is the search in g_tcb_probes.
LEMMA SearchesProbes ==
  ASSUME NEW t
  PROVE  get_tcb_probe(t) = SlotOf(probes, t)
BY DEF get_tcb_probe, SlotOf

--------------------------------------------------------------------------------
\* The steps keep the types

\* The IO task's record after a step of one of its loops.
LEMMA ThenTyped ==
  ASSUME io \in IoRecord, NEW at \in {"read", "dispatch", "report", "announce", "delay"}
  PROVE  /\ Then(at) \in IoRecord
         /\ Then(at).at \in {io.at, at} /\ Then(at).read = io.read
         /\ io.slot < MaxProbes =>
              Then(at).slot = io.slot + 1 /\ Then(at).at = io.at /\ Then(at).message = io.message
         /\ ~(io.slot < MaxProbes) => Then(at).at = at
<1>1. 1 \in Slots /\ io.slot \in Slots
  BY SizesAssumption DEF IoRecord, Slots
<1>2. CASE io.slot < MaxProbes
  <2>1. io.slot + 1 \in Slots
    BY <1>1, <1>2, SizesAssumption DEF Slots
  <2>2. Then(at) = [io EXCEPT !.slot = @ + 1]
    BY <1>2 DEF Then
  <2> QED
    BY <1>2, <2>1, <2>2 DEF IoRecord
<1>3. CASE ~(io.slot < MaxProbes)
  BY <1>1, <1>3 DEF Then, GoTo, IoRecord
<1> QED
  BY <1>2, <1>3

\* A step of the IO task.
LEMMA IoStepTyped ==
  ASSUME TInv, IoStep
  PROVE  TInv'
<1> USE DEF TInv
<1>1. ASSUME NEW fails \in Failures({"read"}), IoReadNothing(fails) PROVE TInv'
  <2>1. io' \in IoRecord /\ io'.at = "report"
    BY <1>1 DEF IoReadNothing, IoRecord
  <2> QED
    BY <2>1, <1>1 DEF IoReadNothing, ErrorIf, DispatchesLast, WorksOnOwn
<1>2. ASSUME NEW to \in Ids \cup {Broadcast}, NEW size \in Sizes, IoReadMessage(to, size)
      PROVE  TInv'
  <2> DEFINE m == [number |-> io.read + 1, to |-> to, size |-> size]
  <2>1. m \in Message
    BY <1>2, SizesAssumption DEF Message, IoRecord, IoReadMessage
  <2>2. io' \in IoRecord /\ io'.at = "dispatch" /\ io'.message = m /\ m.number = io'.read
    <3>1. io' = [io EXCEPT !.at = "dispatch", !.read = @ + 1, !.message = m]
      BY <1>2 DEF IoReadMessage
    <3>2. m.number = io.read + 1 /\ io.read + 1 \in 0 .. MaxMessages
      BY <1>2, SizesAssumption DEF IoRecord, IoReadMessage
    <3> HIDE DEF m
    <3> QED
      BY <2>1, <3>1, <3>2 DEF IoRecord
  <2> HIDE DEF m
  <2> QED
    BY <2>1, <2>2, <1>2 DEF IoReadMessage, DispatchesLast, WorksOnOwn
<1>3. ASSUME IoDispatch PROVE TInv'
  <2>1. mailbox' \in [Slots -> Seq(Message)]
    <3>1. io.message \in Message /\ io.slot \in Slots
      BY <1>3 DEF IoDispatch, DispatchesLast, IoRecord
    <3>2. Append(mailbox[io.slot], io.message) \in Seq(Message)
      BY <3>1, AppendProperties
    <3>3. \/ mailbox' = [mailbox EXCEPT ![io.slot] = Append(@, io.message)]
          \/ mailbox' = mailbox
      BY <1>3 DEF IoDispatch
    <3> QED
      BY <3>1, <3>2, <3>3
  <2>2. io' \in IoRecord
    BY <1>3, ThenTyped DEF IoDispatch
  <2>3. DispatchesLast'
    <3>1. io' = Then("report")
      BY <1>3 DEF IoDispatch
    <3>2. io'.at = "dispatch" => io.slot < MaxProbes /\ io'.message = io.message
      BY <3>1, ThenTyped
    <3> QED
      BY <3>1, <3>2, <1>3, ThenTyped DEF DispatchesLast, IoDispatch
  <2> QED
    BY <2>1, <2>2, <2>3, <1>3 DEF IoDispatch, WorksOnOwn
<1>4. ASSUME NEW fails \in Failures({"report", "write"}), IoReport(fails) PROVE TInv'
  <2>1. Then("announce") \in IoRecord /\ Then("announce").at \in {"report", "announce"}
        /\ Then("delay") \in IoRecord /\ Then("delay").at \in {"report", "delay"}
    BY <1>4, ThenTyped DEF IoReport
  <2>2. io' \in {[Then("announce") EXCEPT !.iters = 0], Then("delay")}
    BY <1>4 DEF IoReport
  <2>3. 0 \in 0 .. ItersRange - 1
    BY ItersAssumption
  <2>4. \A r \in IoRecord : [r EXCEPT !.iters = 0] \in IoRecord /\ [r EXCEPT !.iters = 0].at = r.at
    BY <2>3 DEF IoRecord
  <2>5. io' \in IoRecord /\ io'.at # "dispatch"
    BY <2>1, <2>2, <2>4
  <2> QED
    BY <2>5, <1>4 DEF IoReport, ErrorIf, DispatchesLast, WorksOnOwn
<1>5. ASSUME NEW fails \in Failures({"announce", "write"}), IoAnnounce(fails) PROVE TInv'
  <2>1. io' \in IoRecord /\ io'.at # "dispatch"
    BY <1>5, ThenTyped DEF IoAnnounce
  <2> QED
    BY <2>1, <1>5 DEF IoAnnounce, ErrorIf, DispatchesLast, WorksOnOwn
<1>6. ASSUME IoDelay PROVE TInv'
  <2>1. (io.iters + 1) % ItersRange \in 0 .. ItersRange - 1
    BY ItersAssumption DEF IoRecord
  <2>2. io' \in IoRecord /\ io'.at = "read"
    BY <2>1, <1>6 DEF IoDelay, IoRecord
  <2> QED
    BY <2>2, <1>6 DEF IoDelay, DispatchesLast, WorksOnOwn
<1> QED
  BY <1>1, <1>2, <1>3, <1>4, <1>5, <1>6 DEF IoStep

\* What a task has received is a sequence of at most one message.
LEMMA ReceivedTyped ==
  /\ <<>> \in Received /\ \A m \in Message : <<m>> \in Received /\ <<m>> # <<>>
  /\ Received \subseteq Seq(Message)
  /\ \A l \in Received : l # <<>> => Len(l) = 1
<1>1. <<>> \in Seq(Message) /\ \A m \in Message : <<m>> \in Seq(Message) /\ Len(<<m>>) = 1
  BY EmptySeq
<1> QED
  BY <1>1 DEF Received

\* A task that goes back to its own business.
LEMMA IdleTyped ==
  ASSUME task \in [Tcbs -> TaskRecord], NEW t \in Tcbs
  PROVE  Idle(t) \in [Tcbs -> TaskRecord]
<1> DEFINE r == [task[t] EXCEPT !.at = "idle", !.own = FALSE, !.local = <<>>]
<1>1. r \in TaskRecord
  <2>1. task[t] \in TaskRecord /\ <<>> \in Received
    BY ReceivedTyped
  <2> QED
    BY <2>1 DEF TaskRecord
<1>2. Idle(t) = [task EXCEPT ![t] = r]
  BY DEF Idle
<1> HIDE DEF r
<1> QED
  BY <1>1, <1>2

\* A step of a task in the control plane.
LEMMA ControlStepTyped ==
  ASSUME TInv, NEW t \in Tcbs, ControlPlaneStep(t)
  PROVE  TInv'
<1> USE DEF TInv
<1>1. ASSUME NEW own \in BOOLEAN, FindBuffer(t, own) PROVE TInv'
  <2>1. get_tcb_probe(t) \in Slots /\ probes[get_tcb_probe(t)] = t
    BY <1>1, SlotFound, SearchesProbes DEF FindBuffer
  <2>2. task' = [task EXCEPT ![t].at = "receive", ![t].own = own, ![t].slot = get_tcb_probe(t)]
    BY <1>1 DEF FindBuffer
  <2>3. task' \in [Tcbs -> TaskRecord]
    <3> DEFINE r == [task[t] EXCEPT !.at = "receive", !.own = own, !.slot = get_tcb_probe(t)]
    <3>1. task \in [Tcbs -> TaskRecord]
      OBVIOUS
    <3> HIDE DEF TInv
    <3>2. task[t] \in TaskRecord /\ get_tcb_probe(t) \in Slots \cup {NoSlot}
      BY <2>1, <3>1
    <3>3. r \in TaskRecord
      BY <3>2 DEF TaskRecord
    <3>4. task' = [task EXCEPT ![t] = r]
      BY <2>2
    <3> HIDE DEF r
    <3> QED
      BY <3>1, <3>3, <3>4
  <2>4. WorksOnOwn'
    <3>1. task[t].at = "idle" /\ probes' = probes
      BY <1>1 DEF FindBuffer
    <3> QED
      BY <2>1, <2>2, <3>1 DEF WorksOnOwn, TaskRecord
  <2> QED
    BY <2>3, <2>4, <1>1 DEF FindBuffer, DispatchesLast
<1>2. ASSUME Receive(t) PROVE TInv'
  <2> DEFINE i == task[t].slot
  <2>1. i \in Slots /\ probes[i] = t /\ task[t].at = "receive"
    BY <1>2 DEF Receive, WorksOnOwn
  <2>2. CASE Receivable(t, mailbox[i])
    <3>1. Head(mailbox[i]) \in Message /\ Tail(mailbox[i]) \in Seq(Message)
      BY <2>1, <2>2, HeadTailProperties DEF Receivable
    <3>2. /\ task' = [task EXCEPT ![t].at = "process", ![t].local = <<Head(mailbox[i])>>]
          /\ mailbox' = [mailbox EXCEPT ![i] = Tail(@)]
      BY <1>2, <2>2 DEF Receive
    <3>3. mailbox' \in [Slots -> Seq(Message)]
      BY <3>1, <3>2, <2>1
    <3>4. <<Head(mailbox[i])>> \in Received /\ <<Head(mailbox[i])>> # <<>>
      BY <3>1, ReceivedTyped
    <3>5. task' \in [Tcbs -> TaskRecord]
      <4> DEFINE r == [task[t] EXCEPT !.at = "process", !.local = <<Head(mailbox[i])>>]
      <4>1. task \in [Tcbs -> TaskRecord]
        OBVIOUS
      <4> HIDE DEF TInv
      <4>2. r \in TaskRecord
        BY <3>4, <4>1 DEF TaskRecord
      <4>3. task' = [task EXCEPT ![t] = r]
        BY <3>2
      <4> HIDE DEF r
      <4> QED
        BY <4>1, <4>2, <4>3
    <3>6. WorksOnOwn'
      BY <3>2, <3>4, <2>1, <1>2 DEF Receive, WorksOnOwn, TaskRecord
    <3> QED
      BY <3>3, <3>5, <3>6, <1>2 DEF Receive, DispatchesLast
  <2>3. CASE ~Receivable(t, mailbox[i])
    <3>1. task' = Idle(t) /\ mailbox' = mailbox
      BY <1>2, <2>3 DEF Receive
    <3>2. task' \in [Tcbs -> TaskRecord]
      BY <3>1, IdleTyped
    <3>3. WorksOnOwn'
      BY <3>1, <1>2 DEF Idle, Receive, WorksOnOwn, TaskRecord
    <3> QED
      BY <3>1, <3>2, <3>3, <1>2 DEF Receive, DispatchesLast
  <2> QED
    BY <2>2, <2>3
<1>3. ASSUME NEW fails \in Failures({"process"}), Process(t, fails) PROVE TInv'
  <2>1. task[t].local \in Seq(Message)
    BY ReceivedTyped DEF TaskRecord
  <2>2. processed' \in [Tcbs -> Seq(Message)]
    <3>1. processed[t] \o task[t].local \in Seq(Message)
      BY <2>1, ConcatProperties
    <3> QED
      BY <3>1, <1>3 DEF Process
  <2>3. task' \in [Tcbs -> TaskRecord]
    BY <1>3, IdleTyped DEF Process
  <2>4. WorksOnOwn'
    BY <1>3 DEF Process, Idle, WorksOnOwn, TaskRecord
  <2> QED
    BY <2>2, <2>3, <2>4, <1>3 DEF Process, ErrorIf, DispatchesLast
<1> QED
  BY <1>1, <1>2, <1>3 DEF ControlPlaneStep, LookUp, GetBuffer

\* The creation of a task takes a slot that holds none.
LEMMA RegisterTyped ==
  ASSUME TInv, NEW t \in Tcbs, NEW fails \in Failures({"control_buffer"}), Register(t, fails)
  PROVE  TInv'
<1> USE DEF TInv
<1> DEFINE free == get_tcb_probe(NULL)
<1>1. task' \in [Tcbs -> TaskRecord] /\ task' = [task EXCEPT ![t].live = TRUE]
  <2> DEFINE r == [task[t] EXCEPT !.live = TRUE]
  <2>1. task' = [task EXCEPT ![t].live = TRUE] /\ task \in [Tcbs -> TaskRecord]
    BY DEF Register
  <2> HIDE DEF TInv
  <2>2. r \in TaskRecord
    BY <2>1 DEF TaskRecord
  <2>3. task' = [task EXCEPT ![t] = r]
    BY <2>1
  <2> HIDE DEF r
  <2> QED
    BY <2>1, <2>2, <2>3
<1>2. CASE enabled /\ free # NoSlot
  <2>1. free \in Slots /\ probes[free] = NULL
    BY <1>2, SlotFound, SearchesProbes
  <2>2. /\ probes' = [probes EXCEPT ![free] = t]
        /\ control' = [control EXCEPT ![free] = "control_buffer" \notin fails]
    BY <1>2 DEF Register
  <2>3. \A i \in Slots : probes[i] # NULL => probes'[i] = probes[i]
    BY <2>1, <2>2
  <2>4. WorksOnOwn'
    BY <2>3, <1>1, IdsAssumption DEF WorksOnOwn, TaskRecord
  <2> QED
    BY <2>1, <2>2, <2>4, <1>1 DEF Register, ErrorIf, DispatchesLast
<1>3. CASE ~(enabled /\ free # NoSlot)
  <2>1. probes' = probes /\ control' = control
    BY <1>3 DEF Register
  <2>2. WorksOnOwn'
    BY <2>1, <1>1 DEF WorksOnOwn, TaskRecord
  <2> QED
    BY <2>1, <2>2, <1>1 DEF Register, ErrorIf, DispatchesLast
<1> QED
  BY <1>2, <1>3

\* The deletion of a task leaves its slot as it is.
LEMMA DeleteTyped ==
  ASSUME TInv, NEW t \in Tcbs, Delete(t)
  PROVE  TInv'
<1> USE DEF TInv
<1>1. task' = [task EXCEPT ![t] = [NewTask EXCEPT !.reused = TRUE]]
  BY DEF Delete
<1>2. [NewTask EXCEPT !.reused = TRUE] \in TaskRecord
  BY ReceivedTyped DEF NewTask, TaskRecord
<1>3. task' \in [Tcbs -> TaskRecord] /\ WorksOnOwn'
  BY <1>1, <1>2 DEF Delete, NewTask, WorksOnOwn
<1> QED
  BY <1>3 DEF Delete, DispatchesLast

\* The invariant holds throughout.
THEOREM TypesKept == Spec => []TInv
<1>1. Init => TInv
  <2> SUFFICES ASSUME Init PROVE TInv
    OBVIOUS
  <2>1. io \in IoRecord /\ DispatchesLast
    BY SizesAssumption, ItersAssumption DEF Init, IoRecord, DispatchesLast, Slots
  <2>2. NewTask \in TaskRecord
    BY ReceivedTyped DEF NewTask, TaskRecord
  <2>3. <<>> \in Seq(Message)
    BY EmptySeq
  <2> QED
    BY <2>1, <2>2, <2>3 DEF Init, TInv, WorksOnOwn, NewTask
<1>2. TInv /\ [Next]_vars => TInv'
  <2> SUFFICES ASSUME TInv, [Next]_vars PROVE TInv'
    OBVIOUS
  <2>1. CASE UNCHANGED vars
    BY <2>1 DEF vars, TInv, DispatchesLast, WorksOnOwn
  <2> QED
    BY <2>1, IoStepTyped, ControlStepTyped, RegisterTyped, DeleteTyped DEF Next
<1> QED
  BY <1>1, <1>2, PTL DEF Spec

\* The loops of the IO task stay inside g_tcb_probes and its counter inside uint16_t; what is in
\* the message buffers was read; a preempted task works on a slot of the table and has a message
\* just while it is to process one.
THEOREM IoTypes == Spec => []TypeOK
<1>1. TInv => TypeOK
  <2> SUFFICES ASSUME TInv PROVE TypeOK
    OBVIOUS
  <2>1. ASSUME NEW i \in Slots, NEW n \in DOMAIN mailbox[i] PROVE mailbox[i][n] \in Message
    BY LenProperties, ElementOfSeq DEF TInv
  <2>2. ASSUME NEW t \in Tcbs
        PROVE  /\ task[t].at \in {"idle", "receive", "process"}
               /\ task[t].at # "idle" => task[t].slot \in Slots
               /\ (task[t].at = "process") = (task[t].local # <<>>)
    BY DEF TInv, WorksOnOwn, TaskRecord
  <2> QED
    BY <2>1, <2>2 DEF TInv, TypeOK, IoRecord
<1> QED
  BY <1>1, TypesKept, PTL

--------------------------------------------------------------------------------
\* Delivery

\* The messages accepted for t, the processed ones first: what Delivery calls accepted[t].
Accepted(t) == processed[t] \o Pending(t)

\* A task that is never deleted has one slot, which holds no other, and has it only after it was
\* created.
StayAlone ==
  \A t \in Staying :
    /\ ~task[t].reused
    /\ \A i, j \in Slots : probes[i] = t /\ probes[j] = t => i = j
    /\ ~task[t].live => \A i \in Slots : probes[i] # t

\* Nothing waits in the message buffer of a free slot: a task does not find messages for another.
FreeEmpty == \A i \in Slots : probes[i] = NULL => mailbox[i] = <<>>

\* A task processes nothing before it has a slot.
Unregistered == \A t \in Staying : get_tcb_probe(t) = NoSlot => processed[t] = <<>>

\* All that is accepted was read, and as long as the dispatch loop has not got to the task's slot
\* it was read before the message in g_io_buffer.
Numbered ==
  \A t \in Staying : \A k \in DOMAIN Accepted(t) :
    /\ Accepted(t)[k].number <= io.read
    /\ io.at = "dispatch" /\ io.slot <= get_tcb_probe(t) => Accepted(t)[k].number < io.read

DInv == StayAlone /\ FreeEmpty /\ Unregistered /\ Numbered

\* A message appended to the last of three sequences is appended to the whole.
LEMMA AppendsLast ==
  ASSUME NEW p \in Seq(Message), NEW l \in Seq(Message), NEW b \in Seq(Message), NEW m \in Message
  PROVE  p \o (l \o Append(b, m)) = Append(p \o (l \o b), m)
<1>1. <<m>> \in Seq(Message) /\ l \o b \in Seq(Message) /\ p \o (l \o b) \in Seq(Message)
  BY ConcatProperties, ReceivedTyped
<1>2. Append(b, m) = b \o <<m>> /\ Append(p \o (l \o b), m) = (p \o (l \o b)) \o <<m>>
  BY <1>1, AppendIsConcat
<1>3. l \o (b \o <<m>>) = (l \o b) \o <<m>>
  BY <1>1, ConcatAssociative
<1>4. p \o ((l \o b) \o <<m>>) = (p \o (l \o b)) \o <<m>>
  BY <1>1, ConcatAssociative
<1> QED
  BY <1>2, <1>3, <1>4

\* Taking the first of a sequence of messages and putting it back before the rest.
LEMMA HeadRejoined ==
  ASSUME NEW b \in Seq(Message), b # <<>>
  PROVE  <<Head(b)>> \o Tail(b) = b
<1>1. Head(b) \in Message /\ Tail(b) \in Seq(Message) /\ <<Head(b)>> \in Seq(Message)
  BY HeadTailProperties, ReceivedTyped
<1>2. Len(<<Head(b)>>) = 1 /\ Len(Tail(b)) = Len(b) - 1 /\ Len(b) \in Nat
  BY HeadTailProperties, LenProperties
<1>3. <<Head(b)>> \o Tail(b) \in Seq(Message) /\ Len(<<Head(b)>> \o Tail(b)) = Len(b)
  BY <1>1, <1>2, ConcatProperties
<1>4. ASSUME NEW j \in 1 .. Len(b) PROVE (<<Head(b)>> \o Tail(b))[j] = b[j]
  <2>1. (<<Head(b)>> \o Tail(b))[j] = IF j <= 1 THEN <<Head(b)>>[j] ELSE Tail(b)[j - 1]
    BY <1>1, <1>2, ConcatProperties
  <2>2. CASE j = 1
    BY <2>1, <2>2
  <2>3. CASE j # 1
    <3>1. j - 1 \in 1 .. Len(Tail(b)) /\ ~(j <= 1)
      BY <2>3, <1>2
    <3>2. Tail(b)[j - 1] = b[(j - 1) + 1]
      BY <3>1, HeadTailProperties
    <3> QED
      BY <2>1, <3>1, <3>2
  <2> QED
    BY <2>2, <2>3
<1> QED
  BY <1>3, <1>4, SeqEqual

\* What is accepted are messages.
LEMMA AcceptedTyped ==
  ASSUME TInv, NEW t \in Staying
  PROVE  /\ processed[t] \in Seq(Message) /\ task[t].local \in Seq(Message)
         /\ Pending(t) \in Seq(Message) /\ Accepted(t) \in Seq(Message)
         /\ Len(Accepted(t)) = Len(processed[t]) + Len(Pending(t))
         /\ \A k \in DOMAIN Accepted(t) : Accepted(t)[k].number \in Nat
<1> DEFINE box == IF get_tcb_probe(t) = NoSlot THEN <<>> ELSE mailbox[get_tcb_probe(t)]
<1>1. processed[t] \in Seq(Message) /\ task[t].local \in Seq(Message)
  BY ReceivedTyped DEF TInv, TaskRecord, Staying
<1>2. box \in Seq(Message)
  BY EmptySeq, SlotFound, SearchesProbes DEF TInv
<1>3. Pending(t) = task[t].local \o box
  BY DEF Pending
<1> HIDE DEF box
<1>4. Pending(t) \in Seq(Message)
  BY <1>1, <1>2, <1>3, ConcatProperties
<1>5. Accepted(t) \in Seq(Message) /\ Len(Accepted(t)) = Len(processed[t]) + Len(Pending(t))
  BY <1>1, <1>4, ConcatProperties DEF Accepted
<1>6. ASSUME NEW k \in DOMAIN Accepted(t) PROVE Accepted(t)[k].number \in Nat
  <2>1. Accepted(t)[k] \in Message
    BY <1>5, LenProperties, ElementOfSeq
  <2> QED
    BY <2>1, SizesAssumption DEF Message
<1> QED
  BY <1>1, <1>4, <1>5, <1>6

\* The slot of a task that is never deleted is the one that holds it.
LEMMA OneSlot ==
  ASSUME StayAlone, NEW t \in Staying, NEW i \in Slots, probes[i] = t
  PROVE  get_tcb_probe(t) = i
BY SlotFound, SearchesProbes DEF StayAlone

\* Numbers stay in order as long as nothing is accepted, and a new message gets the highest.
LEMMA NumberedKept ==
  ASSUME TInv, TInv', Numbered,
         \A t \in Staying : Accepted(t)' = Accepted(t) /\ get_tcb_probe(t)' = get_tcb_probe(t),
         \/ /\ io'.read = io.read
            /\ io'.at = "dispatch" => io.at = "dispatch" /\ io.slot <= io'.slot
         \/ io'.read = io.read + 1
  PROVE  Numbered'
<1> SUFFICES ASSUME NEW t \in Staying, NEW k \in DOMAIN Accepted(t)
             PROVE  /\ Accepted(t)[k].number <= io'.read
                    /\ io'.at = "dispatch" /\ io'.slot <= get_tcb_probe(t) =>
                         Accepted(t)[k].number < io'.read
  BY DEF Numbered
<1>1. /\ Accepted(t)[k].number \in Nat /\ io.read \in Nat /\ io'.read \in Nat
      /\ io.slot \in Nat /\ io'.slot \in Nat /\ get_tcb_probe(t) \in Nat
  <2>1. Accepted(t)[k].number \in Nat
    BY AcceptedTyped
  <2>2. io.read \in Nat /\ io.slot \in Nat /\ io'.read \in Nat /\ io'.slot \in Nat
    <3>1. io \in IoRecord /\ io' \in IoRecord
      BY DEF TInv
    <3> QED
      BY <3>1, SizesAssumption DEF IoRecord, Slots
  <2>3. get_tcb_probe(t) \in Nat
    BY SlotFound, SearchesProbes, SizesAssumption DEF Slots, NoSlot
  <2> QED
    BY <2>1, <2>2, <2>3
<1>2. /\ Accepted(t)[k].number <= io.read
      /\ io.at = "dispatch" /\ io.slot <= get_tcb_probe(t) => Accepted(t)[k].number < io.read
  BY DEF Numbered
<1> QED
  BY <1>1, <1>2

\* A step of a task that is not about slots leaves who has which.
LEMMA SlotsKept ==
  ASSUME DInv, probes' = probes,
         \A t \in Staying : task'[t].live = task[t].live /\ task'[t].reused = task[t].reused,
         \A i \in Slots : probes[i] = NULL => mailbox'[i] = mailbox[i],
         \A t \in Staying : get_tcb_probe(t) = NoSlot => processed'[t] = processed[t]
  PROVE  /\ StayAlone' /\ FreeEmpty' /\ Unregistered'
         /\ \A t \in Staying : get_tcb_probe(t)' = get_tcb_probe(t)
<1>1. \A t \in Staying : get_tcb_probe(t)' = get_tcb_probe(t)
  BY DEF get_tcb_probe
<1> QED
  BY <1>1 DEF DInv, StayAlone, FreeEmpty, Unregistered

\* The abstract steps: nothing is accepted or done, m is accepted for u, u does one.
Still ==
  \A t \in Staying : Accepted(t)' = Accepted(t) /\ Len(processed'[t]) = Len(processed[t])

Takes(u, m) ==
  /\ \A k \in DOMAIN Accepted(u) : Accepted(u)[k].number < m.number
  /\ AddressedTo(m, u)
  /\ \A t \in Staying :
       /\ Accepted(t)' = IF t = u THEN Append(Accepted(t), m) ELSE Accepted(t)
       /\ Len(processed'[t]) = Len(processed[t])

Does(u) ==
  /\ Len(processed[u]) < Len(Accepted(u))
  /\ \A t \in Staying :
       /\ Accepted(t)' = Accepted(t)
       /\ Len(processed'[t]) = IF t = u THEN Len(processed[t]) + 1 ELSE Len(processed[t])

Delivers ==
  \/ Still
  \/ \E u \in Staying, m \in Message : Takes(u, m)
  \/ \E u \in Staying : Does(u)

\* The steps of the IO task outside its dispatch loop.
LEMMA IoElsewhere ==
  ASSUME TInv, TInv', DInv,
         \/ \E fails \in Failures({"read"}) : IoReadNothing(fails)
         \/ \E to \in Ids \cup {Broadcast}, size \in Sizes : IoReadMessage(to, size)
         \/ \E fails \in Failures({"report", "write"}) : IoReport(fails)
         \/ \E fails \in Failures({"announce", "write"}) : IoAnnounce(fails)
         \/ IoDelay
  PROVE  DInv' /\ Still
<1>1. UNCHANGED <<probes, mailbox, task, processed>>
  BY DEF IoReadNothing, IoReadMessage, IoReport, IoAnnounce, IoDelay
<1>2. \A t \in Staying : Accepted(t)' = Accepted(t)
  BY <1>1 DEF Accepted, Pending, get_tcb_probe
<1>3. /\ StayAlone' /\ FreeEmpty' /\ Unregistered'
      /\ \A t \in Staying : get_tcb_probe(t)' = get_tcb_probe(t)
  BY <1>1, SlotsKept
<1>4. \/ io'.read = io.read /\ io'.at # "dispatch"
      \/ io'.read = io.read + 1
  <2>1. ASSUME NEW fails, IoReadNothing(fails) PROVE io'.read = io.read /\ io'.at = "report"
    BY <2>1 DEF TInv, IoRecord, IoReadNothing
  <2>2. ASSUME NEW to, NEW size, IoReadMessage(to, size) PROVE io'.read = io.read + 1
    BY <2>2 DEF TInv, IoRecord, IoReadMessage
  <2>3. ASSUME NEW fails, IoReport(fails) PROVE io'.read = io.read /\ io'.at # "dispatch"
    <3>1. /\ Then("announce").read = io.read /\ Then("announce").at \in {"report", "announce"}
          /\ Then("delay").read = io.read /\ Then("delay").at \in {"report", "delay"}
          /\ Then("announce") \in IoRecord
      BY <2>3, ThenTyped DEF IoReport, TInv
    <3>2. io' \in {[Then("announce") EXCEPT !.iters = 0], Then("delay")}
      BY <2>3 DEF IoReport
    <3>3. \A r \in IoRecord : LET z == [r EXCEPT !.iters = 0] IN z.read = r.read /\ z.at = r.at
      BY DEF IoRecord
    <3> QED
      BY <3>1, <3>2, <3>3
  <2>4. ASSUME NEW fails, IoAnnounce(fails) PROVE io'.read = io.read /\ io'.at # "dispatch"
    <3>1. Then("delay").read = io.read /\ Then("delay").at \in {"announce", "delay"}
      BY <2>4, ThenTyped DEF IoAnnounce, TInv
    <3> QED
      BY <3>1, <2>4 DEF IoAnnounce
  <2>5. ASSUME IoDelay PROVE io'.read = io.read /\ io'.at = "read"
    BY <2>5 DEF TInv, IoRecord, IoDelay
  <2> QED
    BY <2>1, <2>2, <2>3, <2>4, <2>5
<1>5. Numbered'
  BY <1>2, <1>3, <1>4, NumberedKept DEF DInv
<1> QED
  BY <1>1, <1>2, <1>3, <1>5 DEF DInv, Still

\* One slot of the dispatch loop: a message may be accepted for the task of the slot.
LEMMA DispatchDelivers ==
  ASSUME TInv, TInv', DInv, IoDispatch
  PROVE  DInv' /\ (Still \/ \E u \in Staying, m \in Message : Takes(u, m))
<1> DEFINE m == io.message
           i == io.slot
<1>1. /\ i \in Slots /\ i \in Nat /\ m \in Message /\ m.number = io.read /\ io.at = "dispatch"
      /\ io.read \in Nat
  BY SizesAssumption DEF IoDispatch, TInv, IoRecord, DispatchesLast, Slots
<1>2. UNCHANGED <<probes, task, processed>>
  BY DEF IoDispatch
<1>3. io'.read = io.read /\ (io'.at = "dispatch" => io'.slot = i + 1)
  BY ThenTyped DEF TInv, IoDispatch
<1>4. PICK for \in MayBeFor(m, i) :
        mailbox' = IF for /\ Fits(m, mailbox[i])
                   THEN [mailbox EXCEPT ![i] = Append(@, m)] ELSE mailbox
  BY DEF IoDispatch
<1>5. for => probes[i] # NULL /\ \E id \in IdRead(probes[i]) : m.to \in {Broadcast, id}
  BY DEF MayBeFor
<1>6. /\ StayAlone' /\ FreeEmpty' /\ Unregistered'
      /\ \A t \in Staying : get_tcb_probe(t)' = get_tcb_probe(t)
  BY <1>1, <1>2, <1>4, <1>5, SlotsKept DEF TInv
<1>7. CASE mailbox' = mailbox
  <2>1. Still
    BY <1>2, <1>7 DEF Still, Accepted, Pending, get_tcb_probe
  <2>2. Numbered'
    BY <2>1, <1>1, <1>3, <1>6, NumberedKept DEF DInv, Still
  <2> QED
    BY <2>1, <2>2, <1>6 DEF DInv
<1>8. CASE mailbox' # mailbox
  <2>1. for /\ mailbox' = [mailbox EXCEPT ![i] = Append(@, m)]
    BY <1>4, <1>8
  <2>2. i # NoSlot
    BY <1>1, SizesAssumption DEF Slots, NoSlot
  <2>3. ASSUME NEW t \in Staying, probes[i] # t PROVE Accepted(t)' = Accepted(t)
    <3>1. \/ get_tcb_probe(t) = NoSlot
          \/ get_tcb_probe(t) \in Slots /\ get_tcb_probe(t) # i
      BY <2>3, SlotFound, SearchesProbes
    <3>2. get_tcb_probe(t) # NoSlot =>
            mailbox'[get_tcb_probe(t)] = mailbox[get_tcb_probe(t)]
      BY <3>1, <2>1, <1>1 DEF TInv
    <3>3. get_tcb_probe(t)' = get_tcb_probe(t)
      BY <1>6
    <3> QED
      BY <3>2, <3>3, <1>2 DEF Accepted, Pending
  <2>4. CASE probes[i] \notin Staying
    <3>1. Still
      BY <2>3, <2>4, <1>2 DEF Still
    <3>2. Numbered'
      BY <3>1, <1>1, <1>3, <1>6, NumberedKept DEF DInv, Still
    <3> QED
      BY <3>1, <3>2, <1>6 DEF DInv
  <2>5. ASSUME NEW u \in Staying, probes[i] = u
        PROVE  DInv' /\ Takes(u, m)
    <3>1. get_tcb_probe(u) = i /\ i # NoSlot
      BY <2>2, <2>5, <1>1, OneSlot DEF DInv
    <3>2. /\ processed[u] \in Seq(Message) /\ task[u].local \in Seq(Message)
          /\ mailbox[i] \in Seq(Message)
      BY AcceptedTyped, <1>1 DEF TInv
    <3>3. Accepted(u) = processed[u] \o (task[u].local \o mailbox[i])
      BY <3>1 DEF Accepted, Pending
    <3>4. Accepted(u)' = processed[u] \o (task[u].local \o Append(mailbox[i], m))
      <4>1. get_tcb_probe(u)' = i
        BY <3>1, <1>6
      <4>2. mailbox'[i] = Append(mailbox[i], m)
        BY <2>1, <1>1 DEF TInv
      <4> QED
        BY <3>1, <4>1, <4>2, <1>2 DEF Accepted, Pending
    <3>5. Accepted(u)' = Append(Accepted(u), m)
      <4>1. processed[u] \o (task[u].local \o Append(mailbox[i], m))
              = Append(processed[u] \o (task[u].local \o mailbox[i]), m)
        <5> DEFINE p == processed[u]
                   l == task[u].local
                   b == mailbox[i]
        <5>1. p \in Seq(Message) /\ l \in Seq(Message) /\ b \in Seq(Message) /\ m \in Message
          BY <3>2, <1>1
        <5> HIDE DEF p, l, b
        <5>2. p \o (l \o Append(b, m)) = Append(p \o (l \o b), m)
          BY <5>1, AppendsLast, ZenonT(60)
        <5> QED
          BY <5>2 DEF p, l, b
      <4> QED
        BY <3>3, <3>4, <4>1, Zenon
    <3>6. \A k \in DOMAIN Accepted(u) : Accepted(u)[k].number < m.number
      BY <3>1, <1>1 DEF DInv, Numbered
    <3>7. AddressedTo(m, u)
      BY <2>1, <2>5, <1>5 DEF AddressedTo, IdRead, DInv, StayAlone
    <3>8. Takes(u, m)
      BY <3>5, <3>6, <3>7, <2>3, <2>5, <1>2 DEF Takes
    <3>9. Numbered'
      <4> SUFFICES ASSUME NEW t \in Staying, NEW k \in DOMAIN Accepted(t)'
                   PROVE  /\ Accepted(t)'[k].number <= io.read
                          /\ io'.at = "dispatch" /\ i + 1 <= get_tcb_probe(t) =>
                               Accepted(t)'[k].number < io.read
        BY <1>3, <1>6 DEF Numbered
      <4>1. get_tcb_probe(t) \in Nat
        BY SlotFound, SearchesProbes, SizesAssumption DEF Slots, NoSlot
      <4>2. CASE t # u
        <5>1. Accepted(t)' = Accepted(t)
          BY <4>2, <2>3, <2>5
        <5> QED
          BY <5>1, <4>1, <1>1 DEF DInv, Numbered
      <4>3. CASE t = u
        <5>1. ~(i + 1 <= get_tcb_probe(t))
          BY <4>3, <3>1, <1>1
        <5>2. /\ Accepted(u) \in Seq(Message)
              /\ \A j \in DOMAIN Accepted(u) : Accepted(u)[j].number \in Nat
          BY AcceptedTyped
        <5>3. \/ k \in DOMAIN Accepted(u) /\ Accepted(u)'[k] = Accepted(u)[k]
              \/ Accepted(u)'[k] = m
          BY <4>3, <5>2, <3>5, <1>1, AppendProperties, LenProperties
        <5>4. Accepted(u)'[k].number <= io.read
          BY <5>2, <5>3, <3>6, <1>1
        <5> QED
          BY <5>1, <5>4, <4>3
      <4> QED
        BY <4>2, <4>3
    <3> QED
      BY <3>8, <3>9, <1>6 DEF DInv
  <2> QED
    BY <2>4, <2>5, <1>1
<1> QED
  BY <1>7, <1>8

\* The lookup of a task's buffer moves no message.
LEMMA FindDelivers ==
  ASSUME TInv, TInv', DInv, NEW t \in Tcbs, NEW own \in BOOLEAN, FindBuffer(t, own)
  PROVE  DInv' /\ Still
<1>1. /\ UNCHANGED <<probes, mailbox, processed, io>>
      /\ task' = [task EXCEPT ![t].at = "receive", ![t].own = own, ![t].slot = get_tcb_probe(t)]
  BY DEF FindBuffer
<1>2. \A u \in Staying : /\ task'[u].live = task[u].live /\ task'[u].reused = task[u].reused
                         /\ task'[u].local = task[u].local
  BY <1>1 DEF TInv, TaskRecord, Staying
<1>3. Still
  <2> SUFFICES ASSUME NEW u \in Staying PROVE Accepted(u)' = Accepted(u)
    BY <1>1 DEF Still
  <2>1. get_tcb_probe(u)' = get_tcb_probe(u)
    BY <1>1 DEF get_tcb_probe
  <2> QED
    BY <2>1, <1>1, <1>2 DEF Accepted, Pending
<1>4. /\ StayAlone' /\ FreeEmpty' /\ Unregistered'
      /\ \A u \in Staying : get_tcb_probe(u)' = get_tcb_probe(u)
  BY <1>1, <1>2, SlotsKept
<1>5. Numbered'
  <2>1. io.slot \in Nat
    BY DEF TInv, IoRecord, Slots
  <2> QED
    BY <2>1, <1>1, <1>3, <1>4, NumberedKept DEF DInv, Still
<1> QED
  BY <1>3, <1>4, <1>5 DEF DInv

\* A message that is received goes from the task's message buffer to its local one.
LEMMA ReceiveDelivers ==
  ASSUME TInv, TInv', DInv, NEW t \in Tcbs, Receive(t)
  PROVE  DInv' /\ Still
<1> DEFINE i == task[t].slot
<1>1. /\ i \in Slots /\ probes[i] = t /\ task[t].at = "receive" /\ task[t].local = <<>>
      /\ mailbox[i] \in Seq(Message)
  BY DEF Receive, TInv, WorksOnOwn
<1>2. UNCHANGED <<probes, processed, io>>
  BY DEF Receive
<1>3. /\ \A u \in Tcbs : /\ task'[u].live = task[u].live /\ task'[u].reused = task[u].reused
                         /\ u # t => task'[u].local = task[u].local
      /\ \A j \in Slots \ {i} : mailbox'[j] = mailbox[j]
      /\ task'[t].local \o mailbox'[i] = task[t].local \o mailbox[i]
  <2>1. CASE Receivable(t, mailbox[i])
    <3>1. /\ task' = [task EXCEPT ![t].at = "process", ![t].local = <<Head(mailbox[i])>>]
          /\ mailbox' = [mailbox EXCEPT ![i] = Tail(@)] /\ mailbox[i] # <<>>
      BY <2>1 DEF Receive, Receivable
    <3>2. task'[t].local = <<Head(mailbox[i])>> /\ mailbox'[i] = Tail(mailbox[i])
      BY <3>1, <1>1 DEF TInv, TaskRecord
    <3>3. <<Head(mailbox[i])>> \o Tail(mailbox[i]) = mailbox[i]
      BY <3>1, <1>1, HeadRejoined
    <3>4. <<>> \o mailbox[i] = mailbox[i]
      BY <1>1, ConcatEmptySeq
    <3>5. task'[t].local \o mailbox'[i] = task[t].local \o mailbox[i]
      BY <3>2, <3>3, <3>4, <1>1
    <3> QED
      BY <3>1, <3>5, <1>1 DEF TInv, TaskRecord
  <2>2. CASE ~Receivable(t, mailbox[i])
    <3>1. task' = Idle(t) /\ mailbox' = mailbox
      BY <2>2 DEF Receive
    <3>2. \A u \in Tcbs : /\ task'[u].live = task[u].live /\ task'[u].reused = task[u].reused
                           /\ task'[u].local = IF u = t THEN <<>> ELSE task[u].local
      BY <3>1 DEF Idle, TInv, TaskRecord
    <3> QED
      BY <3>1, <3>2, <1>1
  <2> QED
    BY <2>1, <2>2
<1>4. /\ StayAlone' /\ FreeEmpty' /\ Unregistered'
      /\ \A u \in Staying : get_tcb_probe(u)' = get_tcb_probe(u)
  <2>1. \A j \in Slots : probes[j] = NULL => j # i
    BY <1>1, IdsAssumption
  <2> QED
    BY <2>1, <1>2, <1>3, SlotsKept DEF Staying
<1>5. Still
  <2> SUFFICES ASSUME NEW u \in Staying PROVE Accepted(u)' = Accepted(u)
    BY <1>2 DEF Still
  <2>1. get_tcb_probe(u)' = get_tcb_probe(u) /\ u \in Tcbs
    BY <1>4 DEF Staying
  <2>2. CASE u = t
    <3>1. get_tcb_probe(u) = i /\ i # NoSlot
      BY <2>2, <1>1, OneSlot DEF DInv, Slots, NoSlot
    <3>2. Pending(u) = task[t].local \o mailbox[i] /\ Pending(u)' = task'[t].local \o mailbox'[i]
      BY <2>1, <2>2, <3>1 DEF Pending
    <3> QED
      BY <3>2, <1>2, <1>3 DEF Accepted
  <2>3. CASE u # t
    <3>1. get_tcb_probe(u) = NoSlot \/ get_tcb_probe(u) \in Slots \ {i}
      BY <2>3, <1>1, SlotFound, SearchesProbes
    <3> QED
      BY <2>1, <2>3, <3>1, <1>2, <1>3 DEF Accepted, Pending
  <2> QED
    BY <2>2, <2>3
<1>6. Numbered'
  <2>1. io.slot \in Nat
    BY DEF TInv, IoRecord, Slots
  <2> QED
    BY <2>1, <1>2, <1>4, <1>5, NumberedKept DEF DInv, Still
<1> QED
  BY <1>4, <1>5, <1>6 DEF DInv

\* A message that is processed was the first of those accepted and not processed.
LEMMA ProcessDelivers ==
  ASSUME TInv, TInv', DInv, NEW t \in Tcbs, NEW fails, Process(t, fails)
  PROVE  DInv' /\ (Still \/ \E u \in Staying : Does(u))
<1>1. /\ UNCHANGED <<probes, mailbox, io>> /\ task' = Idle(t)
      /\ processed' = [processed EXCEPT ![t] = @ \o task[t].local]
  BY DEF Process
<1>2. /\ task[t].slot \in Slots /\ probes[task[t].slot] = t
      /\ task[t].local \in Received /\ task[t].local # <<>>
  BY DEF Process, TInv, WorksOnOwn, TaskRecord
<1>3. \A u \in Tcbs : /\ task'[u].live = task[u].live /\ task'[u].reused = task[u].reused
                      /\ u # t => task'[u].local = task[u].local
  BY <1>1 DEF Idle, TInv, TaskRecord
<1>4. task'[t].local = <<>> /\ processed'[t] = processed[t] \o task[t].local
  BY <1>1 DEF Idle, TInv, TaskRecord
<1>5. /\ StayAlone' /\ FreeEmpty' /\ Unregistered'
      /\ \A u \in Staying : get_tcb_probe(u)' = get_tcb_probe(u)
  <2>1. \A u \in Staying : get_tcb_probe(u) = NoSlot => u # t
    BY <1>2, SlotFound, SearchesProbes
  <2>2. \A u \in Staying : u # t => processed'[u] = processed[u]
    BY <1>1 DEF TInv
  <2> QED
    BY <2>1, <2>2, <1>1, <1>3, SlotsKept DEF Staying
<1>6. ASSUME NEW u \in Staying, u # t
      PROVE  Accepted(u)' = Accepted(u) /\ processed'[u] = processed[u]
  <2>1. processed'[u] = processed[u] /\ task'[u].local = task[u].local
    BY <1>1, <1>3, <1>6 DEF TInv, Staying
  <2> QED
    BY <2>1, <1>1, <1>5 DEF Accepted, Pending
<1>7. ASSUME t \in Staying
      PROVE  Accepted(t)' = Accepted(t) /\ Len(processed'[t]) = Len(processed[t]) + 1
             /\ Len(processed[t]) < Len(Accepted(t))
  <2> DEFINE p == processed[t]
             l == task[t].local
             b == mailbox[task[t].slot]
  <2>1. p \in Seq(Message) /\ l \in Seq(Message) /\ b \in Seq(Message) /\ Len(l) = 1
    BY <1>2, ReceivedTyped DEF TInv
  <2>2. get_tcb_probe(t) = task[t].slot /\ task[t].slot # NoSlot
    BY <1>2, <1>7, OneSlot DEF DInv, Slots, NoSlot
  <2>3. Accepted(t) = p \o (l \o b)
    BY <2>2 DEF Accepted, Pending
  <2>4. Accepted(t)' = (p \o l) \o (<<>> \o b)
    BY <2>2, <1>1, <1>4, <1>5, <1>7 DEF Accepted, Pending
  <2> HIDE DEF p, l, b
  <2>5. <<>> \o b = b /\ (p \o l) \o b = p \o (l \o b)
    <3>1. <<>> \o b = b
      BY <2>1, ConcatEmptySeq
    <3>2. (p \o l) \o b = p \o (l \o b)
      BY <2>1, ConcatAssociative
    <3> QED
      BY <3>1, <3>2
  <2>6. Len(p \o l) = Len(p) + 1 /\ Len(p \o (l \o b)) = Len(p) + (1 + Len(b))
    <3>1. l \o b \in Seq(Message) /\ Len(l \o b) = Len(l) + Len(b)
      BY <2>1, ConcatProperties
    <3>2. Len(p \o l) = Len(p) + Len(l) /\ Len(p \o (l \o b)) = Len(p) + Len(l \o b)
      BY <2>1, <3>1, ConcatProperties
    <3> QED
      BY <2>1, <3>1, <3>2
  <2>7. Len(p) \in Nat /\ Len(b) \in Nat
    BY <2>1, LenProperties
  <2>8. Len(p) < Len(Accepted(t))
    BY <2>3, <2>6, <2>7
  <2> QED
    BY <2>3, <2>4, <2>5, <2>6, <2>8, <1>4 DEF p, l
<1>8. Still \/ \E u \in Staying : Does(u)
  <2>1. CASE t \in Staying
    <3>1. \A u \in Staying : Len(processed[u]) \in Nat
      BY LenProperties DEF TInv, Staying
    <3>2. Does(t)
      <4> SUFFICES ASSUME NEW u \in Staying
                   PROVE  /\ Accepted(u)' = Accepted(u)
                          /\ Len(processed'[u]) = IF u = t THEN Len(processed[u]) + 1
                                                  ELSE Len(processed[u])
        BY <2>1, <1>7 DEF Does
      <4>1. CASE u = t
        BY <4>1, <2>1, <1>7
      <4>2. CASE u # t
        BY <4>2, <3>1, <1>6
      <4> QED
        BY <4>1, <4>2
    <3> QED
      BY <2>1, <3>2
  <2>2. CASE t \notin Staying
    BY <2>2, <1>6 DEF Still
  <2> QED
    BY <2>1, <2>2
<1>9. Numbered'
  <2>1. io.slot \in Nat
    BY DEF TInv, IoRecord, Slots
  <2> QED
    BY <2>1, <1>1, <1>5, <1>6, <1>7, NumberedKept DEF DInv
<1> QED
  BY <1>5, <1>8, <1>9 DEF DInv

\* A task that gets a slot finds nothing in its message buffer; the others keep theirs.
LEMMA RegisterDelivers ==
  ASSUME TInv, TInv', DInv, NEW t \in Tcbs, NEW fails, Register(t, fails)
  PROVE  DInv' /\ Still
<1> DEFINE free == get_tcb_probe(NULL)
<1>1. /\ UNCHANGED <<mailbox, io, processed>> /\ ~task[t].live
      /\ task' = [task EXCEPT ![t].live = TRUE]
  BY DEF Register
<1>2. \A u \in Tcbs : /\ task'[u].live = (IF u = t THEN TRUE ELSE task[u].live)
                      /\ task'[u].reused = task[u].reused /\ task'[u].local = task[u].local
  BY <1>1 DEF TInv, TaskRecord
<1>3. io.slot \in Nat
  BY DEF TInv, IoRecord, Slots
<1>4. CASE probes' = probes
  <2>1. \A u \in Staying : get_tcb_probe(u)' = get_tcb_probe(u)
    BY <1>4 DEF get_tcb_probe
  <2>2. Still
    BY <2>1, <1>1, <1>2 DEF Still, Accepted, Pending, Staying
  <2>3. StayAlone' /\ FreeEmpty' /\ Unregistered'
    BY <2>1, <1>1, <1>2, <1>4 DEF DInv, StayAlone, FreeEmpty, Unregistered, Staying
  <2>4. Numbered'
    BY <2>1, <2>2, <1>1, <1>3, NumberedKept DEF DInv, Still
  <2> QED
    BY <2>2, <2>3, <2>4 DEF DInv
<1>5. CASE probes' # probes
  <2>1. free \in Slots /\ probes[free] = NULL /\ probes' = [probes EXCEPT ![free] = t]
    BY <1>5, SlotFound, SearchesProbes DEF Register
  <2>2. \A j \in Slots : probes'[j] = IF j = free THEN t ELSE probes[j]
    BY <2>1 DEF TInv
  <2> HIDE DEF free
  <2>3. ASSUME NEW u \in Staying, u # t
        PROVE  /\ get_tcb_probe(u)' = get_tcb_probe(u) /\ Accepted(u)' = Accepted(u)
    <3>1. \A j \in Slots : (probes'[j] = u) = (probes[j] = u)
      BY <2>1, <2>2, <2>3, IdsAssumption DEF Staying
    <3> DEFINE new == {j \in Slots : probes'[j] = u}
               old == {j \in Slots : probes[j] = u}
    <3>2. new = old
      BY <3>1
    <3>3. get_tcb_probe(u)' = get_tcb_probe(u)
      <4>1. /\ get_tcb_probe(u)' =
                 IF new = {} THEN NoSlot ELSE CHOOSE i \in new : \A j \in new : i <= j
            /\ get_tcb_probe(u) =
                 IF old = {} THEN NoSlot ELSE CHOOSE i \in old : \A j \in old : i <= j
        BY DEF get_tcb_probe, NoSlot
      <4> HIDE DEF new, old
      <4> QED
        BY <4>1, <3>2
    <3> QED
      BY <3>3, <1>1, <1>2 DEF Accepted, Pending, Staying
  <2>4. ASSUME t \in Staying
        PROVE  /\ get_tcb_probe(t)' = free
               /\ Accepted(t) = <<>> /\ Accepted(t)' = <<>> /\ processed[t] = <<>>
    <3>1. \A j \in Slots : probes[j] # t
      BY <2>4, <1>1 DEF DInv, StayAlone
    <3>2. get_tcb_probe(t) = NoSlot
      BY <3>1, SlotFound, SearchesProbes
    <3>3. get_tcb_probe(t)' = SlotOf(probes', t)
      BY DEF get_tcb_probe, SlotOf
    <3>4. SlotOf(probes', t) = free
      <4> DEFINE new == SlotOf(probes', t)
      <4>1. \/ new = NoSlot /\ \A j \in Slots : probes'[j] # t
            \/ new \in Slots /\ probes'[new] = t
        BY SlotFound
      <4> HIDE DEF new
      <4>2. new \in Slots /\ probes'[new] = t
        BY <4>1, <2>1, <2>2
      <4>3. new = free
        BY <4>2, <3>1, <2>2
      <4> QED
        BY <4>3 DEF new
    <3>5. task[t].local = <<>>
      BY <3>1 DEF TInv, WorksOnOwn, TaskRecord
    <3>6. processed[t] = <<>> /\ mailbox[free] = <<>>
      BY <2>1, <2>4, <3>2 DEF DInv, Unregistered, FreeEmpty
    <3>7. <<>> \o <<>> = <<>>
      BY ReceivedTyped, ConcatEmptySeq
    <3>8. free # NoSlot
      BY <2>1 DEF Slots, NoSlot
    <3> QED
      BY <3>2, <3>3, <3>4, <3>5, <3>6, <3>7, <3>8, <1>1, <1>2 DEF Accepted, Pending
  <2>5. Still
    BY <2>3, <2>4, <1>1 DEF Still
  <2>6. StayAlone'
    <3> SUFFICES ASSUME NEW u \in Staying
                 PROVE  /\ ~task'[u].reused
                        /\ \A i, j \in Slots : probes'[i] = u /\ probes'[j] = u => i = j
                        /\ ~task'[u].live => \A i \in Slots : probes'[i] # u
      BY DEF StayAlone
    <3>1. CASE u = t
      <4>1. \A j \in Slots : probes[j] # t
        BY <3>1, <1>1 DEF DInv, StayAlone
      <4>2. \A j \in Slots : probes'[j] = t => j = free
        BY <4>1, <2>2
      <4>3. ~task'[u].reused /\ task'[u].live
        BY <3>1, <1>2 DEF DInv, StayAlone, Staying
      <4> QED
        BY <3>1, <4>2, <4>3
    <3>2. CASE u # t
      <4>1. \A j \in Slots : (probes'[j] = u) = (probes[j] = u)
        BY <2>1, <2>2, <3>2, IdsAssumption DEF Staying
      <4>2. task'[u].reused = task[u].reused /\ task'[u].live = task[u].live
        BY <3>2, <1>2 DEF Staying
      <4>3. /\ ~task[u].reused
            /\ \A i, j \in Slots : probes[i] = u /\ probes[j] = u => i = j
            /\ ~task[u].live => \A i \in Slots : probes[i] # u
        BY DEF DInv, StayAlone
      <4> QED
        BY <4>1, <4>2, <4>3
    <3> QED
      BY <3>1, <3>2
  <2>7. FreeEmpty'
    BY <2>2, <1>1, IdsAssumption DEF DInv, FreeEmpty
  <2>8. Unregistered'
    BY <2>3, <2>4, <1>1 DEF DInv, Unregistered
  <2>9. Numbered'
    <3> SUFFICES ASSUME NEW u \in Staying, NEW k \in DOMAIN Accepted(u)'
                 PROVE  /\ Accepted(u)'[k].number <= io.read
                        /\ io.at = "dispatch" /\ io.slot <= get_tcb_probe(u)' =>
                             Accepted(u)'[k].number < io.read
      BY <1>1 DEF Numbered
    <3>1. CASE u = t
      <4>1. DOMAIN <<>> = {}
        OBVIOUS
      <4> QED
        BY <3>1, <2>4, <4>1
    <3>2. CASE u # t
      BY <3>2, <2>3 DEF DInv, Numbered
    <3> QED
      BY <3>1, <3>2
  <2> QED
    BY <2>5, <2>6, <2>7, <2>8, <2>9 DEF DInv
<1> QED
  BY <1>4, <1>5

\* The deletion of a task is not one of those that stay.
LEMMA DeleteDelivers ==
  ASSUME TInv, TInv', DInv, NEW t \in Tcbs, Delete(t)
  PROVE  DInv' /\ Still
<1>1. /\ UNCHANGED <<probes, mailbox, io, processed>> /\ t \notin Staying
      /\ task' = [task EXCEPT ![t] = [NewTask EXCEPT !.reused = TRUE]]
  BY DEF Delete, Staying
<1>2. \A u \in Staying : task'[u] = task[u]
  BY <1>1 DEF TInv, Staying
<1>3. Still
  <2> SUFFICES ASSUME NEW u \in Staying PROVE Accepted(u)' = Accepted(u)
    BY <1>1 DEF Still
  <2>1. get_tcb_probe(u)' = get_tcb_probe(u)
    BY <1>1 DEF get_tcb_probe
  <2> QED
    BY <2>1, <1>1, <1>2 DEF Accepted, Pending
<1>4. /\ StayAlone' /\ FreeEmpty' /\ Unregistered'
      /\ \A u \in Staying : get_tcb_probe(u)' = get_tcb_probe(u)
  BY <1>1, <1>2, SlotsKept
<1>5. io.slot \in Nat
  BY DEF TInv, IoRecord, Slots
<1>6. Numbered'
  BY <1>1, <1>3, <1>4, <1>5, NumberedKept DEF DInv, Still
<1> QED
  BY <1>3, <1>4, <1>6 DEF DInv

\* Every step keeps the invariant and is one of the abstract ones, or none of them.
LEMMA NextDelivers ==
  ASSUME TInv, TInv', DInv, [Next]_vars
  PROVE  DInv' /\ Delivers
<1>1. CASE UNCHANGED vars
  <2>1. UNCHANGED <<probes, mailbox, task, processed, io>>
    BY <1>1 DEF vars
  <2>2. /\ StayAlone' /\ FreeEmpty' /\ Unregistered'
        /\ \A t \in Staying : get_tcb_probe(t)' = get_tcb_probe(t)
    BY <2>1, SlotsKept
  <2>3. Still
    BY <2>1 DEF Still, Accepted, Pending, get_tcb_probe
  <2>4. io.slot \in Nat
    BY DEF TInv, IoRecord, Slots
  <2>5. Numbered'
    BY <2>1, <2>2, <2>3, <2>4, NumberedKept DEF DInv, Still
  <2> QED
    BY <2>2, <2>3, <2>5 DEF Delivers, DInv
<1>2. CASE IoStep
  BY <1>2, IoElsewhere, DispatchDelivers DEF IoStep, Delivers
<1>3. ASSUME NEW t \in Tcbs, ControlPlaneStep(t) PROVE DInv' /\ Delivers
  BY <1>3, FindDelivers, ReceiveDelivers, ProcessDelivers
     DEF ControlPlaneStep, LookUp, GetBuffer, Delivers
<1>4. ASSUME NEW t \in Tcbs, NEW fails, Register(t, fails) PROVE DInv' /\ Delivers
  BY <1>4, RegisterDelivers DEF Delivers
<1>5. ASSUME NEW t \in Tcbs, Delete(t) PROVE DInv' /\ Delivers
  BY <1>5, DeleteDelivers DEF Delivers
<1> QED
  BY <1>1, <1>2, <1>3, <1>4, <1>5 DEF Next

\* In the initial state there is nothing to deliver.
LEMMA InitDelivers ==
  ASSUME Init
  PROVE  DInv /\ \A t \in Staying : Accepted(t) = <<>> /\ Len(processed[t]) = 0
<1>1. ASSUME NEW t \in Staying
      PROVE  /\ get_tcb_probe(t) = NoSlot /\ processed[t] = <<>> /\ Accepted(t) = <<>>
             /\ task[t] = NewTask /\ \A i \in Slots : probes[i] # t
  <2>1. \A i \in Slots : probes[i] # t
    BY IdsAssumption DEF Init, Staying
  <2>2. get_tcb_probe(t) = NoSlot
    BY <2>1, SlotFound, SearchesProbes
  <2>3. processed[t] = <<>> /\ task[t] = NewTask
    BY DEF Init, Staying
  <2>4. Accepted(t) = <<>> \o (<<>> \o <<>>) /\ <<>> \o <<>> = <<>>
    BY <2>2, <2>3, ReceivedTyped, ConcatEmptySeq DEF Accepted, Pending, NewTask
  <2> QED
    BY <2>1, <2>2, <2>3, <2>4
<1>2. StayAlone /\ FreeEmpty /\ Unregistered
  <2>1. \A t \in Staying : ~task[t].reused
    BY <1>1 DEF NewTask
  <2>2. StayAlone /\ Unregistered
    BY <1>1, <2>1 DEF StayAlone, Unregistered
  <2>3. FreeEmpty
    BY DEF Init, FreeEmpty
  <2> QED
    BY <2>2, <2>3
<1>3. Numbered
  <2>1. DOMAIN <<>> = {}
    OBVIOUS
  <2> QED
    BY <2>1, <1>1 DEF Numbered
<1> QED
  BY <1>1, <1>2, <1>3, EmptySeq DEF DInv

\* The abstract steps are those of ControlDelivery.
LEMMA AbstractSteps ==
  ASSUME Delivers
  PROVE  [Delivery!Next]_Delivery!vars
<1> DEFINE accepted == [t \in Staying |-> processed[t] \o Pending(t)]
           done     == [t \in Staying |-> Len(processed[t])]
<1>1. CASE Still
  <2>1. accepted' = accepted /\ done' = done
    BY <1>1 DEF Still, Accepted
  <2> QED
    BY <2>1 DEF Delivery!vars
<1>2. ASSUME NEW u \in Staying, NEW m \in Message, Takes(u, m)
      PROVE  Delivery!Accept(u)
  <2>1. accepted' = [accepted EXCEPT ![u] = Append(@, m)]
    BY <1>2 DEF Takes, Accepted
  <2>2. done' = done
    BY <1>2 DEF Takes
  <2>3. Delivery!Newer(m, u) /\ AddressedTo(m, u)
    BY <1>2 DEF Takes, Delivery!Newer, Accepted
  <2> QED
    BY <2>1, <2>2, <2>3 DEF Delivery!Accept
<1>3. ASSUME NEW u \in Staying, Does(u)
      PROVE  Delivery!Process(u)
  <2>1. accepted' = accepted
    BY <1>3 DEF Does, Accepted
  <2>2. done' = [done EXCEPT ![u] = @ + 1]
    BY <1>3 DEF Does
  <2>3. done[u] < Len(accepted[u])
    BY <1>3 DEF Does, Accepted
  <2> QED
    BY <2>1, <2>2, <2>3 DEF Delivery!Process
<1> QED
  BY <1>1, <1>2, <1>3 DEF Delivers, Delivery!Next

\* The dispatch loop, the message buffers and the three-part receive of a preempted task implement
\* ordered delivery for every task that is never deleted, whatever number of tasks, slots and
\* messages there is, whichever calls fail and whichever other tasks come and go: a task
\* processes only messages that are for it, in the order they were read, none twice, and none
\* that its buffer took is skipped.
THEOREM DeliveryIsOrdered == Spec => DeliveryHolds
<1>1. Init => Delivery!Init
  <2> SUFFICES ASSUME Init PROVE Delivery!Init
    OBVIOUS
  <2> QED
    BY InitDelivers DEF Delivery!Init, Accepted
<1>2. Init => DInv
  BY InitDelivers
<1>3. TInv /\ TInv' /\ DInv /\ [Next]_vars => DInv' /\ [Delivery!Next]_Delivery!vars
  BY NextDelivers, AbstractSteps
<1> QED
  BY <1>1, <1>2, <1>3, TypesKept, PTL DEF Spec, DeliveryHolds, Delivery!Spec

================================================================================
