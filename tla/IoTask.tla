--------------------------------- MODULE IoTask ----------------------------------
(***************************************************************************)
(* The IO task of source/modality_probe_trace.c and the control plane: the *)
(* loop that reads control messages, copies each into the message buffers  *)
(* of the tasks it is for, sends the report of every probe and now and     *)
(* then its mutator announcements; and the tasks, which process their      *)
(* messages with vTraceProcessControlPlaneMessages.                        *)
(*                                                                         *)
(* The IO task holds no lock while it walks g_tcb_probes: it can be        *)
(* preempted between two slots, and a task between looking up its slot,    *)
(* receiving and processing.  These are the steps of the model.  A task is *)
(* registered inside a critical section, in one step.                      *)
(*                                                                         *)
(* The tracer has no hook for vTaskDelete: the slot of a deleted task      *)
(* keeps the address of its TCB, which the kernel may give to another.     *)
(*                                                                         *)
(* External: FreeRTOS message buffers (a message is stored whole or not at *)
(* all, and one that does not fit the receiver's buffer stays where it is) *)
(* and the transport behind TRACE_IO_READ and TRACE_IO_WRITE.              *)
(***************************************************************************)
EXTENDS Integers, Sequences, SequencesExt

CONSTANTS
  Tcbs,           \* addresses of the TCBs of application tasks
  MayDelete,      \* those whose tasks the application deletes
  NULL,           \* the null pointer
  ProbeId,        \* [Tcbs -> Ids]: TRACE_GET_TASK_PROBE_ID of the first task there
  Ids,            \* probe ids, also those of no task
  Broadcast,      \* MODALITY_PROBE_ID_BROADCAST
  Sizes,          \* sizes of control messages, at most MPT_CFG_IO_TASK_BUFFER_SIZE
  MaxProbes,      \* MPT_CFG_MAX_PROBES
  BufferSize,     \* MPT_CFG_CONTROL_PLANE_BUFFER_SIZE
  LocalSize,      \* MPT_CFG_CONTROL_PLANE_TASK_BUFFER_SIZE
  LengthSize,     \* sbBYTES_TO_STORE_MESSAGE_LENGTH
  AnnounceIters,  \* MPT_CFG_IO_TASK_ITERS_PER_MUTATOR_ANNOUNCEMENT
  ItersRange,     \* 2^16, the values of the uint16_t iters
  UseTraceAssert, \* MPT_CFG_USE_TRACE_ASSERT
  MayFail,        \* the outside calls that can fail, a subset of Calls
  MaxMessages     \* bound of the model, not of the code: control messages read

Slots  == 1 .. MaxProbes \* g_tcb_probes
NoSlot == 0              \* get_tcb_probe returned NULL

\* The outside calls whose failure the code handles.
Calls == {"control_buffer", "read", "report", "announce", "write", "process"}

ASSUME IdsAssumption == ProbeId \in [Tcbs -> Ids] /\ Broadcast \notin Ids /\ NULL \notin Tcbs
                        /\ MayDelete \subseteq Tcbs
ASSUME SizesAssumption == /\ Sizes \subseteq Nat /\ {BufferSize, LocalSize, LengthSize} \subseteq Nat
                          /\ MaxProbes \in Nat \ {0} /\ MaxMessages \in Nat
ASSUME ItersAssumption == AnnounceIters \in Nat /\ ItersRange \in Nat \ {0}
ASSUME CallsAssumption == MayFail \subseteq Calls /\ UseTraceAssert \in BOOLEAN

VARIABLES
  enabled,  \* g_is_enabled
  probes,   \* g_tcb_probes[i].tcb
  control,  \* g_tcb_probes[i] has its message buffer and its local buffer
  mailbox,  \* the messages in g_tcb_probes[i].control_msg_buffer, oldest first
  io,       \* the IO task
  task,     \* whether it exists, had a predecessor; its vTraceProcessControlPlaneMessages, or the
            \* same done by its own code
  processed \* the messages modality_probe_process_control_message was given for it

vars == <<enabled, probes, control, mailbox, io, task, processed>>

NewTask ==
  [live |-> FALSE, reused |-> FALSE, at |-> "idle", own |-> FALSE, slot |-> NoSlot, local |-> <<>>]

Message == [number : 1 .. MaxMessages, to : Ids \cup {Broadcast}, size : Sizes]

--------------------------------------------------------------------------------
\* Helpers

\* prvTraceError: disables tracing.
ErrorIf(failed) == enabled' = (enabled /\ ~failed)

\* TRACE_ASSERT, which does nothing when it is compiled out.
AssertFails(call, fails) == UseTraceAssert /\ call \in fails

get_tcb_probe(t) ==
  LET found == {i \in Slots : probes[i] = t}
  IN  IF found = {} THEN NoSlot ELSE CHOOSE i \in found : \A j \in found : i <= j

AddressedTo(m, t) == m.to = Broadcast \/ m.to = ProbeId[t]

\* TRACE_GET_TASK_PROBE_ID of a slot's tcb.  After a deletion that is memory that was freed, or
\* the id of another task.
IdRead(t) == IF task[t].reused THEN Ids ELSE {ProbeId[t]}

\* The dispatch loop may find that the message is for the task of the slot.
MayBeFor(m, i) ==
  {for \in BOOLEAN :
     IF probes[i] # NULL /\ control[i]
     THEN \E id \in IdRead(probes[i]) : for = (m.to \in {Broadcast, id})
     ELSE ~for}

\* xMessageBufferSend without waiting.
Fits(m, box) ==
  FoldLeft(LAMBDA used, n : used + LengthSize + n.size, LengthSize + m.size, box) <= BufferSize

--------------------------------------------------------------------------------
\* The IO task

\* The loop is over; the next report overwrites the message in g_io_buffer.
GoTo(at) == [io EXCEPT !.slot = 1, !.at = at, !.message = NULL]

\* Mutant: the loop bound is one too high.
ThenOneTooFar(at) == IF io.slot <= MaxProbes THEN [io EXCEPT !.slot = @ + 1] ELSE GoTo(at)

\* The loop over g_tcb_probes; after the last slot the IO task goes on to `at`.
Then(at) == IF io.slot < MaxProbes THEN [io EXCEPT !.slot = @ + 1] ELSE GoTo(at)

\* Mutant: off by one against the range of the counter.
AnnouncementDueLate == io.iters > AnnounceIters + 1

AnnouncementDue == io.iters > AnnounceIters

\* TRACE_IO_READ returns an error, nothing, or bytes that are no control message.
IoReadNothing(fails) ==
  /\ io.at = "read"
  /\ io' = [io EXCEPT !.at = "report"]
  /\ ErrorIf("read" \in fails)
  /\ UNCHANGED <<probes, control, mailbox, task, processed>>

IoReadMessage(to, size) ==
  /\ io.at = "read" /\ io.read < MaxMessages
  /\ io' = [io EXCEPT !.at = "dispatch", !.read = @ + 1,
                      !.message = [number |-> io.read + 1, to |-> to, size |-> size]]
  /\ UNCHANGED <<enabled, probes, control, mailbox, task, processed>>

\* Mutant: the loop ends with the first task the message is for.
DispatchToFirst ==
  /\ io.at = "dispatch"
  /\ \E for \in MayBeFor(io.message, io.slot) :
       /\ mailbox' = IF for /\ Fits(io.message, mailbox[io.slot])
                     THEN [mailbox EXCEPT ![io.slot] = Append(@, io.message)] ELSE mailbox
       /\ io' = IF for THEN GoTo("report") ELSE Then("report")
  /\ UNCHANGED <<enabled, probes, control, task, processed>>

\* One slot of the dispatch loop; a message that does not fit is dropped.
IoDispatch ==
  /\ io.at = "dispatch"
  /\ \E for \in MayBeFor(io.message, io.slot) :
       mailbox' = IF for /\ Fits(io.message, mailbox[io.slot])
                  THEN [mailbox EXCEPT ![io.slot] = Append(@, io.message)] ELSE mailbox
  /\ io' = Then("report")
  /\ UNCHANGED <<enabled, probes, control, task, processed>>

\* Mutant: a failure ends the sweep.
ReportUntilError(fails) ==
  /\ io.at = "report"
  /\ ErrorIf(probes[io.slot] # NULL /\ (AssertFails("report", fails) \/ "write" \in fails))
  /\ io' = IF probes[io.slot] # NULL /\ fails # {} THEN GoTo("delay")
           ELSE IF AnnouncementDue /\ io.slot = MaxProbes
                THEN [Then("announce") EXCEPT !.iters = 0] ELSE Then("delay")
  /\ UNCHANGED <<probes, control, mailbox, task, processed>>

\* io_task_probe_report_iter_fn for one slot; after the last one iters decides.
IoReport(fails) ==
  /\ io.at = "report"
  /\ ErrorIf(probes[io.slot] # NULL /\ (AssertFails("report", fails) \/ "write" \in fails))
  /\ io' = IF AnnouncementDue /\ io.slot = MaxProbes
           THEN [Then("announce") EXCEPT !.iters = 0] ELSE Then("delay")
  /\ UNCHANGED <<probes, control, mailbox, task, processed>>

\* io_task_probe_mutator_announcement_iter_fn for one slot.
IoAnnounce(fails) ==
  /\ io.at = "announce"
  /\ ErrorIf(probes[io.slot] # NULL /\ (AssertFails("announce", fails) \/ "write" \in fails))
  /\ io' = Then("delay")
  /\ UNCHANGED <<probes, control, mailbox, task, processed>>

\* vTaskDelay has elapsed.
IoDelay ==
  /\ io.at = "delay"
  /\ io' = [io EXCEPT !.at = "read", !.iters = (@ + 1) % ItersRange]
  /\ UNCHANGED <<enabled, probes, control, mailbox, task, processed>>

--------------------------------------------------------------------------------
\* The tasks

\* A task is created.  Unless tracing is off it takes the first free slot; without one, or
\* without its buffers, an error is reported.  Why else it may get none is in ModalityTrace.
Register(t, fails) ==
  LET free == get_tcb_probe(NULL)
  IN  /\ ~task[t].live
      /\ task' = [task EXCEPT ![t].live = TRUE]
      /\ IF enabled /\ free # NoSlot
         THEN /\ probes' = [probes EXCEPT ![free] = t]
              /\ control' = [control EXCEPT ![free] = "control_buffer" \notin fails]
         ELSE UNCHANGED <<probes, control>>
      /\ ErrorIf(free = NoSlot \/ "control_buffer" \in fails)
      /\ UNCHANGED <<mailbox, io, processed>>

\* vTaskDelete, by another task at any point of t's.
Delete(t) ==
  /\ t \in MayDelete /\ task[t].live
  /\ task' = [task EXCEPT ![t] = [NewTask EXCEPT !.reused = TRUE]]
  /\ UNCHANGED <<enabled, probes, control, mailbox, io, processed>>

\* Mutant: messages are left alone while tracing is disabled.
FindBufferIfEnabled(t, own) ==
  /\ enabled /\ task[t].live /\ task[t].at = "idle"
  /\ get_tcb_probe(t) # NoSlot /\ control[get_tcb_probe(t)]
  /\ task' = [task EXCEPT ![t].at = "receive", ![t].own = own, ![t].slot = get_tcb_probe(t)]
  /\ UNCHANGED <<enabled, probes, control, mailbox, io, processed>>

\* The lookup, in a critical section; a task without a slot or without buffers gets nothing.
FindBuffer(t, own) ==
  /\ task[t].live /\ task[t].at = "idle"
  /\ get_tcb_probe(t) # NoSlot /\ control[get_tcb_probe(t)]
  /\ task' = [task EXCEPT ![t].at = "receive", ![t].own = own, ![t].slot = get_tcb_probe(t)]
  /\ UNCHANGED <<enabled, probes, control, mailbox, io, processed>>

\* The first part of vTraceProcessControlPlaneMessages.
LookUp(t) == FindBuffer(t, FALSE)

\* pvTraceGetControlPlaneBuffer, by a task that receives and processes by hand.
GetBuffer(t) == FindBuffer(t, TRUE)

\* The message is there and fits the buffer to receive it in: the slot's local one, or the
\* task's own, which is taken to be large enough.
Receivable(t, box) == box # <<>> /\ (task[t].own \/ Head(box).size <= LocalSize)

\* Back to the task's own business.
Idle(t) == [task EXCEPT ![t].at = "idle", ![t].own = FALSE, ![t].local = <<>>]

\* Mutant: the message is copied but stays in the buffer.
ReceivePeeks(t) ==
  /\ task[t].at = "receive"
  /\ LET box == mailbox[task[t].slot]
     IN  task' = IF Receivable(t, box)
                 THEN [task EXCEPT ![t].at = "process", ![t].local = <<Head(box)>>]
                 ELSE Idle(t)
  /\ UNCHANGED <<enabled, probes, control, mailbox, io, processed>>

\* xMessageBufferReceive without waiting.
Receive(t) ==
  /\ task[t].at = "receive"
  /\ LET i == task[t].slot
     IN  IF Receivable(t, mailbox[i])
         THEN /\ task' = [task EXCEPT ![t].at = "process", ![t].local = <<Head(mailbox[i])>>]
              /\ mailbox' = [mailbox EXCEPT ![i] = Tail(@)]
         ELSE /\ task' = Idle(t)
              /\ UNCHANGED mailbox
  /\ UNCHANGED <<enabled, probes, control, io, processed>>

\* modality_probe_process_control_message, in the second critical section.
Process(t, fails) ==
  /\ task[t].at = "process"
  /\ processed' = [processed EXCEPT ![t] = @ \o task[t].local]
  /\ task' = Idle(t)
  /\ ErrorIf(~task[t].own /\ AssertFails("process", fails))
  /\ UNCHANGED <<probes, control, mailbox, io>>

--------------------------------------------------------------------------------
Init ==
  /\ enabled = TRUE
  /\ probes = [i \in Slots |-> NULL]
  /\ control = [i \in Slots |-> FALSE]
  /\ mailbox = [i \in Slots |-> <<>>]
  /\ io = [at |-> "read", slot |-> 1, message |-> NULL, iters |-> 0, read |-> 0]
  /\ task = [t \in Tcbs |-> NewTask]
  /\ processed = [t \in Tcbs |-> <<>>]

\* The outside calls among these that fail in one step.
Failures(calls) == SUBSET (calls \cap MayFail)

IoStep ==
  \/ \E fails \in Failures({"read"}) : IoReadNothing(fails)
  \/ \E to \in Ids \cup {Broadcast}, size \in Sizes : IoReadMessage(to, size)
  \/ IoDispatch
  \/ \E fails \in Failures({"report", "write"}) : IoReport(fails)
  \/ \E fails \in Failures({"announce", "write"}) : IoAnnounce(fails)
  \/ IoDelay

ControlPlaneStep(t) ==
  \/ LookUp(t) \/ GetBuffer(t)
  \/ Receive(t)
  \/ \E fails \in Failures({"process"}) : Process(t, fails)

Next ==
  \/ IoStep
  \/ \E t \in Tcbs : ControlPlaneStep(t)
  \/ \E t \in Tcbs, fails \in Failures({"control_buffer"}) : Register(t, fails)
  \/ \E t \in Tcbs : Delete(t)

\* The IO task's loop is scheduled again and again, its delays end and its reads and
\* writes return; every task processes its messages, one way or the other, again
\* and again.
Fairness == WF_vars(IoStep) /\ \A t \in Tcbs : WF_vars(ControlPlaneStep(t))

Spec == Init /\ [][Next]_vars /\ Fairness

--------------------------------------------------------------------------------
\* Properties

\* The loops stay inside g_tcb_probes, a task that is past its lookup works on a slot,
\* and it holds a message exactly while it has one to process.
TypeOK ==
  /\ enabled \in BOOLEAN
  /\ probes \in [Slots -> Tcbs \cup {NULL}] /\ control \in [Slots -> BOOLEAN]
  /\ \A i \in Slots : \A n \in DOMAIN mailbox[i] : mailbox[i][n] \in Message
  /\ io \in [at : {"read", "dispatch", "report", "announce", "delay"}, slot : Slots,
             message : Message \cup {NULL}, iters : 0 .. ItersRange - 1, read : 0 .. MaxMessages]
  /\ \A t \in Tcbs :
       /\ task[t].at \in {"idle", "receive", "process"}
       /\ task[t].at # "idle" => task[t].slot \in Slots
       /\ (task[t].at = "process") = (task[t].local # <<>>)

\* The tasks that are never deleted.
Staying == Tcbs \ MayDelete

\* The messages accepted for t that it has not processed yet.
Pending(t) ==
  task[t].local \o (IF get_tcb_probe(t) = NoSlot THEN <<>> ELSE mailbox[get_tcb_probe(t)])

Delivery ==
  INSTANCE ControlDelivery WITH
    Receivers <- Staying,
    accepted  <- [t \in Staying |-> processed[t] \o Pending(t)],
    done      <- [t \in Staying |-> Len(processed[t])]

\* The dispatch loop, the message buffers and the three-part receive of a preempted
\* task implement ordered delivery: each task processes messages that are for it, in
\* the order they were read, none twice, and loses none that its buffer took.
DeliveryHolds == Delivery!Spec

HasMailbox(t) == get_tcb_probe(t) # NoSlot /\ control[get_tcb_probe(t)]

ProcessedBy(n, t) == \E k \in DOMAIN processed[t] : processed[t][k].number = n

\* A message that the buffer of a task took is processed by the task, however many
\* others are dropped for lack of space and whatever fails (H 104-106: "Process a
\* control plane message from the task's message queue, if one exists").
AcceptedIsProcessed ==
  \A t \in Staying, n \in 1 .. MaxMessages :
    (\E k \in DOMAIN Pending(t) : Pending(t)[k].number = n) ~> ProcessedBy(n, t)

\* The dispatch of message n begins, t is one of those it is for, and has room for it.
Due(n, t) ==
  /\ io.at = "dispatch" /\ io.slot = 1 /\ io.message.number = n
  /\ HasMailbox(t) /\ AddressedTo(io.message, t)
  /\ Fits(io.message, mailbox[get_tcb_probe(t)])

\* A message that is read is processed by every task it is for that is registered with room
\* for it when the dispatch begins, whatever happens to the slots and mailboxes before its
\* (T 671-697): others may be full, or belong to tasks that are gone.
EndToEnd ==
  \A t \in Staying, n \in 1 .. MaxMessages : Due(n, t) ~> ProcessedBy(n, t)

\* Every slot's probe is reported again and again: no error of a read, a report or a
\* write stops the loop or keeps it from the slots after it.
ReportedAgain == \A i \in Slots : []<>(io.at = "report" /\ io.slot = i)

\* Mutators are announced again and again: the counter gets past its limit before
\* it wraps.
AnnouncedAgain == \A i \in Slots : []<>(io.at = "announce" /\ io.slot = i)

================================================================================
