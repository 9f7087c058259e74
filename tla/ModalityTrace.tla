------------------------------ MODULE ModalityTrace ------------------------------
(***************************************************************************)
(* The recording core of source/modality_probe_trace.c and the kernel      *)
(* hooks of source/include/modality_probe_freertos.h: enabling, excluding, *)
(* registering a probe per task, logging into the probe of the running     *)
(* task, and carrying causality from task to task with a snapshot per      *)
(* context switch.                                                         *)
(*                                                                         *)
(* The file's static variables are the fields of `trace`.  A C function    *)
(* that changes them is an operator from the old value s to the new one;   *)
(* it has the function's name.  Its argument `fails` is the set of outside *)
(* calls (the probe library, the heap, the kernel) that return an error    *)
(* during this step, so every error path is a choice of that set.          *)
(*                                                                         *)
(* The target is a single core: a critical section cannot be preempted, so *)
(* a function that runs inside one is atomic.  The probe library is        *)
(* external: a probe is modelled by a vector clock, clock[p][q] being the  *)
(* number of q's records that precede p's next record.                     *)
(***************************************************************************)
EXTENDS Integers

CONSTANTS
  Tcbs,               \* addresses the kernel uses for the TCBs of application tasks
  IoTcb,              \* the address of the IO task's TCB
  NULL,               \* the null pointer
  Names,              \* task names, closed under StoredName
  AppNames,           \* those the application passes to xTaskCreate and vTraceExcludeTask
  EmptyName,          \* the empty string
  IoName,             \* MPT_CFG_IO_TASK_NAME
  StoredName,         \* [Names -> Names]: pcTaskGetName, cut at configMAX_TASK_NAME_LEN
  Crc,                \* [Names -> Nat]: CRC-16/IBM-3740 of a name
  MaxProbes,          \* MPT_CFG_MAX_PROBES
  MaxExcluded,        \* MPT_CFG_MAX_EXCLUDED_TASKS
  TaskProbeSize,      \* MPT_CFG_TASK_PROBE_SIZE
  StorageSize,        \* MPT_CFG_STORAGE_SIZE
  IncludeIoTask,      \* MPT_CFG_INCLUDE_IO_TASK
  ControlPlaneBuffer, \* MPT_CFG_INCLUDE_CONTROL_PLANE_BUFFER
  UseTraceAssert,     \* MPT_CFG_USE_TRACE_ASSERT
  DeleteTasks,        \* the application calls vTaskDelete
  MayFail,            \* the outside calls that can fail, a subset of Calls
  MaxRecords          \* bound of the model, not of the code: records per probe

Tasks == Tcbs \cup {IoTcb}
Addr  == 0 .. StorageSize - 1      \* a probe is the offset of its storage
Slots == 1 .. MaxProbes            \* g_tcb_probes
NoSlot == 0                        \* get_tcb_probe returned NULL
ExclusionSlots == 1 .. MaxExcluded \* g_excluded_task_probe_ids

\* The outside calls whose failure the code handles.
Calls == {"malloc", "initialize", "produce_snapshot", "merge_snapshot",
          "record", "control_buffer", "xTaskCreate"}

ASSUME TasksAssumption == IoTcb \notin Tcbs /\ NULL \notin Tasks /\ NULL \notin Int
ASSUME NamesAssumption == /\ IoName \in Names /\ AppNames \subseteq Names
                          /\ StoredName \in [Names -> Names]
                          /\ Crc \in [Names -> Nat]
ASSUME SizesAssumption == /\ MaxProbes \in Nat \ {0} /\ MaxExcluded \in Nat \ {0}
                          /\ TaskProbeSize \in Nat \ {0} /\ StorageSize \in Nat
                          /\ MaxRecords \in Nat
ASSUME FlagsAssumption == /\ {IncludeIoTask, ControlPlaneBuffer,
                              UseTraceAssert, DeleteTasks} \subseteq BOOLEAN
                          /\ MayFail \subseteq Calls

VARIABLES
  trace,        \* the static variables of modality_probe_trace.c
  task,         \* the TCB fields the tracer uses
  pxCurrentTCB, \* the kernel's running task
  phase         \* "main" before the scheduler starts, then "run" or "switch";
                \* "fault" after a null pointer was used

vars == <<trace, task, pxCurrentTCB, phase>>

--------------------------------------------------------------------------------
\* Types

Clock == [Addr -> Nat]

ZeroClock == [q \in Addr |-> 0]

\* tcb_probe_s; `control` stands for its two control-plane buffers.
TcbProbe == [tcb : Tasks \cup {NULL}, probe : Addr \cup {NULL},
             snapshot : Clock, control : BOOLEAN]

Trace ==
  [enabled   : BOOLEAN,                   \* g_is_enabled
   error     : BOOLEAN,                   \* g_error_msg # NULL
   current   : Tasks \cup {NULL},         \* g_current_tcb
   prev      : Tasks \cup {NULL},         \* g_prev_tcb
   slots     : [Slots -> TcbProbe],       \* g_tcb_probes
   excluded  : [ExclusionSlots -> Nat],   \* g_excluded_task_probe_ids
   next      : 0 .. StorageSize,          \* g_next_storage_index
   io_handle : {NULL, IoTcb},             \* g_io_task_handle
   clock     : [Addr -> Clock],           \* the probes, in the library's storage
   fault     : BOOLEAN,                   \* a null pointer was dereferenced
   requested : SUBSET Names]              \* ghost: names given an exclusion slot

\* The filter half of the number (its probe id is that of IoTask) and the application tag
\* of a TCB.
Tcb == [live : BOOLEAN, filter : BOOLEAN, tag : Addr \cup {NULL},
        unwanted : BOOLEAN]                \* ghost: created under an excluded name

UnusedTcb == [live |-> FALSE, filter |-> FALSE, tag |-> NULL, unwanted |-> FALSE]

\* The kernel gives a new task no tag, but leaves its number as the memory of the TCB has
\* it: 0 at first, and anything once the memory was that of a deleted task.
DeletedTcb == {[UnusedTcb EXCEPT !.filter = left] : left \in BOOLEAN}

FreeTcbProbe == [tcb |-> NULL, probe |-> NULL, snapshot |-> ZeroClock, control |-> FALSE]

--------------------------------------------------------------------------------
\* Errors

\* vTraceDisable
Disabled(s) == [s EXCEPT !.enabled = FALSE]

prvTraceError(s) == [Disabled(s) EXCEPT !.error = TRUE]

\* Mutant: the assert reports the error but tracing goes on.
AssertOnlyReports(s) == IF UseTraceAssert THEN [s EXCEPT !.error = TRUE] ELSE s

\* A TRACE_ASSERT that fails; compiled out, it does nothing.  It returns from the function,
\* also from inside its critical section: a port may then leave interrupts masked, which the
\* header documents and the model leaves out.
AssertFailed(s) == IF UseTraceAssert THEN prvTraceError(s) ELSE s

--------------------------------------------------------------------------------
\* The tables

First(S) == CHOOSE i \in S : \A j \in S : i <= j

\* The first slot that holds the TCB.
get_tcb_probe(s, tcb) ==
  LET found == {i \in Slots : s.slots[i].tcb = tcb}
  IN  IF found = {} THEN NoSlot ELSE First(found)

\* An empty exclusion slot holds 0, so it "excludes" the id 0.
is_task_excluded(s, id) == \E i \in ExclusionSlots : s.excluded[i] = id

\* The two asserts on the name make the id of an empty name 0.
probe_id_hash(name) == IF name = EmptyName /\ UseTraceAssert THEN 0 ELSE Crc[name]

HashChecked(s, name) == IF name = EmptyName THEN AssertFailed(s) ELSE s

\* Mutant: every exclusion is written to the first slot.
ExcludeOverwrites(s, name) ==
  LET h == HashChecked(s, name)
  IN  [h EXCEPT !.excluded[1] = probe_id_hash(name), !.requested = @ \cup {name}]

vTraceExcludeTask(s, name) ==
  LET free == {i \in ExclusionSlots : s.excluded[i] = 0}
      h    == HashChecked(s, name)
  IN  IF free = {} THEN prvTraceError(h)
      ELSE [h EXCEPT !.excluded[First(free)] = probe_id_hash(name),
                     !.requested = @ \cup {name}]

--------------------------------------------------------------------------------
\* Registering a task

\* Mutant: one byte past the end of g_probe_storage.
StorageLeftOffByOne(s, fails) == s.next + TaskProbeSize <= StorageSize + 1 /\ "malloc" \notin fails

StorageLeft(s, fails) == s.next + TaskProbeSize <= StorageSize /\ "malloc" \notin fails

\* Mutant: the index moves by one instead of the probe's size.
AllocByOne(s, fails) == IF StorageLeft(s, fails) THEN [s EXCEPT !.next = @ + 1] ELSE s

\* Mutant: the index does not move.
AllocInPlace(s, fails) == s

\* The storage is consumed even when no probe comes of it.
alloc_storage(s, fails) ==
  IF StorageLeft(s, fails) THEN [s EXCEPT !.next = @ + TaskProbeSize] ELSE s

\* The probe alloc_probe returns, and what it leaves behind.
NewProbe(s, id, fails) ==
  IF StorageLeft(s, fails) /\ id # 0 /\ "initialize" \notin fails THEN s.next ELSE NULL

alloc_probe(s, id, fails) ==
  LET a == alloc_storage(s, fails)
  IN  IF ~StorageLeft(s, fails) THEN prvTraceError(a)
      ELSE IF id = 0 THEN a
      ELSE IF "initialize" \in fails THEN AssertFailed(a)
      ELSE [a EXCEPT !.clock[s.next] = ZeroClock]

\* Mutant: running out of slots goes unreported.
AddSilently(s, tcb, probe, fails) ==
  LET i == get_tcb_probe(s, NULL)
  IN  IF i = NoSlot THEN s
      ELSE [s EXCEPT !.slots[i] =
              [tcb |-> tcb, probe |-> probe, snapshot |-> s.clock[probe],
               control |-> ControlPlaneBuffer]]

\* Mutant: missing control-plane buffers go unreported.
AddWithoutBuffers(s, tcb, probe, fails) ==
  LET i == get_tcb_probe(s, NULL)
  IN  IF i = NoSlot \/ "produce_snapshot" \in fails THEN prvTraceError(s)
      ELSE [s EXCEPT !.slots[i] =
              [tcb |-> tcb, probe |-> probe, snapshot |-> s.clock[probe],
               control |-> ControlPlaneBuffer /\ "control_buffer" \notin fails]]

\* The first free slot takes the task; its control-plane buffers come from the heap.
add_tcb_probe(s, tcb, probe, fails) ==
  LET i    == get_tcb_probe(s, NULL)
      snap == IF "produce_snapshot" \in fails THEN s.slots[i].snapshot ELSE s.clock[probe]
      add  == [s EXCEPT !.slots[i] =
                 [tcb |-> tcb, probe |-> probe, snapshot |-> snap,
                  control |-> ControlPlaneBuffer /\ "control_buffer" \notin fails]]
  IN  IF i = NoSlot THEN prvTraceError(s)
      ELSE IF "produce_snapshot" \in fails /\ UseTraceAssert THEN prvTraceError(s)
      ELSE IF ControlPlaneBuffer /\ "control_buffer" \in fails THEN prvTraceError(add)
      ELSE add

\* modality_probe_record_event and the assert on its result.
record_event(s, probe, fails) ==
  IF "record" \in fails THEN AssertFailed(s)
  ELSE [s EXCEPT !.clock[probe][probe] = @ + 1]

\* The probe a created task is given: none while disabled or when it is excluded.
ProbeFor(s, name, fails) ==
  IF s.enabled /\ ~is_task_excluded(s, probe_id_hash(name))
  THEN NewProbe(s, probe_id_hash(name), fails) ELSE NULL

\* traceTASK_CREATE; the TCB's share of it is RegisteredTcb.
prvTraceRegisterTaskProbe(s, tcb, name, fails) ==
  LET id    == probe_id_hash(StoredName[name])
      h     == HashChecked(s, StoredName[name])
      a     == alloc_probe(h, id, fails)
      probe == ProbeFor(s, StoredName[name], fails)
  IN  IF ~s.enabled THEN s
      ELSE IF is_task_excluded(s, id) THEN h
      ELSE IF probe = NULL THEN a
      ELSE record_event(add_tcb_probe(a, tcb, probe, fails), probe, fails)

\* Mutant: the filter is not cleared before the task is found to be excluded.
FilterNotCleared(s, memory, name, fails) ==
  [live     |-> TRUE,
   filter   |-> memory.filter \/ ProbeFor(s, StoredName[name], fails) # NULL,
   tag      |-> ProbeFor(s, StoredName[name], fails),
   unwanted |-> name \in s.requested]

\* The TCB of a created task, from what its memory held.  Disabled, the hook leaves the
\* number alone.
RegisteredTcb(s, memory, name, fails) ==
  [live     |-> TRUE,
   filter   |-> IF s.enabled THEN ProbeFor(s, StoredName[name], fails) # NULL
                ELSE memory.filter,
   tag      |-> ProbeFor(s, StoredName[name], fails),
   unwanted |-> name \in s.requested]

--------------------------------------------------------------------------------
\* Logging and context switches, in the name of g_current_tcb

Recording(s) == s.enabled /\ s.current # NULL

prvTraceLogEvent(s, fails) ==
  LET i == get_tcb_probe(s, s.current)
  IN  IF ~Recording(s) THEN s
      ELSE IF i = NoSlot THEN AssertFailed(s)
      ELSE record_event(s, s.slots[i].probe, fails)

prvTraceProduceSnapshot(s, fails) ==
  LET i == get_tcb_probe(s, s.current)
  IN  IF ~Recording(s) THEN s
      ELSE IF i = NoSlot \/ "produce_snapshot" \in fails THEN AssertFailed(s)
      ELSE [s EXCEPT !.slots[i].snapshot = s.clock[s.slots[i].probe]]

\* modality_probe_merge_snapshot
Join(c, d) == [q \in Addr |-> IF c[q] < d[q] THEN d[q] ELSE c[q]]

\* Mutant: the current task's probe is set to the snapshot instead of merged with it.
MergeOverwrites(s, fails) ==
  LET curr == get_tcb_probe(s, s.current)
      prev == get_tcb_probe(s, s.prev)
  IN  IF ~Recording(s) \/ s.prev = NULL \/ curr = NoSlot \/ prev = NoSlot THEN s
      ELSE [s EXCEPT !.clock[s.slots[curr].probe] = s.slots[prev].snapshot]

\* Without the asserts a missing slot is a null pointer that is then used.
prvTraceMergeSnapshot(s, fails) ==
  LET curr == get_tcb_probe(s, s.current)
      prev == get_tcb_probe(s, s.prev)
  IN  IF ~Recording(s) \/ s.prev = NULL THEN s
      ELSE IF curr = NoSlot \/ prev = NoSlot
           THEN IF UseTraceAssert THEN AssertFailed(s)
                ELSE [s EXCEPT !.fault = TRUE]
      ELSE IF "merge_snapshot" \in fails THEN AssertFailed(s)
      ELSE [s EXCEPT !.clock[s.slots[curr].probe] = Join(@, s.slots[prev].snapshot)]

\* Mutant: switches go unnoticed while tracing is disabled.
SwitchedWhileEnabled(s, tcb) ==
  IF ~s.enabled \/ s.current = tcb THEN s
  ELSE [s EXCEPT !.prev = s.current, !.current = tcb]

\* Runs whether or not tracing is enabled.
prvTraceSwitchedTCB(s, tcb) ==
  IF s.current = tcb THEN s ELSE [s EXCEPT !.prev = s.current, !.current = tcb]

\* Mutant: the event is logged before g_current_tcb changes.
LogThenSwitch(s, tcb, fails) ==
  LET logged == prvTraceLogEvent(s, fails)
  IN  IF s.current = tcb THEN logged
      ELSE prvTraceMergeSnapshot(prvTraceSwitchedTCB(logged, tcb), fails)

traceTASK_SWITCHED_IN(s, tcb, fails) ==
  LET switched == prvTraceSwitchedTCB(s, tcb)
      merged   == IF s.current = tcb THEN s ELSE prvTraceMergeSnapshot(switched, fails)
  IN  IF merged.fault THEN merged ELSE prvTraceLogEvent(merged, fails)

\* Mutant: the snapshot is taken before the last event is logged.
SnapshotThenLog(s, fails) == prvTraceLogEvent(prvTraceProduceSnapshot(s, fails), fails)

traceTASK_SWITCHED_OUT(s, fails) ==
  prvTraceProduceSnapshot(prvTraceLogEvent(s, fails), fails)

--------------------------------------------------------------------------------
\* The API and the kernel's hooks

Init ==
  /\ trace = [enabled |-> FALSE, error |-> FALSE, current |-> NULL, prev |-> NULL,
              slots |-> [i \in Slots |-> FreeTcbProbe],
              excluded |-> [i \in ExclusionSlots |-> 0], next |-> 0,
              io_handle |-> NULL, clock |-> [p \in Addr |-> ZeroClock],
              fault |-> FALSE, requested |-> {}]
  /\ task = [t \in Tasks |-> UnusedTcb]
  /\ pxCurrentTCB = NULL
  /\ phase = "main"

\* TRACE_GET_TASK_FILTER(t) & TRACE_GET_FILTER_MASK(): the number of NULL is 0.
Traced(t) == t # NULL /\ task[t].filter

\* Bound of the model, not a guard of the code.
UnderBound == \A p \in Addr : trace.clock[p][p] < MaxRecords

\* Before the scheduler starts the kernel may make the new task the current one.
KernelAddsTask(t) ==
  pxCurrentTCB' \in IF phase = "main" THEN {pxCurrentTCB, t} ELSE {pxCurrentTCB}

\* Mutant: g_is_enabled is set before the IO task is created.
EnabledBeforeIoTask(s) == [vTraceExcludeTask(s, IoName) EXCEPT !.enabled = TRUE]

\* The state in which the IO task is created: tracing is still disabled, so its
\* creation hook registers nothing.
BeforeIoTask(s) == vTraceExcludeTask(s, IoName)

CreateIoTask(s, fails) ==
  IF "xTaskCreate" \in fails THEN prvTraceError(BeforeIoTask(s))
  ELSE [prvTraceRegisterTaskProbe(BeforeIoTask(s), IoTcb, IoName, fails)
          EXCEPT !.io_handle = IoTcb]

\* Mutant: the assert looks at the tracer's current task instead of the kernel's.
TooLateForTracer == UseTraceAssert /\ trace.current # NULL

\* The assert that vTraceEnable comes before vTaskStartScheduler.
TooLate == UseTraceAssert /\ pxCurrentTCB # NULL

\* Whatever failed before, tracing ends up enabled.
vTraceEnable(fails) ==
  LET create == IncludeIoTask /\ trace.io_handle = NULL
      ready  == IF create THEN CreateIoTask(trace, fails) ELSE trace
  IN  /\ phase \in {"main", "run"} /\ UnderBound
      /\ ~trace.enabled
      /\ trace' = IF TooLate THEN prvTraceError(trace) ELSE [ready EXCEPT !.enabled = TRUE]
      /\ IF ~TooLate /\ create /\ "xTaskCreate" \notin fails
         THEN /\ task' = [task EXCEPT ![IoTcb] =
                            RegisteredTcb(BeforeIoTask(trace), task[IoTcb], IoName, fails)]
              /\ KernelAddsTask(IoTcb)
         ELSE UNCHANGED <<task, pxCurrentTCB>>
      /\ UNCHANGED phase

\* Called by a task, by main or by an interrupt handler.
vTraceDisable ==
  /\ phase # "fault"
  /\ trace' = Disabled(trace)
  /\ UNCHANGED <<task, pxCurrentTCB, phase>>

ExcludeTask(name) ==
  /\ phase \in {"main", "run"}
  /\ trace' = vTraceExcludeTask(trace, name)
  /\ UNCHANGED <<task, pxCurrentTCB, phase>>

\* xTaskCreate, by main or by the running task.
TaskCreate(t, name, fails) ==
  /\ phase \in {"main", "run"} /\ ~task[t].live /\ UnderBound
  /\ trace' = prvTraceRegisterTaskProbe(trace, t, name, fails)
  /\ task' = [task EXCEPT ![t] = RegisteredTcb(trace, task[t], name, fails)]
  /\ KernelAddsTask(t)
  /\ UNCHANGED phase

\* vTaskDelete: the tracer defines no hook for it, and the kernel reuses the TCB.
TaskDelete(t) ==
  /\ DeleteTasks
  /\ phase = "run" /\ task[t].live /\ t # pxCurrentTCB
  /\ task' \in {[task EXCEPT ![t] = freed] : freed \in DeletedTcb}
  /\ UNCHANGED <<trace, pxCurrentTCB, phase>>

SwitchOut(fails) ==
  /\ phase = "run" /\ UnderBound
  /\ trace' = IF Traced(pxCurrentTCB) THEN traceTASK_SWITCHED_OUT(trace, fails) ELSE trace
  /\ phase' = "switch"
  /\ UNCHANGED <<task, pxCurrentTCB>>

\* From "main" this is vTaskStartScheduler.
SwitchIn(t, fails) ==
  /\ phase \in {"main", "switch"} /\ task[t].live /\ UnderBound
  /\ trace' = IF Traced(t) THEN traceTASK_SWITCHED_IN(trace, t, fails) ELSE trace
  /\ pxCurrentTCB' = t
  /\ phase' = IF trace'.fault THEN "fault" ELSE "run"
  /\ UNCHANGED task

\* Every other hook: delays, suspends and queue operations of the running task,
\* and those of an interrupt handler, which are logged for the task it interrupted.
KernelHook(fails) ==
  /\ phase \in {"main", "run"} /\ Traced(pxCurrentTCB) /\ UnderBound
  /\ trace' = prvTraceLogEvent(trace, fails)
  /\ UNCHANGED <<task, pxCurrentTCB, phase>>

\* mpt_record_event and its variants on the probe in the task's application tag:
\* not gated by vTraceDisable, and the caller gets the error.
UserRecord(fails) ==
  /\ phase = "run" /\ UnderBound
  /\ task[pxCurrentTCB].tag # NULL
  /\ LET p == task[pxCurrentTCB].tag
     IN  trace' = IF "record" \in fails THEN trace
                  ELSE [trace EXCEPT !.clock[p][p] = @ + 1]
  /\ UNCHANGED <<task, pxCurrentTCB, phase>>

\* The outside calls among these that fail in one step.
Failures(calls) == SUBSET (calls \cap MayFail)

CreateCalls == {"malloc", "initialize", "produce_snapshot", "record", "control_buffer"}

Next ==
  \/ vTraceDisable
  \/ \E name \in AppNames : ExcludeTask(name)
  \/ \E t \in Tcbs : TaskDelete(t)
  \/ \E fails \in Failures({"xTaskCreate"}) : vTraceEnable(fails)
  \/ \E fails \in Failures(CreateCalls), t \in Tcbs, name \in AppNames :
       TaskCreate(t, name, fails)
  \/ \E fails \in Failures({"record", "produce_snapshot"}) : SwitchOut(fails)
  \/ \E fails \in Failures({"record", "merge_snapshot"}), t \in Tasks : SwitchIn(t, fails)
  \/ \E fails \in Failures({"record"}) : KernelHook(fails)
  \/ \E fails \in Failures({"record"}) : UserRecord(fails)

Spec == Init /\ [][Next]_vars

--------------------------------------------------------------------------------
\* Properties

\* The static variables, the TCBs and the kernel's variables keep their types; in
\* particular g_next_storage_index never passes the end of g_probe_storage, and a
\* scheduler that runs has a current task.
TypeOK ==
  /\ trace \in Trace
  /\ task \in [Tasks -> Tcb]
  /\ pxCurrentTCB \in Tasks \cup {NULL}
  /\ phase \in {"main", "run", "switch", "fault"}
  /\ phase # "main" => pxCurrentTCB # NULL

\* Whatever is logged while a traced task runs is logged in its name: the
\* tracer's own idea of the current task is the kernel's.
Attribution ==
  phase = "run" /\ Traced(pxCurrentTCB) => trace.current = pxCurrentTCB

\* A probe that was handed out gains a record only in a step of the task that
\* carries it in its application tag.
RecordsOnlyOwn ==
  [][\A p \in Addr :
       trace'.clock[p][p] > trace.clock[p][p] /\ p < trace.next
         => pxCurrentTCB' # NULL /\ task[pxCurrentTCB'].tag = p]_vars

\* Whoever was deleted and whatever failed, it does so only in a step of a task whose tag it is, or
\* for whose TCB it was registered: a reused TCB's hooks may find the probe of the deleted task
\* that had it before, but no task records for one at another address.
RecordsAtOwnTcb ==
  [][\A p \in Addr :
       trace'.clock[p][p] > trace.clock[p][p] /\ p < trace.next
         => /\ pxCurrentTCB' # NULL
            /\ \/ task[pxCurrentTCB'].tag = p
               \/ \E i \in Slots : /\ trace.slots[i].tcb = pxCurrentTCB'
                                   /\ trace.slots[i].probe = p]_vars

\* What a probe that was handed out, or the snapshot of its slot, is known to follow it follows
\* ever after, whatever fails: no later snapshot, merge or registration takes it back.
NothingForgotten ==
  [][/\ \A p, q \in Addr : p < trace.next => trace.clock[p][q] <= trace'.clock[p][q]
     /\ \A i \in Slots, q \in Addr :
          trace.slots[i].probe # NULL /\ trace'.slots[i].probe = trace.slots[i].probe
            => trace.slots[i].snapshot[q] <= trace'.slots[i].snapshot[q]]_vars

Used(p) == trace.clock[p][p] > 1

\* While tracing is on, the running traced task causally follows everything any
\* task recorded since it first ran: no interaction was lost on the way, also
\* when untraced tasks ran in between.  (Record 1 is the task's creation, which
\* its creator does not log.)
CausalComplete ==
  trace.enabled /\ phase = "run" /\ Traced(pxCurrentTCB)
    => LET own == task[pxCurrentTCB].tag
       IN  \A q \in Addr : Used(q) => trace.clock[own][q] = trace.clock[q][q]

\* The probe of a task in a reused TCB, which only the task itself records into: the hooks find
\* the slot of the task that had the TCB before.
Hidden(p) ==
  \E i \in Slots : /\ trace.slots[i].tcb # NULL /\ trace.slots[i].probe = p
                   /\ get_tcb_probe(trace, trace.slots[i].tcb) # i

\* What is left of that when TCBs are reused: the probe that the running task's hooks record into
\* follows everything recorded in the probes that hooks record into, also across tasks that were
\* deleted since, and whatever failed on the way.
HookedComplete ==
  trace.enabled /\ phase = "run" /\ Traced(pxCurrentTCB)
    => LET i == get_tcb_probe(trace, pxCurrentTCB)
       IN  /\ i # NoSlot
           /\ \A q \in Addr : Used(q) /\ ~Hidden(q) =>
                trace.clock[trace.slots[i].probe][q] = trace.clock[q][q]

\* No probe and no snapshot claims to follow a record that was never made.
CausalSound ==
  /\ \A p, q \in Addr : trace.clock[p][q] <= trace.clock[q][q]
  /\ \A i \in Slots, q \in Addr : trace.slots[i].snapshot[q] <= trace.clock[q][q]

\* The storage of every registered probe lies inside the buffer and overlaps no other.
StorageDisjoint ==
  \A i \in Slots : trace.slots[i].tcb # NULL =>
    /\ trace.slots[i].probe + TaskProbeSize <= StorageSize
    /\ \A j \in Slots : trace.slots[j].tcb # NULL /\ j # i =>
         \/ trace.slots[i].probe + TaskProbeSize <= trace.slots[j].probe
         \/ trace.slots[j].probe + TaskProbeSize <= trace.slots[i].probe

\* The IO task is never traced, although its name is longer than the kernel
\* keeps and the exclusion entry made for it therefore does not match.
IoTaskUntraced == ~Traced(IoTcb)

\* A task whose name was excluded before it was created is not traced while tracing is on,
\* whatever the last task in its TCB was; and never, if no task is deleted.
ExcludedNotTraced ==
  trace.enabled \/ ~DeleteTasks => \A t \in Tasks : task[t].unwanted => ~Traced(t)

\* Once the scheduler runs, tracing that was switched off stays off.
NoRestart == [][phase # "main" /\ ~trace.enabled => ~trace'.enabled]_vars

\* Unless an error was reported, the slot the hooks find for a traced task holds
\* the probe of the task's application tag and, when configured, the
\* control-plane buffers.
Registered(t) ==
  LET i == get_tcb_probe(trace, t)
  IN  /\ i # NoSlot
      /\ trace.slots[i].probe = task[t].tag
      /\ trace.slots[i].control = ControlPlaneBuffer

TracedIsRegistered ==
  ~trace.error => \A t \in Tasks : task[t].live /\ Traced(t) => Registered(t)

\* The last slot of the TCB, which a reuse put behind those of its earlier tasks.
HasLastSlot(t) ==
  \E i \in Slots : /\ trace.slots[i].tcb = t
                   /\ trace.slots[i].probe = task[t].tag
                   /\ trace.slots[i].control = ControlPlaneBuffer
                   /\ \A j \in Slots : trace.slots[j].tcb = t => j <= i

\* Also when TCBs of deleted tasks are reused, a task that was given a probe has it, unless an
\* error was reported, in the last slot of its TCB.  Only a slot from before the reuse, which
\* the lookup finds first, can hide it.
TaggedHasSlot == ~trace.error => \A t \in Tasks : task[t].tag # NULL => HasLastSlot(t)

\* While tracing is on every traced task is such a one: none is traced because of the filter
\* that the last task in its TCB left behind.
TracedHasSlot ==
  ~trace.error /\ trace.enabled =>
    \A t \in Tasks : task[t].live /\ Traced(t) => task[t].tag # NULL /\ HasLastSlot(t)

\* The condition of the asserts of prvTraceMergeSnapshot: when they are compiled
\* out, nothing else keeps a missing slot from being used.
NoNullDereference == phase # "fault"

================================================================================
