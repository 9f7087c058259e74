# A TLA+ development of modality-freertos

modality-freertos traces a FreeRTOS application.  It gives every task a *probe*
(a log with a logical clock, provided by the external modality-probe library),
hooks the kernel's trace macros so that whatever a task does is recorded in that
task's probe, and carries causality from task to task at each context switch.
This directory holds TLA+ modules translated from its source, the TLC
configurations that check them and theorems that TLAPS proves about them.

Short names of sources used below:

| name | file |
|---|---|
| T | `src/source/modality_probe_trace.c` |
| H | `src/source/include/modality_probe_trace.h` |
| F | `src/source/include/modality_probe_freertos.h` |
| P | `src/source/include/modality_probe_port.h` |
| U | `src/source/include/modality_probe_macros.h` |
| M | `src/test/tests/common/mock_freertos.c` |
| Q | `src/examples/m3-qemu/modality_probe_io.c` |
| B | `src/examples/m3-qemu/main_blinky.c` |
| E | `src/examples/m3-qemu/main.c` |
| G | `src/examples/m3-qemu/generated_component_definitions.h` |
| V | `src/tools/update-manifest.py` |

## 1. Inventory

### Components

| component | state | operations | hard behaviour | what makes it correct |
|---|---|---|---|---|
| Trace core (T 32-189, 260-631) | `g_is_enabled`, `g_error_msg`, `g_current_tcb`, `g_prev_tcb`, `g_tcb_probes`, `g_excluded_task_probe_ids`, `g_next_storage_index`, `g_io_task_handle` | enable, disable, exclude, register a task, log, snapshot, merge, note a switch | order of log/snapshot/merge in a switch; untraced tasks in between; tables that fill up; a chain of allocations failing half-way; asserts that return inside a critical section; TCB addresses reused | records go to the running task's probe; nothing causal is lost or invented; storage does not overlap; failures are reported |
| FreeRTOS hooks (F) | none of their own; the kernel's `pxCurrentTCB`, the filter half of `uxTaskNumber` | one macro per kernel trace point, gated by the filter | which task a hook speaks for; hooks outside critical sections; hooks in interrupts | the right event for the right task |
| User wrappers (U, T 781-837) | the probe in the TCB's application tag | `mpt_record_event` and 17 typed variants, expectation macros | they are not gated by `vTraceDisable` | a task records only into its own probe |
| Probe id (T 614-631, P, `src/test/crc.py`) | 16 + 16 bits of `uxTaskNumber` | CRC-16/IBM-3740 of the name; packing of filter and id | width and promotion; truncated names; id 0; collisions | the id is the CRC the tools compute |
| Control plane (T 191-258, 663-694) | per slot a message buffer and a local buffer | dispatch by id or broadcast; receive and process | full buffers, messages that fit one buffer and not the other | a message that was accepted is processed once, in order, by its addressee |
| IO task (T 176-189, 633-779) | `g_io_buffer`, `iters` | read, dispatch, report every probe, announce mutators, delay | runs preemptively against registration; partial writes; errors that disable tracing but not the loop | every probe is reported again and again |
| Events and manifest (F 9-80, V, G) | the checked-in manifest | event id and payload of each hook; the tool's tags and type hints | lists kept in step by hand; hooks of refused operations run outside critical sections | the manifest decodes what the hooks log, and a reader of the log is not misled |
| Transport of the example (Q) | two sockets, created on first use | `trace_io_read`, `trace_io_write` | failed creation halts; a read that finds nothing returns a negative number | no ordinary result ends the tracing |
| QEMU example (B, E) | queue, timer, two tasks, network hook | send, receive, blink, sleep | priorities instead of waiting; a full queue; halting asserts | it goes on unless it was halted |
| Mock kernel of the tests (M) | an array of TCBs, the current task | creation, scheduling, queues, buffers | none: sequential | it stands for FreeRTOS in the tests |

Section 7 lists the parts of the repository that have no module.

### How they interact

The application calls the API (H) from `main` or from tasks.  The kernel calls
the hooks (F) synchronously from inside its own functions; each hook that the
filter lets through calls one or two functions of the core, and these run in a
critical section (interrupts masked, single core), so one hook is one atomic
step.  The core reaches the task through its TCB: `uxTaskNumber` holds filter
and probe id, the application tag holds the probe.  The IO task shares
`g_tcb_probes` with the core without a lock, and a message buffer per slot with
the task of that slot.

Two ideas of "the current task" coexist: the kernel's `pxCurrentTCB` and the
tracer's `g_current_tcb`, which follows it only when a *traced* task is switched
in.  Three places name a task's probe: its slot (used by the hooks), its tag
(used by the application) and its probe id (used by the control plane).  Most
properties below say that such duplicates agree when it matters.

### Hazards

PROJECT.json lists them at their lines, each with the properties that would fail
if it bit, or with the reason why no property covers it.

## 2. Modules

| module | role |
|---|---|
| `ModalityTrace` | trace core + hooks + user wrappers: state, actions, properties |
| `MCModalityTrace` | instances for TLC: task addresses as a symmetric set, the real CRC and the kernel's shortening of the names the runs use |
| `ModalityTraceProofs` | lemmas, inductive invariant and theorems about `ModalityTrace` |
| `RegistrationProofs` | theorems about its two tables: who has which slot, who is excluded, who records where |
| `CausalityProofs` | theorems about what the snapshots and merges of its context switches add up to, also with reused TCBs |
| `LeastElement` | the lemma both lookups need: a nonempty set of indices has a least element |
| `ControlDelivery` | abstract: what the control plane promises each task |
| `IoTask` | the IO task's loop and the tasks' side of the control plane; implements `ControlDelivery` |
| `MCIoTask` | instances for TLC: the tasks' probe ids |
| `IoTaskProofs` | the types of `IoTask`, and that it implements `ControlDelivery`, step by step |
| `TraceEvents` | which event the hooks of queue operations log, when, and what the manifest says of it |
| `MCTraceEvents` | instances for TLC: workers as a symmetric set |
| `TraceEventsProofs` | theorems about the queue, the refused operations, the manifest and the reader of the log of `TraceEvents` |
| `PolynomialDivision` | abstract: the CRC a probe id is |
| `ProbeId` | the hash, which implements `PolynomialDivision`, and the two halves of `uxTaskNumber` |
| `ProbeIdProofs` | that the hash divides, and that the halves stay apart |
| `QemuIo` | the example's transport and network hook |
| `QemuExample` | the example's tasks, timer and scheduler, over `QemuIo` |
| `QemuExampleProofs` | theorems about `QemuExample` |

Modules overlap where components meet, one in detail and the others in outline.
The registration of a task is in detail in `ModalityTrace`; `IoTask` has what the
IO task sees of it (slot taken, buffers present or not).  `ModalityTrace` says in
which probe a record lands, `TraceEvents` which event it is.  The loop of the IO
task is in detail in `IoTask`; `QemuIo` has its two calls of the transport, the
calls that `IoTask` treats as external.  `ModalityTrace` is parameterised by the
hash (`Crc`) that `ProbeId` defines and checks.

### ModalityTrace: state

`trace` is a record with the static variables of T as fields; `task` holds, per
TCB address, what the tracer keeps there (the filter half of `uxTaskNumber`, whose other
half is in `ProbeId` and `IoTask`, and the application tag) and whether the kernel uses the TCB; `pxCurrentTCB` is the
kernel's; `phase` is `main` until the scheduler starts, then `switch` between the
switched-out and switched-in hooks, and `run` otherwise (`fault` after a null
pointer was dereferenced).

| field | C |
|---|---|
| `enabled`, `error` | `g_is_enabled`; `g_error_msg # NULL` |
| `current`, `prev` | `g_current_tcb`, `g_prev_tcb` |
| `slots` | `g_tcb_probes` (`control`: both control-plane buffers exist) |
| `excluded` | `g_excluded_task_probe_ids` |
| `next` | `g_next_storage_index` |
| `io_handle` | `g_io_task_handle` |
| `clock` | the probes, as vector clocks in the library's storage |
| `fault` | the result of a failed lookup was used as a pointer |
| `requested` | history: names that were given an exclusion slot |

A probe *is* the offset of its storage, and `clock` is indexed by offset, so two
tasks whose storage overlaps at the same offset really share a clock: that is
what makes `CausalSound` and `RecordsOnlyOwn` sensitive to the allocator.
`clock[p][p]` counts p's records, `clock[p][q]` how many records of q precede
p's next one.  The storage of a probe is `TaskProbeSize` units long.

A C function that changes state is an operator from the old record to the new
one with the function's name.  It takes the set `fails` of outside calls that
return an error during this step; `Next` chooses the set, so each error path of
each call site is explored.  `TRACE_ASSERT` is `AssertFailed`; with
`UseTraceAssert = FALSE` it does nothing, as the macro then does.  A failed assert returns
also from inside a critical section, and a port may then leave interrupts masked.  The comment
above the macro says so; the interrupt mask is not modelled.

A deletion frees the TCB, and the next task may get the same memory.  The kernel gives a new task no
tag, but nothing clears its `uxTaskNumber`, so `TaskDelete` leaves either filter there
(`DeletedTcb`).  The creation hook overwrites it while tracing is enabled and does nothing
otherwise (T 311): `RegisteredTcb` then keeps what the memory held.

### ModalityTrace: actions

| action | code |
|---|---|
| `vTraceEnable` | T 74-129, IO task and its creation hook included |
| `vTraceDisable` | T 131-134; also from `main` and interrupts |
| `ExcludeTask` | T 146-173 |
| `TaskCreate` | `traceTASK_CREATE` (F 82-87) inside `xTaskCreate`: T 301-351, 486-578 |
| `TaskDelete` | `vTaskDelete`: the tracer has no hook for it |
| `SwitchOut` | `traceTASK_SWITCHED_OUT` (F 121-127): log, then snapshot |
| `SwitchIn` | `traceTASK_SWITCHED_IN` (F 110-119): note the switch, merge, log |
| `KernelHook` | each other hook: one `prvTraceLogEvent` for the running task |
| `UserRecord` | `mpt_record_event` and its variants, through the tag |

External, modelled from how the code uses them: the probe library (vector
clocks; each call may fail when `MayFail` allows), the heap, and the kernel
(create, delete, switch; before the scheduler starts a created task may become
`pxCurrentTCB`, by priority).  `vTraceProbeIterator` and the functions of the
IO task and control plane change none of this state but `enabled` and `error`
through `prvTraceError`; they are in `IoTask`.

### Properties

| property | what it says |
|---|---|
| `Attribution` | while a traced task runs, the tracer's current task is the kernel's |
| `RecordsOnlyOwn` | a handed-out probe gains a record only in a step of the task carrying it in its tag |
| `RecordsAtOwnTcb` | the same when TCBs are reused: the running task carries the probe, or it was registered for its TCB |
| `CausalComplete` | while tracing is on, the running traced task follows everything any task recorded since it first ran |
| `HookedComplete` | the same when TCBs are reused: the probe the hooks find for the running task follows everything in the probes hooks find |
| `NothingForgotten` | what a probe or the snapshot of its slot was known to follow it follows ever after |
| `CausalSound` | no probe or snapshot claims to follow a record never made |
| `StorageDisjoint` | storage of registered probes: inside the buffer, no overlap |
| `IoTaskUntraced` | the IO task never gets a probe |
| `ExcludedNotTraced` | while tracing is on a task whose name was excluded before it was created is not traced, whoever had its TCB; without deletions never |
| `TracedIsRegistered` | unless an error was reported, a traced task's slot has the probe of its tag, and its buffers |
| `TaggedHasSlot` | when TCBs are reused: unless an error was reported, a task that was given a probe has such a slot, the last one of its TCB |
| `TracedHasSlot` | and while tracing is on, every traced task is such a one: none is traced because of a left-over filter |
| `NoRestart` | once the scheduler runs, tracing that went off stays off |
| `NoNullDereference` | the asserts of `prvTraceMergeSnapshot` are true |
| `TypeOK` | types |

`CausalComplete` speaks of the records after a task's first.  The first record of
a probe, "task created", is logged in the new probe by the creating task and is
not merged into the creator's: the code makes no causal edge there.

`RecordsOnlyOwn`, `CausalComplete` and `TracedIsRegistered` are about an application that
deletes no task; with a reused TCB the tag and the slot the hooks find name different probes
(`reuse_tag`, section 3).  `RecordsAtOwnTcb`, `HookedComplete`, `TaggedHasSlot` and `TracedHasSlot` say what is left then.  The probe of
a task in a reused TCB is `Hidden`: it is in a slot, but the lookup ends at an earlier one, so
only the task itself records there, through its tag, and no snapshot is ever taken of it.

A task that is created while tracing is disabled, in the TCB of a deleted traced task, has that
task's filter and no tag.  With the asserts this stays without effect: tracing cannot come back
on after the scheduler started, so no hook logs for it (`TracedHasSlot`, `ExcludedNotTraced`).  Without
the asserts it can: then the hooks of the new task, an excluded one as well, find the dead task's slot and
log into its probe, and no error is reported.  Neither property is claimed of that
build; `RecordsAtOwnTcb`, which is, allows such a record because the slot was registered for
the same TCB.

### IoTask: state

| variable | C |
|---|---|
| `enabled` | `g_is_enabled` |
| `probes[i]`, `control[i]` | `g_tcb_probes[i].tcb`; both of its buffers exist |
| `mailbox[i]` | the contents of `g_tcb_probes[i].control_msg_buffer` |
| `io` | where the loop is (`at`), the iterator's index (`slot`), the message in `g_io_buffer`, `iters`, and the number of messages read |
| `task[t]` | whether the task exists, whether its TCB had an owner before; where it is in `vTraceProcessControlPlaneMessages`, the slot it looked up, its `task_local_buffer` |
| `processed[t]` | history: what `modality_probe_process_control_message` was given for t |

A message is a record of its number in the order of reading, its destination and
its size; sizes matter because a FreeRTOS message buffer stores a message whole,
with its length, or not at all, and gives it only to a receiver with room for it.

### IoTask: actions

| action | code |
|---|---|
| `IoReadNothing`, `IoReadMessage` | T 649-668: an error, nothing, no control message; a message |
| `IoDispatch` | T 671-697, one slot per step |
| `IoReport` | T 703, 718-747, one slot per step; after the last T 706-708 |
| `IoAnnounce` | T 709, 749-778, one slot per step |
| `IoDelay` | T 712-714 |
| `Register` | the creation of a task: T 529-578 within the registering critical section; no slot and no buffers if tracing is off or the table is full |
| `Delete` | `vTaskDelete`, which the tracer does not notice |
| `LookUp`, `Receive`, `Process` | the three parts of T 211-256 |
| `GetBuffer` | T 192-209, by a task that then receives into memory of its own and processes by hand (README 440-442) |

The steps are the pieces between which FreeRTOS may preempt: the IO task holds no
critical section while it walks the slots, a task holds none between its lookup,
its receive and its processing.  One report with its write is one step: the write
touches only `g_io_buffer`, which no one else uses.  A message is gone from the
model's `io` when the dispatch ends because the first report overwrites the buffer.

The tracer has no hook for a deletion.  The slot of a deleted task keeps the address
of its TCB, and `TRACE_GET_TASK_PROBE_ID` (T 676) then reads freed memory, or the id
of the task that got the TCB next: `IdRead` leaves the id open, so the dispatch may or may
not take a message to be for such a slot.  A task in a reused TCB takes a second
slot, but its lookups end at the first one, so it drains the dead task's buffer
while its own fills up and drops.  `MayDelete` names the tasks this happens to; the
delivery properties are stated for the others (`Staying`), which have to be served
whatever happens in the slots before theirs.

### IoTask: properties

| property | what it says |
|---|---|
| `DeliveryHolds` | `ControlDelivery`'s specification, with *accepted* = processed plus local plus message buffer: each task gets messages that are for it, in the order they were read, none twice, none lost once accepted |
| `AcceptedIsProcessed` | what a task's message buffer took is processed in the end |
| `EndToEnd` | with room in the buffers, what is read is processed by every addressee that was registered when the dispatch began, both tasks of a broadcast included |
| `ReportedAgain` | every slot is reported infinitely often, whatever fails |
| `AnnouncedAgain` | every slot is announced infinitely often: the counter passes its limit before it wraps |
| `TypeOK` | types; the loops stay inside `g_tcb_probes` |

The refinement mapping needs no auxiliary variable but `processed`.  A dispatch
to one slot is `Accept`, a processing is `Process`, every other step stutters, so a
receive may neither copy a message without removing it nor remove it without
handing it on.

### TraceEvents

One queue, which Init gives any type the kernel distinguishes (queue of one or
two items, binary and counting semaphore, mutex, recursive mutex), two tasks and
interrupt handlers.  The kernel's generic queue functions are external; their
steps are the pieces between which a task can be preempted, because that decides what
a hook logs:

* a successful operation (`Perform`), also one in an interrupt handler (`FromIsr`), has its
  hook in the critical section of the change, before it;
* a refused one leaves the critical section first, then the hook's argument
  `uxMessagesWaiting` is read (`HookReads`), then the record is made
  (`HookLogsFailed`): other tasks and handlers may change the queue at both places;
* one that waits runs its hook with the scheduler suspended (`HookLogsBlocked`), so only
  interrupt handlers come between.

`TRACE_EVENT` is F's list, offset by offset; `ManifestRow` is what V makes of an
entry; `Manifest` are the rows of G.  The assumption `ManifestIsCurrent` says that G
is what V makes of F.  The history `reader` is what a reader of the log, who knows
only rows and payloads, believes the fill of the queue to be; it is `current` as
long as no operation went unlogged because an untraced task was running.

| property | what it says |
|---|---|
| `DecodedByManifest` | a logged event has one row, and its class and tags say what happened |
| `LogTellsFill` | the reader of the log knows the fill of the queue |
| `RefusalExplained` | the payload of a refused operation is the fill that refused it, unless somebody changed the queue in the gap before the hook; for a waiting one only an interrupt handler can have |
| `HintsMatchPayload` | the row has a payload type exactly if the hook gives a payload (violated) |
| `TypeOK` | the fill within the length, a mutex held or available, waiting tasks not running |

### ProbeId

A value of any of C's types is the set of the positions of its ones, at its real width.  A
step hashes one byte, in any of the two promotions C allows for a `char`, with each
assignment truncated to its type's width.  `PolynomialDivision` is the definition of
CRC-16/IBM-3740: a byte enters the register and is divided bit by bit; a byte of the code's loop is
one of its bytes.  Afterwards the two setters of `uxTaskNumber` run on any earlier value.

| property | what it says |
|---|---|
| `HashIsRemainder` | `PolynomialDivision`'s specification: the loop computes the CRC, byte by byte |
| `IdsAgree` | it gives every id the tests and the example state |
| `FieldsApart` | probe id and filter never disturb one another |

### QemuIo and QemuExample

`QemuIo` has `trace_io_read` and `trace_io_write` (Q 90-147) with the sockets they
create on first use and what the IO task does with their result, and
`vApplicationIPNetworkEventHook` (E).  `QemuExample` adds `main_blinky`: one action
per piece of a task between two kernel calls, each enabled only while no task of
higher priority is ready (`Runs`), and a tick that may come between any two of
them.  `vAssertCalled` and the malloc hook loop for ever with interrupts off: the
whole application is then `halted`.

| property | what it says |
|---|---|
| `SendFailsOnlyInSleep` | TX's send without waiting time is refused only while Rx sleeps: Rx's priority makes room otherwise |
| `TracingSurvives` | reads that find nothing, interrupted ones, the network going up and down and missing sockets never end the tracing; a lasting error does |
| `BlinksAgain` | unless halted, Rx blinks again and again, although the timer's item sits in the queue when it wakes |
| `IoAgain` | unless halted, the IO task gets to its reports again and again |
| `TypeOK` | types; one socket for each direction, however many reads and writes |

## 3. Runs

States are distinct states, after symmetry reduction where the configuration has
a SYMMETRY (the application's TCBs of `ModalityTrace` and the workers of
`TraceEvents`: both specs treat them alike, and no liveness is checked there).

| run | states | question |
|---|---|---|
| `core` | 0.19 M | four tasks for three slots, the IO task, exclusions and the empty name, no outside failure: is causality kept in every order of creation, exclusion, switch, hook, user record and disable, do the excluded stay out, is a full table reported? |
| `failures` | 0.77 M | every outside call may fail anywhere, tasks are deleted and their TCBs reused: is what the hooks still record causally complete, does a filter left in a TCB get anyone traced, an excluded task even, is each failure reported? |
| `no_asserts` | 0.77 M | asserts compiled out, silent failures, restarts of tracing, deletion and reuse of TCBs until slots and storage run out: do records still go to the own TCB's probes, is nothing invented, forgotten or shared? |
| `long_name` | violated | exclusion of a name longer than the kernel keeps |
| `reuse_tag` | violated | the tag after a TCB was reused |
| `missing_slot` | violated | merge without a slot when asserts are compiled out |
| `io_task` | 0.21 M | two messages to either task, both or nobody, one task deleted and created again at will, every outside call failing at will: refinement, delivery, reports and announcements |
| `long_message` | violated | a message larger than the task's local buffer |
| `events` | 0.45 M | every type of queue, two tasks, interrupt handlers: does the manifest decode the log, does the log tell the truth? |
| `event_hints` | violated | payload types of the manifest |
| `probe_id` | 15 k | does the hash implement polynomial division, does it give the known ids, do the fields stay apart? |
| `example` | 35 k | the example, every outside call failing at will: does it go on? |

Bounds.  `MaxRecords` of `ModalityTrace` bounds the records per probe (guard
`UnderBound`, and it is the only bound in a guard).  A task's creation, its first switch in, one
event and its switch out are 4 records, which each of the three passing runs allows.  Three traced tasks
are the least with which a task can miss a switch of two others; in `core` the IO task adds
the untraced one, and the fourth task finds the table full.  `failures` has two TCBs, each of which
may have several tasks one after the other, and two slots: both of one TCB, the second hidden, or one each.  Two exclusions
suffice to see their table empty, partly and completely filled.
`StorageSize` in `no_asserts` is no multiple of the probe size, so that the last
unit is too small for a probe.  Every run uses the real CRC values, and names
whose shortened forms differ from them.

`MaxMessages` of `IoTask` (the guard of `IoReadMessage`) bounds the
control messages read, not the rounds of the loop, which go on for ever.  Two messages
show order and, with `BufferSize` for one, an overflow: a task can hold one in its local
buffer while the other waits, or lose the second.  Two tasks and slots show a task registered
behind and ahead of the dispatch loop, a dangling slot before or after a live one,
and a table full of the slots of one TCB.
`ItersRange` 2 stands for 2^16 with an announcement period of 0, so the limit is below
the wrap as 200 is below 65535.

`probe_id` hashes every string of up to three bytes from zero and the powers of two, and every
name the repository gives an id for.  That is a sample of the bytes and registers; the theorems
(section 5) are about all.  For the ids it is complete: they are of ten fixed names.

`example` counts time in half sending periods (`Period` 2, `Sleep` 10: 200 and 1000
ticks of a millisecond), so that a tick can fall between a period's end and the task's reaction.
`MaxLate` bounds how late the timer and TX may run, as on a processor that is not overloaded.

`CHECK_DEADLOCK FALSE` is used only with the asserts compiled out, where
`fault` ends the behaviour as a processor exception would.

Every property of a passing run has a mutant in PROJECT.json: an operator just
before the definition it replaces (comments start with "Mutant"), in the way a
plausible bug would change it, with which TLC finds the property violated.

### Where documentation and code disagree

* `long_name`: H 89-92 promises that an excluded name is not traced.  Exclusion
  hashes the name it is given, registration the name the kernel keeps
  (`configMAX_TASK_NAME_LEN`, 12 in every configuration here).
* `reuse_tag`: README 349-350 promises the task's probe in the application tag.
  After a TCB is reused the hooks use the deleted task's slot, the tag the new probe.
* `missing_slot`: with asserts compiled out `prvTraceMergeSnapshot` (T 402) uses a
  null slot after the slots ran out and tracing was enabled again.
* `long_message`: the README's configuration reads control messages of up to 256
  bytes (253) and gives a task 128 bytes for one (258).  A message in between is
  accepted into the task's buffer, then never received, and everything after it
  waits behind it.  H 104-107 promises that a message is processed if one exists.

* `event_hints`: V says of its list (V 16) that it has the events without a payload,
  and compares the list with names it has taken the prefix off (V 41, 44), so the mutex
  entries (V 19-24) never match.  G 390-448 gives them a U32 payload that no hook logs.

Noted while reading, in code that the modules describe as it is:

* `vTraceEnable` sets `g_is_enabled` (T 126) after its own `prvTraceError`.
* On the real kernel `pxCurrentTCB` is set by the first `xTaskCreate`, so the assert
  "before vTaskStartScheduler" (T 84) also refuses a `vTraceEnable` that follows a creation.
* B 118-121 says that the queue is always empty when TX sends; it is not while Rx
  sleeps, because the timer fills it (`SendFailsOnlyInSleep` states what does hold).
* The example's FreeRTOSConfig.h spells `configCHECKFORSTACK_OVERFLOW` (51), which the
  kernel does not know, so `vApplicationStackOverflowHook` is never called.
* README 330-342 describes the two values of `MPT_CFG_STATIC_ALLOCATION` twice, the
  first time exchanged, and mentions `TRACE_FREE`, which nothing calls.

## 4. Fairness

The core is passive: it promises nothing unless the application and the kernel
call it, so all properties of `ModalityTrace` are safety and its spec has no
fairness.

`IoTask` assumes weak fairness of two things:

* `IoStep`.  The loop (T 647-715) never blocks but in `vTaskDelay`, which ends, and
  in the transport's calls, which must return.  At `tskIDLE_PRIORITY + 1` (README)
  the IO task is scheduled as long as the tasks above it block from time to time, as
  an application that wants its trace sent has to see to.  Fairness is of the loop
  as a whole: it never says how a read ends, so messages need not arrive and calls
  may fail for ever.
* `ControlPlaneStep(t)` for each task.  The library never processes a message by
  itself, so a task that wants its messages calls `vTraceProcessControlPlaneMessages`
  in its loop, or receives from its buffer itself (README 440-442); `EndToEnd` and `AcceptedIsProcessed` depend on that,
  `ReportedAgain` and `AnnouncedAgain` only on the IO task.

The other specification with fairness is that of `QemuExample`:

* Weak fairness of the tick, the timer task, the network hook, the start of
  the scheduler and the end of the IO task's delay: nothing of higher priority
  keeps these from happening.
* Strong fairness of TX, Rx and the IO task's reads and writes: they are disabled again
  and again while tasks of higher priority are ready.  One that is again and again the
  one to run does run, since the scheduler picks the highest priority and gives turns to equals
  (`configUSE_PREEMPTION` and `configUSE_TIME_SLICING` are 1).  That the processor has time left at
  all is `MaxLate`: without it no task of the lowest priority is promised anything.

`TraceEvents` and `ProbeId` have safety properties only.

## 5. Proofs

Every safety property of the passing runs is a theorem, for all values of the constants,
except `IdsAgree`.

| theorem | module | statement | beyond the modules' assumptions |
|---|---|---|---|
| `TypeCorrect` | `ModalityTraceProofs` | `Spec => []TypeOK` | |
| `StorageIsDisjoint` | | `Spec => []StorageDisjoint` | |
| `CausalityIsSound` | | `Spec => []CausalSound` | |
| `AttributionHolds` | | `Spec => []Attribution` | |
| `IoTaskIsUntraced` | | `Spec => []IoTaskUntraced` | |
| `NoRestartWithAsserts` | | `Spec => NoRestart` | `UseTraceAssert` |
| `ExcludedAreNotTraced` | `RegistrationProofs` | `Spec => []ExcludedNotTraced` | `NamesFit`, `UseTraceAssert \/ ~DeleteTasks` |
| `RegistrationIsComplete` | | `Spec => []TracedIsRegistered` | `~DeleteTasks` |
| `RecordsAreOwn` | | `Spec => RecordsOnlyOwn` | `~DeleteTasks` |
| `RegistrationSurvivesReuse` | | `Spec => []TaggedHasSlot` | |
| `TracedHaveSlots` | | `Spec => []TracedHasSlot` | `UseTraceAssert` |
| `RecordsAreAtOwnTcb` | | `Spec => RecordsAtOwnTcb` | |
| `CausalitySurvivesReuse` | `CausalityProofs` | `Spec => []HookedComplete` | `UseTraceAssert` |
| `CausalityIsComplete` | | `Spec => []CausalComplete` | `UseTraceAssert`, `~DeleteTasks` |
| `NullIsNotUsed` | | `Spec => []NoNullDereference` | `UseTraceAssert` |
| `NothingIsForgotten` | | `Spec => NothingForgotten` | |
| `IoTypes` | `IoTaskProofs` | `Spec => []TypeOK` | |
| `DeliveryIsOrdered` | | `Spec => DeliveryHolds`: `IoTask` implements `ControlDelivery` | |
| `EventsTypes` | `TraceEventsProofs` | `Spec => []TypeOK` | |
| `RefusalsAreExplained` | | `Spec => []RefusalExplained` | |
| `ReaderKnowsFill` | | `Spec => []LogTellsFill` | |
| `EventsAreDecoded` | | `Spec => []DecodedByManifest` | |
| `ExampleTypes` | `QemuExampleProofs` | `Spec => []TypeOK` | |
| `SendFailsInSleep` | | `Spec => []SendFailsOnlyInSleep` | |
| `TracingEndsOnError` | | `Spec => []TracingSurvives` | |
| `HashDivides` | `ProbeIdProofs` | `Spec => HashIsRemainder`: the hash implements `PolynomialDivision` | |
| `FieldsStayApart` | | `Spec => []FieldsApart` | |

### Assumptions

The modules' named ASSUMEs give the constants their types, say that the special
values (NULL, the IO task's TCB, the idle task, the broadcast id) are none of the ordinary ones,
and, in `TraceEvents`, that the manifest is what the tool makes of F.  TLC evaluates
them in each run.  The bounds of the guards (`MaxRecords`, `MaxMessages`, `MaxLate`) are
any natural numbers in the proofs, so the first two exclude no finite behaviour; `MaxLate` is
the promise that the processor is not overloaded, whatever its value.

The three other conditions are on the application or the build, and for each a violated
run shows why it is there:

* `~DeleteTasks`: the application deletes no task.  The tracer has no hook for a deletion, and
  with a reused TCB slot and tag name different probes (`reuse_tag`).  `RegistrationSurvivesReuse`, `TracedHaveSlots`,
  `RecordsAreAtOwnTcb` and `CausalitySurvivesReuse` say what holds without this condition.
* `NamesFit`: the kernel keeps the names of the application's tasks whole.  If not, an exclusion
  is of another name (`long_name`).
* `UseTraceAssert`: without the asserts a switch merges through a missing slot (`missing_slot`),
  and tracing may be switched on again after switches that took no snapshot, or when a
  task runs whose filter was left in its TCB by a deleted one.

### ModalityTrace

No listed property is inductive alone.  `Good(s)`, a predicate of the
`trace` record, adds three facts: every slot in use lies below
`g_next_storage_index` (`SlotsInside`), slots are pairwise apart (`SlotsApart`), and
nothing is known of storage not yet handed out (`FreshUnknown`).  The last one is
what soundness rests on: initialising a probe sets its clock to zero, which would
leave others knowing more of it than it recorded if they knew anything.  One lemma
per C function shows that it *keeps* `Good` (`Keeps(s, r)`: Good, storage never
given back, current task and IO handle unchanged, tracing not switched on); lemmas
compose with `KeepsTwice` as the functions call one another.

`IInv` adds what the kernel contributes: tags are allocated probes (`TagsInside`),
the running task exists and the IO task is created once (`KernelTables`),
`Attribution` and `IoTaskUntraced`.  `Attribution` needs `KernelTables`, because
only a TCB not in use is written by a creation and hence the running task's filter
does not change under it.  There is one step lemma per action that touches the
kernel's variables and one (`QuietStep`) for all others; `NextIInv` collects them,
and PTL turns them into `Spec => []IInv`.

*Exclusion.*  `ExcludedNotTraced` speaks of names that got an exclusion slot; what a
creation looks up is an id.  `Remembered` connects them: the id of each such name is found
in the table, unless it is 0, which no probe can have.  A full table is reported and
overwrites nothing (`ExcludeEffect`).  So a task created under such a name has no tag
(`ExcludedUntagged`); that it is not traced either needs `Written`: before the scheduler starts and
as long as tracing is on, a task whose filter is set has a tag.  Once a TCB can have been reused, tracing that is off
stays off (`FiltersAreWritten`); until then the memory of every TCB not in use still has a clear filter.

*Registration.*  `OInv` says who owns what: a slot in use belongs to a task that exists
and holds the probe of its tag (`SlotTags`), exactly the tasks with a probe pass the
filter (`Carried`), the tracer's current task is a traced one (`CurrentTraced`), and
`TracedIsRegistered`.  The other way round from `TracedIsRegistered`, `SlotTags` is
what a hook relies on when it finds a slot by the TCB's address and records into its probe, and it is
what reuse of a TCB would break.  `AddEffect` says that `add_tcb_probe` fills one free slot or
reports that it did not, whichever allocation of its chain failed.  `RecordsAreOwn` follows
with `Attribution`: a hook's record goes to the slot of the tracer's current task, which
is the running one, and the probe of that slot is the task's tag.

*Reused TCBs.*  Slots are filled from the first on and never freed (`Packed`), so a new slot
comes after all others of its TCB: with the lookup's first-slot rule this gives `TaggedHasSlot`, with `Written`
also `TracedHasSlot`, and
that the slot found for a TCB stays the one that is found (`StillFound`) and that a hidden probe stays
hidden.  For `RecordsAtOwnTcb` a probe *belongs* to a TCB if its task carries it or a slot
has both (`Belongs`); hooks record where the lookup leads, which belongs to the
tracer's current task, and by `Attribution` that is the running one.  Before the scheduler starts the tracer
has no current task (`MainIdle`), so a hook in `main` records nothing.

*Causality.*  `SwitchIn` merges one snapshot, that of the last traced task, and yet the
task that comes in is to follow everybody.  The invariant (`Caught`) is that this snapshot
knows everything: while tracing is on and there is a current task, the probe found for it knows each
record made in a probe that is not hidden (`Knows`), and, unless that task is running, its snapshot does too
(`Stored`).  "That task" is the traced one: a TCB's next owner may be excluded, and run
untraced while `g_current_tcb` still holds its address (`Running`).  Untraced tasks in between record nothing and
leave both alone; an error
switches tracing off, and with the asserts it does not come back, which is why
`Caught` may be conditional on `trace.enabled`.  `NoneUsed` is the beginning: before a traced
task has run, no probe has more than its creation.  A record through the tag is the one case that the lookup
does not decide; `PInv` shows that it goes to the probe of some slot of the task's TCB (`Placed`), so
either to the one the hooks find or to a hidden one.  Only tracing that is off for good leaves a task
with a tag without such a slot; before the scheduler starts tracing may come back, but no TCB has had
an earlier task then (`MainLive`).  `PInv` speaks of tags and not of filters (`Tagged`), since a filter may be a
dead task's.  `NoFault` is that the
asserts stop a switch before it uses a missing slot; it is `NullIsNotUsed` as well.  If no task is deleted,
`OInv` leaves no probe hidden, and `CausalComplete` is what is left of `HookedComplete`.

*Nothing forgotten.*  Records and merges make clocks grow; a snapshot is replaced by its probe's clock, so it
grows if it was never ahead of it (`Behind`).  That needs what a slot holds before it is
taken: without the asserts a task's failed first snapshot leaves the slot's old one there,
which must be empty.  Initialising a probe resets a clock, but not one that was handed out.

### IoTask

`TInv` holds the types and two relations between the loop and the tasks: the message that is
dispatched is the last one read, and a task preempted between lookup, receive
and processing works on a slot that holds it (`WorksOnOwn`).

The refinement maps *accepted* to the processed messages followed by the local and the slot's buffer.
A step of the loop or of a task is shown to be one of three things for all staying tasks at once
(`Delivers`): nothing changes, one task accepts one message, one task processes one.  That takes `DInv`:

* `StayAlone`: a staying task has one slot.  Its buffer is then drained by no one else and
  filled once per message.
* `FreeEmpty`: the buffer of a free slot is empty, so a task registers with nothing accepted.
* `Unregistered`: a task without a slot has processed nothing.
* `Numbered`: what a task accepted was read, and as long as the dispatch has not passed its
  slot it is older than the message being dispatched.  So the order of acceptance is the
  order of reading and no message is accepted twice.

Slots of deleted tasks may be anywhere in the table; `IdRead` leaves open what is read through
them, and the proof never asks.

### TraceEvents

`EInv` adds to the types what a refused operation still knows (`RefusedOK`): until somebody moves
the queue its fill is the one that refused, and so is the payload the hook read; with the scheduler
suspended only an interrupt handler can have moved it, because such a task is the
running one (`RunsOK`).

The log is decoded in three stages.  *Rows*: the classes have identifiers in ranges of their own
(`Ranges`), within a class names are unique (`OneName`), so the identifier of an event listed in
F leads to one row, its own (`RowOfEvent`, with `ManifestIsCurrent`).  *Names*: whatever operation any
hook logs, its event is listed, and the words of its name say class, direction, outcome and
who did it (`EventDecodes`, `EventFromIsrDecodes`); words are added one at a time, so this is a lemma per class and
outcome.  *Fill*: from row and payload the reader concludes the fill after the operation
(`FillTold`), and that is what the operation leaves in the queue; events of refused
operations and of tasks tell it nothing (`ToldByEvent`).  `LInv` joins both properties, as one step lemma per
action shows them together.

### QemuExample

`XInv` adds to the types that the number of sockets created is the number held (`SocketsOnce`)
and that Rx sleeps only in the delay before it blinks (`SleepsOnlyThere`).
`SendFailsOnlyInSleep` follows from the priorities: when TX runs, Rx is not ready, and with an
item in the queue it is ready unless it sleeps.

### ProbeId

Shifts and exclusive ors act on each bit position by itself, so the invariant speaks of positions: the
register is 16 bits wide, and what was set into a field of `uxTaskNumber` is what the field
holds (`PInv`).  That a step of the loop divides one byte is proved without enumerating
registers: one lemma says which positions of a register reach which after one shift of the division,
others compose it to two and to four shifts, twice four take the byte, and the code's three
shifted copies give the same membership for each of the sixteen positions.  The two promotions of `char` differ above
bit 7 only, which the assignment to `unsigned char` cuts off.

### TLC on the invariants

Each strengthened invariant was also checked with TLC on the constants of a passing run: `IInv`,
`OInv` on `core`, `Written`, `ExcludedUntagged`, `PInv` of `CausalityProofs`, `Packed`, `MainIdle` and `CInv` on `failures`, `Behind` on `no_asserts`, `TInv` and `DInv` on `io_task`, `EInv` and `LInv` on
`events`, `XInv` on `example`.  The configurations keep only the properties they imply.  The proofs
are by initial states, one step lemma per action and the implication.

### Only model-checked

* Liveness: `AcceptedIsProcessed`, `EndToEnd`, `ReportedAgain`, `AnnouncedAgain`, `BlinksAgain`
  and `IoAgain`.  The prover does not handle ENABLED, on which fairness rests.
* `IdsAgree` of `ProbeId`.  It is about ten fixed names and no constant of the module; TLC decides it
  completely, and a proof would only be its run written out, register by register.
* The five violated properties, which are refuted by a behaviour.

## 6. Plan

Done: `ModalityTrace`, `IoTask` implementing `ControlDelivery`, with deleted tasks, `TraceEvents`,
`ProbeId` implementing `PolynomialDivision`, the example, and the theorems above, which cover
reused TCBs.

Left:

1. What `HookedComplete` still says without the asserts, of the records made after tracing was
   enabled again.
2. Liveness by hand: the ranking arguments behind `ReportedAgain` and `EndToEnd`.

An abstract specification of the trace core (a log in which every record of a task
follows all records of the tasks before it) was considered and left out:
`CausalComplete`, `CausalSound` and `RecordsOnlyOwn` together say what it would.

## 7. Not modelled

| part | reason |
|---|---|
| `src/examples/m3-qemu/CMSIS` | third-party register definitions and intrinsics, no logic of this repository; about 6,000 of some 9,600 lines of code |
| `FreeRTOSConfig.h`, `FreeRTOSIPConfig.h` | lists of constants; those that matter are values in the configurations |
| `startup.c`, `syscall.c` | a vector table and a UART write |
| pseudo random numbers, DNS and host name hooks, printing in E | nothing of the tracer depends on them |
| boilerplate of G around the rows | generated code |
| call counting and no-op stream buffers of M | test scaffolding; what M does as a kernel is the modelled kernel's behaviour |
| names of 256 bytes and more | the length is cut to 8 bits; the kernel stores shorter names, and no caller gives such a name |
| `TRACE_SET_TASK_FILTER` after registration | nothing calls it |
| contents of reports and announcements | the library's and the transport's |

The first row alone is more than half of the repository, which limits how much of it a model
can stand for; of the tracer's own source nearly every function has a definition.

External, modelled from how the code uses them: the FreeRTOS kernel (tasks,
queues, message buffers, the order of hooks and changes), the modality-probe library,
the heap and FreeRTOS+TCP.  Of the memory of a TCB it is assumed that a new task has no application tag, and that
`uxTaskNumber` is 0 as long as no task had the TCB and anything afterwards; the kernel's source
is not in the repository, and its mock M reuses no TCB.  The IO task's TCB is taken to be one that no
application task had before, as it is when tracing is first enabled before the scheduler starts.
