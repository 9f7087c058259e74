------------------------------- MODULE TraceEvents -------------------------------
(***************************************************************************)
(* What the kernel's hooks log about a queue, semaphore or mutex, and what *)
(* the manifest makes of it: the event identifiers and the hooks of        *)
(* source/include/modality_probe_freertos.h, the rows that                 *)
(* tools/update-manifest.py derives from them, and the rows checked in     *)
(* with the QEMU example.                                                  *)
(*                                                                         *)
(* An event name is the sequence of its words.  Two tasks and interrupt    *)
(* handlers use one queue.  A hook logs for the running task, if that task *)
(* is traced; tracing is on.  ModalityTrace says in which probe the event  *)
(* lands, this module which event it is.                                   *)
(*                                                                         *)
(* External: the kernel's queue.  It completes an operation, its hook      *)
(* included, in a critical section; the hooks of an operation that was     *)
(* refused or has to wait run after that section was left, the latter with *)
(* the scheduler suspended but interrupts enabled.                         *)
(***************************************************************************)
EXTENDS Integers, Sequences, FiniteSets

CONSTANTS
  Workers, \* tasks that use the queue
  Idle,    \* a task that does not
  Traced,  \* the tasks whose filter lets the hooks through
  NULL     \* no event, no payload

ASSUME TasksAssumption == /\ Idle \notin Workers /\ Traced \subseteq Workers \cup {Idle}
                          /\ NULL \notin Workers /\ NULL \notin Nat

VARIABLES
  queue,   \* the queue's type, length and number of messages waiting; a mutex's holder
  running, \* pxCurrentTCB
  op,      \* each worker's queue operation
  logged,  \* the event logged by the last step
  reader   \* history: the fill of the queue that the log so far tells

vars == <<queue, running, op, logged, reader>>

--------------------------------------------------------------------------------
\* Event identifiers

Class == [TASK |-> "task", QUEUE |-> "queue", SEMAPHORE |-> "semaphore", MUTEX |-> "mutex"]

\* Each operation's identifiers count down from its own offset.
TRACE_EVENT ==
  LET Group(offset, stem, rest) ==
        {[name |-> stem \o rest[k], id |-> 65535 - offset - (k - 1)] : k \in DOMAIN rest}
      plain == << <<>>, <<"BLOCKED">>, <<"FAILED">> >>
      isr   == << <<"FROMISR">>, <<"FROMISR", "FAILED">> >>
      front == << <<"FRONT">>, <<"FRONT", "BLOCKED">>, <<"FRONT", "FAILED">> >>
  IN  UNION {
        Group(1, <<"TASK">>, << <<"CREATE">>, <<"SWITCHED", "IN">>, <<"SWITCHED", "OUT">>,
                                <<"SUSPEND">>, <<"DELAY">>, <<"DELAY", "UNTIL">> >>),
        Group(100, <<"QUEUE", "SEND">>, plain \o front \o isr \o
                   << <<"FRONT", "FROMISR">>, <<"FRONT", "FROMISR", "FAILED">> >>),
        Group(200, <<"QUEUE", "RECEIVE">>, plain \o isr),
        Group(300, <<"SEMAPHORE", "GIVE">>, plain \o isr),
        Group(400, <<"SEMAPHORE", "TAKE">>, plain \o isr),
        Group(500, <<"MUTEX", "GIVE">>, plain),
        Group(600, <<"MUTEX", "TAKE">>, plain)}

IdOf(name) == (CHOOSE e \in TRACE_EVENT : e.name = name).id

Has(word, name) == \E k \in DOMAIN name : name[k] = word

EVENTS_WITHOUT_PAYLOADS ==
  {<<"TASK", "SWITCHED", "OUT">>} \cup
  {<<"TRACE", "EVENT", "MUTEX">> \o rest :
     rest \in {<<"GIVE">>, <<"GIVE", "BLOCKED">>, <<"GIVE", "FAILED">>,
               <<"TAKE">>, <<"TAKE", "BLOCKED">>, <<"TAKE", "FAILED">>}}

\* The row update-manifest.py passes to the manifest generator for one definition.
ManifestRow(e) ==
  [id   |-> e.id,
   name |-> e.name,
   tags |-> {Class[Head(e.name)]} \cup (IF Has("FAILED", e.name) THEN {"FAILURE"} ELSE {})
                                  \cup (IF Has("FROMISR", e.name) THEN {"ISR"} ELSE {}),
   u32  |-> e.name \notin EVENTS_WITHOUT_PAYLOADS]

--------------------------------------------------------------------------------
\* The rows that are checked in

Row(id, name, tags, u32) == [id |-> id, name |-> name, tags |-> tags, u32 |-> u32]

TaskRows ==
  {Row(65534, <<"TASK", "CREATE">>, {"task"}, TRUE),
   Row(65533, <<"TASK", "SWITCHED", "IN">>, {"task"}, TRUE),
   Row(65532, <<"TASK", "SWITCHED", "OUT">>, {"task"}, FALSE),
   Row(65531, <<"TASK", "SUSPEND">>, {"task"}, TRUE),
   Row(65530, <<"TASK", "DELAY">>, {"task"}, TRUE),
   Row(65529, <<"TASK", "DELAY", "UNTIL">>, {"task"}, TRUE)}

QueueRows ==
  {Row(65435, <<"QUEUE", "SEND">>, {"queue"}, TRUE),
   Row(65434, <<"QUEUE", "SEND", "BLOCKED">>, {"queue"}, TRUE),
   Row(65433, <<"QUEUE", "SEND", "FAILED">>, {"queue", "FAILURE"}, TRUE),
   Row(65432, <<"QUEUE", "SEND", "FRONT">>, {"queue"}, TRUE),
   Row(65431, <<"QUEUE", "SEND", "FRONT", "BLOCKED">>, {"queue"}, TRUE),
   Row(65430, <<"QUEUE", "SEND", "FRONT", "FAILED">>, {"queue", "FAILURE"}, TRUE),
   Row(65429, <<"QUEUE", "SEND", "FROMISR">>, {"queue", "ISR"}, TRUE),
   Row(65428, <<"QUEUE", "SEND", "FROMISR", "FAILED">>, {"queue", "FAILURE", "ISR"}, TRUE),
   Row(65427, <<"QUEUE", "SEND", "FRONT", "FROMISR">>, {"queue", "ISR"}, TRUE),
   Row(65426, <<"QUEUE", "SEND", "FRONT", "FROMISR", "FAILED">>, {"queue", "FAILURE", "ISR"}, TRUE),
   Row(65335, <<"QUEUE", "RECEIVE">>, {"queue"}, TRUE),
   Row(65334, <<"QUEUE", "RECEIVE", "BLOCKED">>, {"queue"}, TRUE),
   Row(65333, <<"QUEUE", "RECEIVE", "FAILED">>, {"queue", "FAILURE"}, TRUE),
   Row(65332, <<"QUEUE", "RECEIVE", "FROMISR">>, {"queue", "ISR"}, TRUE),
   Row(65331, <<"QUEUE", "RECEIVE", "FROMISR", "FAILED">>, {"queue", "FAILURE", "ISR"}, TRUE)}

SemaphoreRows ==
  {Row(65235, <<"SEMAPHORE", "GIVE">>, {"semaphore"}, TRUE),
   Row(65234, <<"SEMAPHORE", "GIVE", "BLOCKED">>, {"semaphore"}, TRUE),
   Row(65233, <<"SEMAPHORE", "GIVE", "FAILED">>, {"semaphore", "FAILURE"}, TRUE),
   Row(65232, <<"SEMAPHORE", "GIVE", "FROMISR">>, {"semaphore", "ISR"}, TRUE),
   Row(65231, <<"SEMAPHORE", "GIVE", "FROMISR", "FAILED">>, {"semaphore", "FAILURE", "ISR"}, TRUE),
   Row(65135, <<"SEMAPHORE", "TAKE">>, {"semaphore"}, TRUE),
   Row(65134, <<"SEMAPHORE", "TAKE", "BLOCKED">>, {"semaphore"}, TRUE),
   Row(65133, <<"SEMAPHORE", "TAKE", "FAILED">>, {"semaphore", "FAILURE"}, TRUE),
   Row(65132, <<"SEMAPHORE", "TAKE", "FROMISR">>, {"semaphore", "ISR"}, TRUE),
   Row(65131, <<"SEMAPHORE", "TAKE", "FROMISR", "FAILED">>, {"semaphore", "FAILURE", "ISR"}, TRUE)}

MutexRows ==
  {Row(65035, <<"MUTEX", "GIVE">>, {"mutex"}, TRUE),
   Row(65034, <<"MUTEX", "GIVE", "BLOCKED">>, {"mutex"}, TRUE),
   Row(65033, <<"MUTEX", "GIVE", "FAILED">>, {"mutex", "FAILURE"}, TRUE),
   Row(64935, <<"MUTEX", "TAKE">>, {"mutex"}, TRUE),
   Row(64934, <<"MUTEX", "TAKE", "BLOCKED">>, {"mutex"}, TRUE),
   Row(64933, <<"MUTEX", "TAKE", "FAILED">>, {"mutex", "FAILURE"}, TRUE)}

Manifest == TaskRows \cup QueueRows \cup SemaphoreRows \cup MutexRows

\* The checked-in rows are what the tool makes of the header.
ASSUME ManifestIsCurrent == Manifest = {ManifestRow(e) : e \in TRACE_EVENT}

--------------------------------------------------------------------------------
\* The hooks

IsMutex(q) == q.type \in {"mutex", "recursive"}
IsSemaphore(q) == q.type \in {"binary", "counting"}

\* queueSEND_TO_FRONT and queueOVERWRITE are not queueSEND_TO_BACK.
AtFront(what) == what \in {"front", "overwrite"}

Stem(q, what) ==
  IF what = "receive"
  THEN CASE IsMutex(q) -> <<"MUTEX", "TAKE">> [] IsSemaphore(q) -> <<"SEMAPHORE", "TAKE">>
         [] OTHER -> <<"QUEUE", "RECEIVE">>
  ELSE CASE IsMutex(q) -> <<"MUTEX", "GIVE">> [] IsSemaphore(q) -> <<"SEMAPHORE", "GIVE">>
         [] AtFront(what) -> <<"QUEUE", "SEND", "FRONT">> [] OTHER -> <<"QUEUE", "SEND">>

Outcome == [done |-> <<>>, blocked |-> <<"BLOCKED">>, failed |-> <<"FAILED">>]

\* Mutant: an interrupt handler's failure is logged like its success.
EventFromIsrUnfailed(q, what, outcome) == Stem(q, what) \o <<"FROMISR">>

EventFromIsr(q, what, outcome) == Stem(q, what) \o <<"FROMISR">> \o Outcome[outcome]

Event(q, what, outcome) == Stem(q, what) \o Outcome[outcome]

\* Mutant: the number of free places.
PayloadIsSpace(q) == IF IsMutex(q) THEN NULL ELSE q.length - q.waiting

\* uxMessagesWaiting; prvTraceLogEvent for a mutex, ...WithPayload for the others.
Payload(q) == IF IsMutex(q) THEN NULL ELSE q.waiting

\* What the log says of the queue after event e with this payload.
Told(e, payload) ==
  LET row == CHOOSE r \in Manifest : r.id = e
      adds == \E w \in {"SEND", "GIVE"} : Has(w, row.name)
  IN  IF Has("FAILED", row.name) \/ Has("BLOCKED", row.name) \/ "task" \in row.tags THEN reader
      ELSE IF payload = NULL THEN [fill |-> IF adds THEN 1 ELSE 0, current |-> TRUE]
      ELSE IF ~adds THEN [fill |-> payload - 1, current |-> TRUE]
      ELSE [fill |-> IF payload < queue.length THEN payload + 1 ELSE payload, current |-> TRUE]

\* The hook of one operation, in the name of the running task.  `of` is history: what
\* really happened, and who changed the queue since the decision.
Log(name, payload, of) ==
  IF running \in Traced
  THEN /\ logged' = [id |-> IdOf(name), payload |-> payload, of |-> of]
       /\ reader' = Told(IdOf(name), payload)
  ELSE /\ logged' = NULL
       /\ reader' = [reader EXCEPT !.current = @ /\ (of.what = "task" \/ of.outcome # "done")]

Of(what, outcome, isr, moved) ==
  [what |-> what, outcome |-> outcome, isr |-> isr, moved |-> moved]

NotLogged == logged' = NULL /\ UNCHANGED reader

--------------------------------------------------------------------------------
\* The kernel's queue

\* Binary and counting semaphores and queues of one and two items as they are
\* created, mutexes after the give that completes their creation.
Queues ==
  LET Q(types, length, waiting) ==
        {[type |-> y, length |-> length, waiting |-> waiting, holder |-> NULL] : y \in types}
  IN  Q({"base", "binary"}, 1, 0) \cup Q({"base"}, 2, 0) \cup Q({"counting"}, 2, 0)
      \cup Q({"counting"}, 2, 2) \cup Q({"mutex", "recursive"}, 1, 1)

\* xQueueOverwrite asserts a length of 1; only messages have positions.
Operations(q) ==
  {"send", "receive"} \cup (IF q.type = "base" THEN {"front"} ELSE {})
                      \cup (IF q.type = "base" /\ q.length = 1 THEN {"overwrite"} ELSE {})

\* Mutant: off by one at the queue's length.
PossibleWhenFull(q, what) ==
  \/ what = "overwrite"
  \/ what = "receive" /\ q.waiting > 0
  \/ what \in {"send", "front"} /\ q.waiting <= q.length

Possible(q, what) ==
  \/ what = "overwrite"
  \/ what = "receive" /\ q.waiting > 0
  \/ what \in {"send", "front"} /\ q.waiting < q.length

After(q, what, who) ==
  [q EXCEPT !.waiting = IF what = "receive" THEN @ - 1 ELSE IF what = "overwrite" THEN 1 ELSE @ + 1,
            !.holder  = IF IsMutex(q) /\ what = "receive" THEN who ELSE NULL]

\* The operations between their decision and their hook notice a change.
Noticed(who) ==
  [t \in Workers |-> IF op[t].at \in {"idle", "again", "waiting"} THEN op[t]
                     ELSE [op[t] EXCEPT !.moved = @ \cup {who}]]

NoOp == [at |-> "idle", what |-> NULL, payload |-> NULL, moved |-> {}]

\* With the scheduler suspended no other task runs.
Suspended == running \in Workers /\ op[running].at \in {"blocking", "log_blocked"}

\* Mutant: the hook runs after the change.
PerformLogsAfter(t, what) ==
  LET q == After(queue, what, t)
  IN  /\ queue' = q
      /\ op' = [Noticed("task") EXCEPT ![t] = NoOp]
      /\ Log(Event(q, what, "done"), Payload(q), Of(what, "done", FALSE, {}))
      /\ UNCHANGED running

\* The successful operation: hook and change in one critical section.
Perform(t, what) ==
  /\ queue' = After(queue, what, t)
  /\ op' = [Noticed("task") EXCEPT ![t] = NoOp]
  /\ Log(Event(queue, what, "done"), Payload(queue), Of(what, "done", FALSE, {}))
  /\ UNCHANGED running

\* A mutex is given back by its holder; a give of a free one fails.
MayGive(t, what) == IsMutex(queue) /\ what = "send" => queue.holder \in {NULL, t}

\* An operation begins with one attempt, which decides it unless it may wait.
Attempt(t, what, waits) ==
  /\ running = t /\ what \in Operations(queue) /\ MayGive(t, what)
  /\ \/ op[t].at = "idle"
     \/ op[t].at = "again" /\ op[t].what = what /\ waits
  /\ IF Possible(queue, what) THEN Perform(t, what)
     ELSE /\ op' = [op EXCEPT ![t] = [at |-> IF waits THEN "retry" ELSE "refused",
                                      what |-> what, payload |-> NULL, moved |-> {}]]
          /\ NotLogged
          /\ UNCHANGED <<queue, running>>

\* The scheduler is suspended and the queue looked at again.
Retry(t) ==
  /\ running = t /\ op[t].at = "retry"
  /\ op' = IF Possible(queue, op[t].what) THEN [op EXCEPT ![t].at = "again"]
           ELSE [op EXCEPT ![t].at = "blocking", ![t].moved = {}]
  /\ NotLogged
  /\ UNCHANGED <<queue, running>>

\* The waiting time is over: a send then fails, a receive if the queue is still empty.
TimeOut(t) ==
  /\ running = t /\ op[t].at = "retry"
  /\ op' = IF op[t].what = "receive" /\ Possible(queue, "receive")
           THEN [op EXCEPT ![t].at = "again"]
           ELSE [op EXCEPT ![t].at = "refused",
                           ![t].moved = IF op[t].what = "receive" THEN {} ELSE @]
  /\ NotLogged
  /\ UNCHANGED <<queue, running>>

\* traceQUEUE_..._FAILED and traceBLOCKING_ON_QUEUE_...: the argument is read before
\* prvTraceLogEventWithPayload enters its critical section.
HookReads(t) ==
  /\ running = t /\ op[t].at \in {"refused", "blocking"}
  /\ op' = [op EXCEPT ![t].payload = Payload(queue),
                      ![t].at = IF @ = "refused" THEN "log_failed" ELSE "log_blocked"]
  /\ NotLogged
  /\ UNCHANGED <<queue, running>>

HookLogsFailed(t) ==
  /\ running = t /\ op[t].at = "log_failed"
  /\ op' = [op EXCEPT ![t] = NoOp]
  /\ Log(Event(queue, op[t].what, "failed"), op[t].payload,
         Of(op[t].what, "failed", FALSE, op[t].moved))
  /\ UNCHANGED <<queue, running>>

\* Afterwards the scheduler resumes and the task waits.
HookLogsBlocked(t) ==
  /\ running = t /\ op[t].at = "log_blocked"
  /\ op' = [op EXCEPT ![t].at = "waiting"]
  /\ Log(Event(queue, op[t].what, "blocked"), op[t].payload,
         Of(op[t].what, "blocked", FALSE, op[t].moved))
  /\ running' = Idle
  /\ UNCHANGED queue

\* The queue changed or the waiting time is over.
Wake(t) ==
  /\ op[t].at = "waiting" /\ ~Suspended
  /\ op' = [op EXCEPT ![t].at = "again"]
  /\ NotLogged
  /\ UNCHANGED <<queue, running>>

\* An interrupt handler masks interrupts around the attempt and its hook; the wrapper
\* of xQueueGiveFromISR gives to the back.  Mutexes are not for interrupt handlers.
FromIsr(what) ==
  /\ ~IsMutex(queue) /\ what \in Operations(queue)
  /\ LET done == Possible(queue, what)
     IN  /\ queue' = IF done THEN After(queue, what, NULL) ELSE queue
         /\ op' = IF done THEN Noticed("isr") ELSE op
         /\ Log(EventFromIsr(queue, what, IF done THEN "done" ELSE "failed"), Payload(queue),
                Of(what, IF done THEN "done" ELSE "failed", TRUE, {}))
  /\ UNCHANGED running

--------------------------------------------------------------------------------
\* Tasks

\* The last event of a context switch; ModalityTrace has the whole of it.
Switch(t) ==
  /\ t # running /\ ~Suspended
  /\ t \in Workers => op[t].at # "waiting"
  /\ running' = t
  /\ logged' = IF t \in Traced
               THEN [id |-> IdOf(<<"TASK", "SWITCHED", "IN">>), payload |-> 0,
                     of |-> Of("switch", "done", FALSE, {})]
               ELSE IF running \in Traced
               THEN [id |-> IdOf(<<"TASK", "SWITCHED", "OUT">>), payload |-> NULL,
                     of |-> Of("switch", "done", FALSE, {})]
               ELSE NULL
  /\ UNCHANGED <<queue, op, reader>>

\* prvTraceRegisterTaskProbe logs the priority for the new task, whoever creates it.
TaskCreate ==
  /\ running \in Workers => op[running].at = "idle"
  /\ logged' = [id |-> IdOf(<<"TASK", "CREATE">>), payload |-> 0,
                of |-> Of("task", "done", FALSE, {})]
  /\ UNCHANGED <<queue, running, op, reader>>

\* Suspending a task and delaying: the payload is a probe id or a time.
TaskHook(name) ==
  /\ running \in Workers => op[running].at = "idle"
  /\ Log(name, 0, Of("task", "done", FALSE, {}))
  /\ UNCHANGED <<queue, running, op>>

Init ==
  /\ queue \in Queues
  /\ running = Idle
  /\ op = [t \in Workers |-> NoOp]
  /\ logged = NULL
  /\ reader = [fill |-> queue.waiting, current |-> TRUE]

Whats == {"send", "front", "overwrite", "receive"}

Next ==
  \/ \E t \in Workers, what \in Whats, waits \in BOOLEAN : Attempt(t, what, waits)
  \/ \E t \in Workers : Retry(t) \/ TimeOut(t) \/ Wake(t)
  \/ \E t \in Workers : HookReads(t) \/ HookLogsFailed(t) \/ HookLogsBlocked(t)
  \/ \E what \in Whats : FromIsr(what)
  \/ \E t \in Workers \cup {Idle} : Switch(t)
  \/ TaskCreate
  \/ \E name \in {<<"TASK", "SUSPEND">>, <<"TASK", "DELAY">>, <<"TASK", "DELAY", "UNTIL">>} :
       TaskHook(name)

Spec == Init /\ [][Next]_vars

--------------------------------------------------------------------------------
\* Properties

\* The queue is never over- or underfull, a mutex is held exactly when it is not
\* available, and a task that waits is not the running one.
TypeOK ==
  /\ queue.waiting \in 0 .. queue.length
  /\ IsMutex(queue) => (queue.holder = NULL) = (queue.waiting = 1)
  /\ running \in Workers \cup {Idle}
  /\ running \in Workers => op[running].at # "waiting"

\* Every event that is logged has exactly one row in the manifest, and the row's
\* class and tags say what happened: to which kind of queue, in an interrupt handler or
\* not, failed or not.
DecodedByManifest ==
  logged # NULL =>
    \E row \in Manifest :
      /\ \A other \in Manifest : other.id = logged.id => other = row
      /\ row.id = logged.id
      /\ ("FAILURE" \in row.tags) = (logged.of.outcome = "failed")
      /\ Has("BLOCKED", row.name) = (logged.of.outcome = "blocked")
      /\ ("ISR" \in row.tags) = logged.of.isr
      /\ \/ "task" \in row.tags /\ logged.of.what \in {"task", "switch"}
         \/ "mutex" \in row.tags /\ IsMutex(queue)
         \/ "semaphore" \in row.tags /\ IsSemaphore(queue)
         \/ "queue" \in row.tags /\ queue.type = "base"

\* Whoever reads the log knows the fill of the queue, as long as no operation was
\* hidden from it by running in, or interrupting, an untraced task; the next logged
\* operation tells it again.  Preemption between a refused operation's decision and its
\* hook does not mislead the reader.
LogTellsFill == reader.current => reader.fill = queue.waiting

\* The payload of a refused operation is the fill that refused it, unless the queue was
\* changed between the decision and the hook; for one that has to wait, with the
\* scheduler suspended, only an interrupt handler can have changed it.
RefusalExplained ==
  logged # NULL /\ logged.of.outcome \in {"failed", "blocked"} /\ ~logged.of.isr
    => \/ logged.payload = NULL
       \/ logged.payload = IF logged.of.what = "receive" THEN 0 ELSE queue.length
       \/ logged.of.outcome = "failed" /\ logged.of.moved # {}
       \/ logged.of.outcome = "blocked" /\ logged.of.moved = {"isr"}

\* An event is logged with a payload exactly when its row has a type for it.
HintsMatchPayload ==
  logged # NULL => \A row \in Manifest : row.id = logged.id => row.u32 = (logged.payload # NULL)

================================================================================
