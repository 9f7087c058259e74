---------------------------- MODULE TraceEventsProofs ----------------------------
(* Theorems about TraceEvents for any number of tasks, whichever are traced:   *)
(* the queue, its refused operations, and what the log tells whoever reads it  *)
(* with the manifest.                                                          *)
EXTENDS TraceEvents, SequenceTheorems, TLAPS

--------------------------------------------------------------------------------
\* The queue

Types == {"base", "binary", "counting", "mutex", "recursive"}

Queue == [type : Types, length : {1, 2}, waiting : 0 .. 2, holder : Workers \cup {NULL}]

\* The queue is never over- or underfull; a mutex is held while it is not available, and only
\* queues of one item are overwritten.
QueueOK(q) ==
  /\ q \in Queue /\ q.waiting <= q.length
  /\ IsMutex(q) => q.length = 1 /\ (q.holder = NULL) = (q.waiting = 1)

\* Where an operation is after it found that it is not possible.
Refused == {"retry", "refused", "blocking", "log_failed", "log_blocked"}

Ats == {"idle", "again", "waiting"} \cup Refused

Op ==
  [at : Ats, what : Whats \cup {NULL}, payload : 0 .. 2 \cup {NULL}, moved : SUBSET {"task", "isr"}]

\* The fill that refuses an operation.
Refusal(q, what) == IF what = "receive" THEN 0 ELSE q.length

\* A refused operation is one of this queue and not an overwriting one, which is never refused;
\* unless somebody changed the queue since, it is still as it was when it refused, and so was the
\* fill the hook read.  One that is to wait has the scheduler suspended: only an interrupt
\* handler changes the queue.
RefusedOK(q, o) ==
  o.at \in Refused =>
    /\ o.what \in Operations(q) \ {"overwrite"}
    /\ o.moved = {} => q.waiting = Refusal(q, o.what)
    /\ o.at \in {"log_failed", "log_blocked"} /\ o.moved = {} =>
         o.payload \in {NULL, Refusal(q, o.what)}
    /\ o.at \in {"blocking", "log_blocked"} => o.moved \subseteq {"isr"}

\* A task that waits does not run, and one with the scheduler suspended does.
RunsOK(t) ==
  /\ op[t].at = "waiting" => running # t
  /\ op[t].at \in {"blocking", "log_blocked"} => running = t

EInv ==
  /\ QueueOK(queue)
  /\ running \in Workers \cup {Idle}
  /\ op \in [Workers -> Op]
  /\ \A t \in Workers : RefusedOK(queue, op[t]) /\ RunsOK(t)
  /\ RefusalExplained

--------------------------------------------------------------------------------
\* The queue's operations

\* An operation that is not possible found the queue full, or empty.
LEMMA NotPossible ==
  ASSUME NEW q, QueueOK(q), NEW what \in Whats, ~Possible(q, what)
  PROVE  what # "overwrite" /\ q.waiting = Refusal(q, what)
BY DEF QueueOK, Queue, Whats, Possible, Refusal

\* What a possible operation makes of the queue.
LEMMA AfterOperation ==
  ASSUME NEW q, QueueOK(q), NEW what \in Operations(q), Possible(q, what),
         NEW who \in Workers \cup {NULL}, IsMutex(q) => who \in Workers
  PROVE  /\ QueueOK(After(q, what, who))
         /\ After(q, what, who).type = q.type /\ After(q, what, who).length = q.length
         /\ After(q, what, who).waiting = IF what = "receive" THEN q.waiting - 1
                                          ELSE IF what = "overwrite" THEN 1 ELSE q.waiting + 1
<1> DEFINE a == After(q, what, who)
           w == IF what = "receive" THEN q.waiting - 1
                ELSE IF what = "overwrite" THEN 1 ELSE q.waiting + 1
           h == IF IsMutex(q) /\ what = "receive" THEN who ELSE NULL
<1>1. a = [q EXCEPT !.waiting = w, !.holder = h]
  BY DEF After
<1>2. what \in Whats /\ (IsMutex(q) => what \in {"send", "receive"})
  BY DEF Operations, Whats, IsMutex
<1>3. w \in 0 .. 2 /\ w <= q.length
  BY <1>2 DEF QueueOK, Queue, Possible, Whats, Operations
<1>4. h \in Workers \cup {NULL}
  OBVIOUS
<1>5. IsMutex(q) => (h = NULL) = (w = 1)
  BY <1>2, TasksAssumption DEF QueueOK, Queue, Possible
<1> HIDE DEF a, w, h
<1>6. a \in Queue /\ a.type = q.type /\ a.length = q.length /\ a.waiting = w /\ a.holder = h
  BY <1>1, <1>3, <1>4 DEF QueueOK, Queue
<1>7. QueueOK(a)
  BY <1>3, <1>5, <1>6 DEF QueueOK, IsMutex
<1> QED
  BY <1>6, <1>7 DEF a, w

\* What the operations between their decision and their hook notice of a change, which is not a
\* task's if they have the scheduler suspended.
LEMMA NoticedOK ==
  ASSUME EInv, NEW q, q.type = queue.type, q.length = queue.length,
         NEW who \in {"task", "isr"}, NEW t \in Workers,
         who = "task" => op[t].at \notin {"blocking", "log_blocked"}
  PROVE  /\ Noticed(who)[t] \in Op /\ Noticed(who)[t].at = op[t].at
         /\ RefusedOK(q, Noticed(who)[t])
<1> DEFINE n == Noticed(who)[t]
<1>1. op[t] \in Op /\ RefusedOK(queue, op[t])
  BY DEF EInv
<1>2. CASE op[t].at \notin Refused
  <2>1. n = op[t]
    BY <1>1, <1>2 DEF Noticed, Op, Ats
  <2> QED
    BY <1>1, <1>2, <2>1 DEF RefusedOK
<1>3. CASE op[t].at \in Refused
  <2>1. n = [op[t] EXCEPT !.moved = @ \cup {who}]
    BY <1>3 DEF Noticed, Refused
  <2>2. n \in Op /\ n.at = op[t].at /\ n.what = op[t].what /\ n.moved = op[t].moved \cup {who}
    BY <1>1, <2>1 DEF Op
  <2>3. Operations(q) = Operations(queue)
    BY DEF Operations
  <2> HIDE DEF n
  <2> QED
    BY <1>1, <1>3, <2>2, <2>3 DEF RefusedOK, n
<1> QED
  BY <1>2, <1>3

\* An event of an operation that was done, or of an interrupt handler, is no refusal to explain.
LEMMA NothingToExplain ==
  ASSUME logged' = NULL \/ (\E name, payload, of : Log(name, payload, of) /\
                              (of.outcome = "done" \/ of.isr))
  PROVE  RefusalExplained'
<1>1. CASE logged' = NULL
  BY <1>1 DEF RefusalExplained
<1>2. ASSUME NEW name, NEW payload, NEW of, Log(name, payload, of), of.outcome = "done" \/ of.isr
      PROVE  RefusalExplained'
  <2>1. logged' = NULL \/ logged'.of = of
    BY <1>2 DEF Log
  <2>2. of.outcome = "done" => of.outcome \notin {"failed", "blocked"}
    OBVIOUS
  <2> QED
    BY <1>2, <2>1, <2>2 DEF RefusalExplained
<1> QED
  BY <1>1, <1>2

--------------------------------------------------------------------------------
\* Every step keeps the invariant

\* An operation that is done, in one critical section with its hook.
LEMMA PerformKeeps ==
  ASSUME EInv, NEW t \in Workers, NEW what \in Operations(queue), running = t,
         Possible(queue, what), Perform(t, what)
  PROVE  EInv'
<1>1. /\ queue' = After(queue, what, t) /\ running' = running
      /\ op' = [Noticed("task") EXCEPT ![t] = NoOp]
  BY DEF Perform
<1>2. QueueOK(queue') /\ queue'.type = queue.type /\ queue'.length = queue.length
  BY <1>1, AfterOperation DEF EInv
<1>3. NoOp \in Op /\ NoOp.at = "idle"
  BY DEF NoOp, Op, Ats
<1>4. ASSUME NEW u \in Workers
      PROVE  op'[u] \in Op /\ RefusedOK(queue', op'[u]) /\ RunsOK(u)'
  <2>1. DOMAIN Noticed("task") = Workers
    BY DEF Noticed
  <2>2. CASE u = t
    <3>1. op'[u] = NoOp
      BY <1>1, <2>1, <2>2
    <3> QED
      BY <3>1, <1>3 DEF RefusedOK, RunsOK, Refused
  <2>3. CASE u # t
    <3>1. op'[u] = Noticed("task")[u]
      BY <1>1, <2>1, <2>3
    <3>2. op[u].at \notin {"blocking", "log_blocked"} /\ RunsOK(u)
      BY <2>3 DEF EInv, RunsOK
    <3>3. op'[u] \in Op /\ op'[u].at = op[u].at /\ RefusedOK(queue', op'[u])
      BY <3>1, <3>2, <1>2, NoticedOK
    <3> QED
      BY <3>2, <3>3, <1>1 DEF RunsOK
  <2> QED
    BY <2>2, <2>3
<1>5. op' \in [Workers -> Op]
  BY <1>1, <1>4 DEF Noticed
<1>6. RefusalExplained'
  BY NothingToExplain DEF Perform, Of
<1> QED
  BY <1>1, <1>2, <1>4, <1>5, <1>6 DEF EInv

\* A step of one task's operation that leaves the queue alone.
LEMMA OneOperation ==
  ASSUME EInv, NEW t \in Workers, NEW o, op' = [op EXCEPT ![t] = o], queue' = queue,
         running' \in Workers \cup {Idle}, o \in Op, RefusedOK(queue, o),
         o.at = "waiting" => running' # t, o.at \in {"blocking", "log_blocked"} => running' = t,
         \A u \in Workers \ {t} : op[u].at = "waiting" => running' # u,
         \A u \in Workers \ {t} : op[u].at \in {"blocking", "log_blocked"} => running' = u,
         RefusalExplained'
  PROVE  EInv'
<1>1. op' \in [Workers -> Op]
  BY DEF EInv
<1>2. ASSUME NEW u \in Workers PROVE RefusedOK(queue', op'[u]) /\ RunsOK(u)'
  <2>1. CASE u = t
    BY <2>1 DEF EInv, RunsOK
  <2>2. CASE u # t
    BY <2>2 DEF EInv, RunsOK
  <2> QED
    BY <2>1, <2>2
<1> QED
  BY <1>1, <1>2 DEF EInv

\* An operation is tried for the first time, or again.
LEMMA AttemptKeeps ==
  ASSUME EInv, NEW t \in Workers, NEW what \in Whats, NEW waits \in BOOLEAN, Attempt(t, what, waits)
  PROVE  EInv'
<1>1. running = t /\ what \in Operations(queue)
  BY DEF Attempt
<1>2. CASE Possible(queue, what)
  BY <1>1, <1>2, PerformKeeps DEF Attempt
<1>3. CASE ~Possible(queue, what)
  <2> DEFINE o == [at |-> IF waits THEN "retry" ELSE "refused", what |-> what,
                   payload |-> NULL, moved |-> {}]
  <2>1. op' = [op EXCEPT ![t] = o] /\ logged' = NULL /\ UNCHANGED <<queue, running>>
    BY <1>3 DEF Attempt, NotLogged
  <2>2. what # "overwrite" /\ queue.waiting = Refusal(queue, what)
    BY <1>3, NotPossible DEF EInv
  <2>3. o \in Op /\ o.at \in {"retry", "refused"} /\ RefusedOK(queue, o)
    BY <1>1, <2>2 DEF Op, Ats, Refused, RefusedOK
  <2> HIDE DEF o
  <2>4. RefusalExplained'
    BY <2>1, NothingToExplain
  <2> QED
    BY <1>1, <2>1, <2>3, <2>4, OneOperation DEF EInv, RunsOK
<1> QED
  BY <1>2, <1>3

\* The queue is looked at again, with the scheduler suspended.
LEMMA RetryKeeps ==
  ASSUME EInv, NEW t \in Workers, Retry(t)
  PROVE  EInv'
<1> DEFINE o == IF Possible(queue, op[t].what) THEN [op[t] EXCEPT !.at = "again"]
                ELSE [op[t] EXCEPT !.at = "blocking", !.moved = {}]
<1>1. /\ running = t /\ op[t].at = "retry" /\ logged' = NULL /\ UNCHANGED <<queue, running>>
      /\ op' = [op EXCEPT ![t] = o]
  BY DEF Retry, NotLogged
<1>2. op[t] \in Op /\ op[t].what \in Operations(queue) /\ op[t].what \in Whats
  BY <1>1 DEF EInv, RefusedOK, Refused, Operations, Whats
<1>3. o \in Op /\ RefusedOK(queue, o) /\ o.at \in {"again", "blocking"}
  <2>1. CASE Possible(queue, op[t].what)
    BY <1>2, <2>1 DEF Op, Ats, RefusedOK, Refused
  <2>2. CASE ~Possible(queue, op[t].what)
    <3>1. op[t].what # "overwrite" /\ queue.waiting = Refusal(queue, op[t].what)
      BY <1>2, <2>2, NotPossible DEF EInv
    <3>2. o \in Op /\ o.at = "blocking" /\ o.moved = {} /\ o.what = op[t].what
      BY <1>2, <2>2 DEF Op, Ats, Refused
    <3> HIDE DEF o
    <3> QED
      BY <1>2, <3>1, <3>2 DEF RefusedOK
  <2> QED
    BY <2>1, <2>2
<1> HIDE DEF o
<1>4. RefusalExplained'
  BY <1>1, NothingToExplain
<1> QED
  BY <1>1, <1>3, <1>4, OneOperation DEF EInv, RunsOK

\* The waiting time is over.
LEMMA TimeOutKeeps ==
  ASSUME EInv, NEW t \in Workers, TimeOut(t)
  PROVE  EInv'
<1> DEFINE again == op[t].what = "receive" /\ Possible(queue, "receive")
           m == IF op[t].what = "receive" THEN {} ELSE op[t].moved
           o == IF again THEN [op[t] EXCEPT !.at = "again"]
                ELSE [op[t] EXCEPT !.at = "refused", !.moved = m]
<1>1. /\ running = t /\ op[t].at = "retry" /\ logged' = NULL /\ UNCHANGED <<queue, running>>
      /\ op' = [op EXCEPT ![t] = o]
  BY DEF TimeOut, NotLogged
<1>2. op[t] \in Op /\ RefusedOK(queue, op[t])
  BY DEF EInv
<1>3. o \in Op /\ RefusedOK(queue, o) /\ o.at \in {"again", "refused"}
  <2>1. CASE again
    BY <1>2, <2>1 DEF Op, Ats, RefusedOK, Refused
  <2>2. CASE ~again
    <3>1. m \in SUBSET {"task", "isr"}
      BY <1>2 DEF Op
    <3>2. m = {} => queue.waiting = Refusal(queue, op[t].what)
      <4>1. CASE op[t].what = "receive"
        BY <4>1, <2>2, NotPossible DEF EInv, Whats
      <4>2. CASE op[t].what # "receive"
        BY <4>2, <1>1, <1>2 DEF RefusedOK, Refused
      <4> QED
        BY <4>1, <4>2
    <3>3. o = [op[t] EXCEPT !.at = "refused", !.moved = m]
      BY <2>2
    <3> HIDE DEF o, m, again
    <3>4. o \in Op /\ o.at = "refused" /\ o.moved = m /\ o.what = op[t].what
      BY <1>2, <3>1, <3>3 DEF Op, Ats, Refused
    <3> QED
      BY <1>1, <1>2, <3>2, <3>4 DEF RefusedOK, Refused
  <2> QED
    BY <2>1, <2>2
<1> HIDE DEF o
<1>4. RefusalExplained'
  BY <1>1, NothingToExplain
<1> QED
  BY <1>1, <1>3, <1>4, OneOperation DEF EInv, RunsOK

\* A task that waited tries again.
LEMMA WakeKeeps ==
  ASSUME EInv, NEW t \in Workers, Wake(t)
  PROVE  EInv'
<1> DEFINE o == [op[t] EXCEPT !.at = "again"]
<1>1. /\ op[t].at = "waiting" /\ logged' = NULL /\ UNCHANGED <<queue, running>>
      /\ op' = [op EXCEPT ![t] = o]
  BY DEF Wake, NotLogged
<1>2. o \in Op /\ RefusedOK(queue, o) /\ o.at = "again"
  BY DEF EInv, Op, Ats, RefusedOK, Refused
<1> HIDE DEF o
<1>3. RefusalExplained'
  BY <1>1, NothingToExplain
<1> QED
  BY <1>1, <1>2, <1>3, OneOperation DEF EInv, RunsOK

\* The hook of a refused operation reads the fill.
LEMMA HookReadsKeeps ==
  ASSUME EInv, NEW t \in Workers, HookReads(t)
  PROVE  EInv'
<1> DEFINE at == IF op[t].at = "refused" THEN "log_failed" ELSE "log_blocked"
           o  == [op[t] EXCEPT !.payload = Payload(queue), !.at = at]
<1>1. /\ running = t /\ op[t].at \in {"refused", "blocking"} /\ logged' = NULL
      /\ UNCHANGED <<queue, running>> /\ op' = [op EXCEPT ![t] = o]
  BY DEF HookReads, NotLogged
<1>2. op[t] \in Op /\ RefusedOK(queue, op[t])
  BY DEF EInv
<1>3. Payload(queue) \in 0 .. 2 \cup {NULL} /\ Payload(queue) \in {NULL, queue.waiting}
  BY DEF EInv, QueueOK, Queue, Payload
<1>4. /\ o \in Op /\ o.at = at /\ o.what = op[t].what /\ o.moved = op[t].moved
      /\ o.payload = Payload(queue)
  BY <1>2, <1>3 DEF Op, Ats, Refused
<1> HIDE DEF o
<1>5. RefusedOK(queue, o)
  BY <1>1, <1>2, <1>3, <1>4 DEF RefusedOK, Refused
<1>6. RefusalExplained'
  BY <1>1, NothingToExplain
<1> QED
  BY <1>1, <1>4, <1>5, <1>6, OneOperation DEF EInv, RunsOK

\* What the hook of a refused operation logs explains the refusal.
LEMMA HookExplains ==
  ASSUME EInv, NEW t \in Workers, queue' = queue,
         NEW outcome \in {"failed", "blocked"}, NEW name,
         op[t].at = IF outcome = "failed" THEN "log_failed" ELSE "log_blocked",
         Log(name, op[t].payload, Of(op[t].what, outcome, FALSE, op[t].moved))
  PROVE  RefusalExplained'
<1> DEFINE of == Of(op[t].what, outcome, FALSE, op[t].moved)
<1>1. of.what = op[t].what /\ of.outcome = outcome /\ of.moved = op[t].moved
  BY DEF Of
<1>2. RefusedOK(queue, op[t]) /\ op[t] \in Op /\ op[t].at \in Refused
  BY DEF EInv, Refused
<1>3. \/ op[t].payload = NULL
      \/ op[t].payload = Refusal(queue, op[t].what)
      \/ outcome = "failed" /\ op[t].moved # {}
      \/ outcome = "blocked" /\ op[t].moved = {"isr"}
  BY <1>2 DEF RefusedOK
<1>4. Log(name, op[t].payload, of)
  OBVIOUS
<1> HIDE DEF of
<1>5. \/ logged' = NULL
      \/ logged'.of = of /\ logged'.payload = op[t].payload
  BY <1>4 DEF Log
<1> QED
  BY <1>1, <1>3, <1>5 DEF RefusalExplained, Refusal

\* The event of a failed operation.
LEMMA HookLogsFailedKeeps ==
  ASSUME EInv, NEW t \in Workers, HookLogsFailed(t)
  PROVE  EInv'
<1>1. /\ running = t /\ op[t].at = "log_failed" /\ UNCHANGED <<queue, running>>
      /\ op' = [op EXCEPT ![t] = NoOp]
  BY DEF HookLogsFailed
<1>2. NoOp \in Op /\ NoOp.at = "idle" /\ RefusedOK(queue, NoOp)
  BY DEF NoOp, Op, Ats, RefusedOK, Refused
<1>3. RefusalExplained'
  BY <1>1, HookExplains DEF HookLogsFailed
<1> QED
  BY <1>1, <1>2, <1>3, OneOperation DEF EInv, RunsOK

\* The event of an operation that waits, after which another task runs.
LEMMA HookLogsBlockedKeeps ==
  ASSUME EInv, NEW t \in Workers, HookLogsBlocked(t)
  PROVE  EInv'
<1> DEFINE o == [op[t] EXCEPT !.at = "waiting"]
<1>1. /\ running = t /\ op[t].at = "log_blocked" /\ queue' = queue /\ running' = Idle
      /\ op' = [op EXCEPT ![t] = o]
  BY DEF HookLogsBlocked
<1>2. o \in Op /\ o.at = "waiting" /\ RefusedOK(queue, o)
  BY DEF EInv, Op, Ats, RefusedOK, Refused
<1> HIDE DEF o
<1>3. RefusalExplained'
  BY <1>1, HookExplains DEF HookLogsBlocked
<1>4. \A u \in Workers \ {t} : op[u].at \notin {"blocking", "log_blocked"}
  BY <1>1 DEF EInv, RunsOK
<1> QED
  BY <1>1, <1>2, <1>3, <1>4, TasksAssumption, OneOperation DEF EInv

\* An operation by an interrupt handler.
LEMMA FromIsrKeeps ==
  ASSUME EInv, NEW what \in Whats, FromIsr(what)
  PROVE  EInv'
<1>1. /\ what \in Operations(queue) /\ ~IsMutex(queue) /\ running' = running
      /\ queue' = IF Possible(queue, what) THEN After(queue, what, NULL) ELSE queue
      /\ op' = IF Possible(queue, what) THEN Noticed("isr") ELSE op
  BY DEF FromIsr
<1>2. RefusalExplained'
  <2>1. \E name, payload, outcome : Log(name, payload, Of(what, outcome, TRUE, {}))
    BY DEF FromIsr
  <2>2. \A outcome : Of(what, outcome, TRUE, {}).isr
    BY DEF Of
  <2> QED
    BY <2>1, <2>2, NothingToExplain
<1>3. CASE Possible(queue, what)
  <2>1. QueueOK(queue') /\ queue'.type = queue.type /\ queue'.length = queue.length
    BY <1>1, <1>3, AfterOperation DEF EInv
  <2>2. ASSUME NEW u \in Workers
        PROVE  op'[u] \in Op /\ op'[u].at = op[u].at /\ RefusedOK(queue', op'[u])
    BY <1>1, <1>3, <2>1, NoticedOK
  <2>3. op' \in [Workers -> Op]
    BY <1>1, <1>3, <2>2 DEF Noticed
  <2> QED
    BY <1>1, <1>2, <2>1, <2>2, <2>3 DEF EInv, RunsOK
<1>4. CASE ~Possible(queue, what)
  BY <1>1, <1>2, <1>4 DEF EInv, RunsOK
<1> QED
  BY <1>3, <1>4

\* The other events are of no operation on the queue.
LEMMA TaskEventsKeep ==
  ASSUME EInv,
         \/ \E t \in Workers \cup {Idle} : Switch(t)
         \/ TaskCreate
         \/ \E name : TaskHook(name)
  PROVE  EInv'
<1>1. UNCHANGED <<queue, op>>
  BY DEF Switch, TaskCreate, TaskHook
<1>2. running' \in Workers \cup {Idle} /\ \A u \in Workers : RunsOK(u)'
  <2>1. ASSUME NEW t \in Workers \cup {Idle}, Switch(t)
        PROVE  running' = t /\ \A u \in Workers : RunsOK(u)'
    BY <2>1, TasksAssumption DEF Switch, Suspended, EInv, RunsOK
  <2>2. CASE running' = running
    BY <1>1, <2>2 DEF EInv, RunsOK
  <2> QED
    BY <2>1, <2>2 DEF TaskCreate, TaskHook
<1>3. RefusalExplained'
  <2>1. ASSUME NEW t, Switch(t) PROVE RefusalExplained'
    <3>1. Of("switch", "done", FALSE, {}).outcome = "done"
      BY DEF Of
    <3>2. logged' = NULL \/ logged'.of = Of("switch", "done", FALSE, {})
      BY <2>1 DEF Switch
    <3> QED
      BY <3>1, <3>2 DEF RefusalExplained
  <2>2. ASSUME TaskCreate PROVE RefusalExplained'
    BY <2>2 DEF TaskCreate, RefusalExplained, Of
  <2>3. ASSUME NEW name, TaskHook(name) PROVE RefusalExplained'
    <3>1. Of("task", "done", FALSE, {}).outcome = "done"
      BY DEF Of
    <3> QED
      BY <2>3, <3>1, NothingToExplain DEF TaskHook
  <2> QED
    BY <2>1, <2>2, <2>3
<1> QED
  BY <1>1, <1>2, <1>3 DEF EInv

\* The invariant holds throughout.
THEOREM EventsInvariant == Spec => []EInv
<1>1. Init => EInv
  <2> SUFFICES ASSUME Init PROVE EInv
    OBVIOUS
  <2>1. QueueOK(queue)
    <3>1. queue \in Queue /\ queue.waiting <= queue.length /\ queue.holder = NULL
          /\ (IsMutex(queue) => queue.length = 1 /\ queue.waiting = 1)
      BY DEF Init, Queues, Queue, Types, IsMutex
    <3> QED
      BY <3>1 DEF QueueOK
  <2>2. NoOp \in Op /\ NoOp.at = "idle"
    BY DEF NoOp, Op, Ats
  <2>3. op \in [Workers -> Op] /\ \A t \in Workers : RefusedOK(queue, op[t]) /\ RunsOK(t)
    BY <2>2 DEF Init, RefusedOK, RunsOK, Refused
  <2> QED
    BY <2>1, <2>3 DEF Init, EInv, RefusalExplained
<1>2. EInv /\ [Next]_vars => EInv'
  <2> SUFFICES ASSUME EInv, [Next]_vars PROVE EInv'
    OBVIOUS
  <2>1. CASE UNCHANGED vars
    BY <2>1 DEF vars, EInv, RunsOK, RefusalExplained
  <2> QED
    BY <2>1, AttemptKeeps, RetryKeeps, TimeOutKeeps, WakeKeeps, HookReadsKeeps,
       HookLogsFailedKeeps, HookLogsBlockedKeeps, FromIsrKeeps, TaskEventsKeep DEF Next
<1> QED
  BY <1>1, <1>2, PTL DEF Spec

\* However many tasks and interrupt handlers use the queue, it is never over- or underfull, a
\* mutex is held just while it is not available, and a task that waits does not run.
THEOREM EventsTypes == Spec => []TypeOK
<1>1. EInv => TypeOK
  <2> SUFFICES ASSUME EInv PROVE TypeOK
    OBVIOUS
  <2>1. /\ queue.waiting \in 0 .. queue.length
        /\ IsMutex(queue) => (queue.holder = NULL) = (queue.waiting = 1)
    BY DEF EInv, QueueOK, Queue
  <2> QED
    BY <2>1 DEF EInv, TypeOK, RunsOK
<1> QED
  BY <1>1, EventsInvariant, PTL

\* The hook of a refused operation runs after the critical section that refused it: the fill it
\* logs is the one that refused it, unless the queue was changed in between, and one that has to
\* wait can only have been overtaken by an interrupt handler.
THEOREM RefusalsAreExplained == Spec => []RefusalExplained
<1>1. EInv => RefusalExplained
  BY DEF EInv
<1> QED
  BY <1>1, EventsInvariant, PTL

--------------------------------------------------------------------------------
\* The manifest's rows

\* The rows of one class have identifiers in a range of their own.
LEMMA Ranges ==
  /\ \A r \in TaskRows : r.id \in Int /\ 65500 < r.id
  /\ \A r \in QueueRows : r.id \in Int /\ 65300 < r.id /\ r.id <= 65500
  /\ \A r \in SemaphoreRows : r.id \in Int /\ 65100 < r.id /\ r.id <= 65300
  /\ \A r \in MutexRows : r.id \in Int /\ r.id <= 65100
<1>1. \A r \in TaskRows : r.id \in Int /\ 65500 < r.id
  BY DEF TaskRows, Row
<1>2. \A r \in QueueRows : r.id \in Int /\ 65300 < r.id /\ r.id <= 65500
  BY DEF QueueRows, Row
<1>3. \A r \in SemaphoreRows : r.id \in Int /\ 65100 < r.id /\ r.id <= 65300
  BY DEF SemaphoreRows, Row
<1>4. \A r \in MutexRows : r.id \in Int /\ r.id <= 65100
  BY DEF MutexRows, Row
<1> QED
  BY <1>1, <1>2, <1>3, <1>4

\* The range of an identifier tells the class of its row.
LEMMA ClassById ==
  ASSUME NEW r \in Manifest
  PROVE  /\ r.id \in Int
         /\ 65500 < r.id => r \in TaskRows
         /\ 65300 < r.id /\ r.id <= 65500 => r \in QueueRows
         /\ 65100 < r.id /\ r.id <= 65300 => r \in SemaphoreRows
         /\ r.id <= 65100 => r \in MutexRows
<1>1. CASE r \in TaskRows
  BY <1>1, Ranges
<1>2. CASE r \in QueueRows
  BY <1>2, Ranges
<1>3. CASE r \in SemaphoreRows
  BY <1>3, Ranges
<1>4. CASE r \in MutexRows
  BY <1>4, Ranges
<1> QED
  BY <1>1, <1>2, <1>3, <1>4 DEF Manifest

\* An identifier has one name.
LEMMA OneName ==
  ASSUME NEW r \in Manifest, NEW s \in Manifest, r.id = s.id
  PROVE  r.name = s.name
<1>1. CASE 65500 < r.id
  <2>1. r \in TaskRows /\ s \in TaskRows
    BY <1>1, ClassById
  <2> QED
    BY <2>1 DEF TaskRows, Row
<1>2. CASE 65300 < r.id /\ r.id <= 65500
  <2>1. r \in QueueRows /\ s \in QueueRows
    BY <1>2, ClassById
  <2> QED
    BY <2>1 DEF QueueRows, Row
<1>3. CASE 65100 < r.id /\ r.id <= 65300
  <2>1. r \in SemaphoreRows /\ s \in SemaphoreRows
    BY <1>3, ClassById
  <2> QED
    BY <2>1 DEF SemaphoreRows, Row
<1>4. CASE r.id <= 65100
  <2>1. r \in MutexRows /\ s \in MutexRows
    BY <1>4, ClassById
  <2> QED
    BY <2>1 DEF MutexRows, Row
<1>5. r.id \in Int
  BY ClassById
<1> QED
  BY <1>1, <1>2, <1>3, <1>4, <1>5

\* The manifest has a row for an event of this name.
Listed(name) == \E row \in Manifest : row.name = name

\* The tags update-manifest.py gives an event of this name.
TagsOf(name) ==
  {Class[Head(name)]} \cup (IF Has("FAILED", name) THEN {"FAILURE"} ELSE {})
                      \cup (IF Has("FROMISR", name) THEN {"ISR"} ELSE {})

\* The identifier of a listed event leads to its row and to no other.
LEMMA RowOfEvent ==
  ASSUME NEW name, Listed(name)
  PROVE  \E row \in Manifest :
           /\ row.id = IdOf(name) /\ row.name = name /\ row.tags = TagsOf(name)
           /\ \A other \in Manifest : other.id = IdOf(name) => other = row
           /\ row = CHOOSE r \in Manifest : r.id = IdOf(name)
<1>1. \A e : /\ ManifestRow(e).id = e.id /\ ManifestRow(e).name = e.name
             /\ ManifestRow(e).tags = TagsOf(e.name)
  BY DEF ManifestRow, TagsOf
<1>2. \A e, f : e.id = f.id /\ e.name = f.name => ManifestRow(e) = ManifestRow(f)
  BY DEF ManifestRow
<1>3. \A row \in Manifest : \E e \in TRACE_EVENT : row = ManifestRow(e)
  BY ManifestIsCurrent
<1>4. \A e \in TRACE_EVENT : ManifestRow(e) \in Manifest
  BY ManifestIsCurrent
<1>5. \E e \in TRACE_EVENT : e.name = name
  BY <1>1, <1>3 DEF Listed
<1>6. PICK e \in TRACE_EVENT : e.name = name /\ e.id = IdOf(name)
  BY <1>5 DEF IdOf
<1> DEFINE row == ManifestRow(e)
<1>7. row \in Manifest /\ row.id = IdOf(name) /\ row.name = name /\ row.tags = TagsOf(name)
  BY <1>1, <1>4, <1>6
<1>8. ASSUME NEW other \in Manifest, other.id = IdOf(name) PROVE other = row
  <2>1. PICK f \in TRACE_EVENT : other = ManifestRow(f)
    BY <1>3
  <2>2. f.id = e.id /\ f.name = e.name
    BY <2>1, <1>1, <1>6, <1>7, <1>8, OneName
  <2> QED
    BY <2>1, <2>2, <1>2
<1> HIDE DEF row
<1> QED
  BY <1>7, <1>8

--------------------------------------------------------------------------------
\* The names of events

\* A word at the end of a name.
LEMMA AddedLast ==
  ASSUME NEW S, NEW s \in Seq(S), NEW e \in S, NEW r \in Seq(S),
         Len(r) = Len(s) + 1, \A i \in 1 .. Len(s) : r[i] = s[i], r[Len(s) + 1] = e
  PROVE  s \o <<e>> = r
<1>1. Len(s) \in Nat
  BY LenProperties
<1>2. s \o <<e>> = Append(s, e)
  BY AppendIsConcat
<1>3. /\ Append(s, e) \in Seq(S) /\ Len(Append(s, e)) = Len(r)
      /\ \A i \in 1 .. Len(s) : Append(s, e)[i] = s[i]
      /\ Append(s, e)[Len(s) + 1] = e
  BY AppendProperties
<1>4. \A i \in 1 .. Len(r) : Append(s, e)[i] = r[i]
  <2>1. \A i \in 1 .. Len(r) : i \in 1 .. Len(s) \/ i = Len(s) + 1
    BY <1>1
  <2> QED
    BY <2>1, <1>3
<1>5. Append(s, e) = r
  BY <1>3, <1>4, SeqEqual
<1> QED
  BY <1>2, <1>5

\* The names that are put together of two, three or four words and another.
LEMMA Joined ==
  /\ \A a, b, e : <<a, b>> \o <<e>> = <<a, b, e>>
  /\ \A a, b, c, e : <<a, b, c>> \o <<e>> = <<a, b, c, e>>
  /\ \A a, b, c, d, e : <<a, b, c, d>> \o <<e>> = <<a, b, c, d, e>>
<1>1. ASSUME NEW a, NEW b, NEW e PROVE <<a, b>> \o <<e>> = <<a, b, e>>
  <2> DEFINE S == {a, b, e}
             s == <<a, b>>
             r == <<a, b, e>>
  <2>1. /\ e \in S /\ s \in Seq(S) /\ r \in Seq(S) /\ Len(r) = Len(s) + 1
        /\ \A i \in 1 .. Len(s) : r[i] = s[i]
        /\ r[Len(s) + 1] = e
    OBVIOUS
  <2> HIDE DEF S, s, r
  <2>2. s \o <<e>> = r
    BY <2>1, AddedLast
  <2> QED
    BY <2>2 DEF s, r
<1>2. ASSUME NEW a, NEW b, NEW c, NEW e PROVE <<a, b, c>> \o <<e>> = <<a, b, c, e>>
  <2> DEFINE S == {a, b, c, e}
             s == <<a, b, c>>
             r == <<a, b, c, e>>
  <2>1. /\ e \in S /\ s \in Seq(S) /\ r \in Seq(S) /\ Len(r) = Len(s) + 1
        /\ \A i \in 1 .. Len(s) : r[i] = s[i]
        /\ r[Len(s) + 1] = e
    OBVIOUS
  <2> HIDE DEF S, s, r
  <2>2. s \o <<e>> = r
    BY <2>1, AddedLast
  <2> QED
    BY <2>2 DEF s, r
<1>3. ASSUME NEW a, NEW b, NEW c, NEW d, NEW e
      PROVE  <<a, b, c, d>> \o <<e>> = <<a, b, c, d, e>>
  <2> DEFINE S == {a, b, c, d, e}
             s == <<a, b, c, d>>
             r == <<a, b, c, d, e>>
  <2>1. /\ e \in S /\ s \in Seq(S) /\ r \in Seq(S) /\ Len(r) = Len(s) + 1
        /\ \A i \in 1 .. Len(s) : r[i] = s[i]
        /\ r[Len(s) + 1] = e
    OBVIOUS
  <2> HIDE DEF S, s, r
  <2>2. s \o <<e>> = r
    BY <2>1, AddedLast
  <2> QED
    BY <2>2 DEF s, r
<1> QED
  BY <1>1, <1>2, <1>3

\* Nothing is added to an event that was done.
LEMMA JoinedNothing ==
  /\ \A a, b : <<a, b>> \o <<>> = <<a, b>>
  /\ \A a, b, c : <<a, b, c>> \o <<>> = <<a, b, c>>
  /\ \A a, b, c, d : <<a, b, c, d>> \o <<>> = <<a, b, c, d>>
<1>1. ASSUME NEW a, NEW b PROVE <<a, b>> \o <<>> = <<a, b>>
  <2>1. <<a, b>> \in Seq({a, b})
    OBVIOUS
  <2> QED
    BY <2>1, ConcatEmptySeq, Zenon
<1>2. ASSUME NEW a, NEW b, NEW c PROVE <<a, b, c>> \o <<>> = <<a, b, c>>
  <2>1. <<a, b, c>> \in Seq({a, b, c})
    OBVIOUS
  <2> QED
    BY <2>1, ConcatEmptySeq, Zenon
<1>3. ASSUME NEW a, NEW b, NEW c, NEW d PROVE <<a, b, c, d>> \o <<>> = <<a, b, c, d>>
  <2>1. <<a, b, c, d>> \in Seq({a, b, c, d})
    OBVIOUS
  <2> QED
    BY <2>1, ConcatEmptySeq, Zenon
<1> QED
  BY <1>1, <1>2, <1>3

--------------------------------------------------------------------------------
\* The events and their rows

\* A row of an event with a payload.
PayloadRow(id, name, tags) == Row(id, name, tags, TRUE)

\* The operations that put something into the queue.
Gives == {"send", "front", "overwrite"}

\* What the words of an event's name say: the class of what it is about, whether something was
\* put into a queue, what came of it, and whether an interrupt handler did it.
Means(name, class, what, outcome, by) ==
  /\ Class[Head(name)] = class
  /\ Has("FAILED", name) <=> outcome = "failed"
  /\ Has("BLOCKED", name) <=> outcome = "blocked"
  /\ Has("FROMISR", name) <=> by = "isr"
  /\ (Has("SEND", name) \/ Has("GIVE", name)) <=> what \in Gives

\* The manifest lists the event, and its name says what happened.
Decodes(name, class, what, outcome, by) ==
  Listed(name) /\ Means(name, class, what, outcome, by)

\* The rows are found by the names in them.
LEMMA RowListed ==
  \A id, name, tags : PayloadRow(id, name, tags) \in Manifest => Listed(name)
BY DEF Listed, PayloadRow, Row

\* The events of a queue have rows and say what happened.
LEMMA QueueEvents ==
  /\ Decodes(<<"QUEUE", "RECEIVE">>, "queue", "receive", "done", "task")
  /\ Decodes(<<"QUEUE", "RECEIVE", "BLOCKED">>, "queue", "receive", "blocked", "task")
  /\ Decodes(<<"QUEUE", "RECEIVE", "FAILED">>, "queue", "receive", "failed", "task")
  /\ Decodes(<<"QUEUE", "RECEIVE", "FROMISR">>, "queue", "receive", "done", "isr")
  /\ Decodes(<<"QUEUE", "RECEIVE", "FROMISR", "FAILED">>, "queue", "receive", "failed", "isr")
  /\ \A what \in Gives :
       /\ Decodes(<<"QUEUE", "SEND">>, "queue", what, "done", "task")
       /\ Decodes(<<"QUEUE", "SEND", "BLOCKED">>, "queue", what, "blocked", "task")
       /\ Decodes(<<"QUEUE", "SEND", "FAILED">>, "queue", what, "failed", "task")
       /\ Decodes(<<"QUEUE", "SEND", "FRONT">>, "queue", what, "done", "task")
       /\ Decodes(<<"QUEUE", "SEND", "FRONT", "BLOCKED">>, "queue", what, "blocked", "task")
       /\ Decodes(<<"QUEUE", "SEND", "FRONT", "FAILED">>, "queue", what, "failed", "task")
       /\ Decodes(<<"QUEUE", "SEND", "FROMISR">>, "queue", what, "done", "isr")
       /\ Decodes(<<"QUEUE", "SEND", "FROMISR", "FAILED">>, "queue", what, "failed", "isr")
       /\ Decodes(<<"QUEUE", "SEND", "FRONT", "FROMISR">>, "queue", what, "done", "isr")
       /\ Decodes(<<"QUEUE", "SEND", "FRONT", "FROMISR", "FAILED">>, "queue", what, "failed", "isr")
<1>1. /\ PayloadRow(65435, <<"QUEUE", "SEND">>, {"queue"}) \in Manifest
      /\ PayloadRow(65434, <<"QUEUE", "SEND", "BLOCKED">>, {"queue"}) \in Manifest
      /\ PayloadRow(65433, <<"QUEUE", "SEND", "FAILED">>, {"queue", "FAILURE"}) \in Manifest
      /\ PayloadRow(65432, <<"QUEUE", "SEND", "FRONT">>, {"queue"}) \in Manifest
      /\ PayloadRow(65431, <<"QUEUE", "SEND", "FRONT", "BLOCKED">>, {"queue"}) \in Manifest
      /\ PayloadRow(65430, <<"QUEUE", "SEND", "FRONT", "FAILED">>,
                    {"queue", "FAILURE"}) \in Manifest
      /\ PayloadRow(65429, <<"QUEUE", "SEND", "FROMISR">>, {"queue", "ISR"}) \in Manifest
      /\ PayloadRow(65428, <<"QUEUE", "SEND", "FROMISR", "FAILED">>,
                    {"queue", "FAILURE", "ISR"}) \in Manifest
      /\ PayloadRow(65427, <<"QUEUE", "SEND", "FRONT", "FROMISR">>, {"queue", "ISR"}) \in Manifest
      /\ PayloadRow(65426, <<"QUEUE", "SEND", "FRONT", "FROMISR", "FAILED">>,
                    {"queue", "FAILURE", "ISR"}) \in Manifest
      /\ PayloadRow(65335, <<"QUEUE", "RECEIVE">>, {"queue"}) \in Manifest
      /\ PayloadRow(65334, <<"QUEUE", "RECEIVE", "BLOCKED">>, {"queue"}) \in Manifest
      /\ PayloadRow(65333, <<"QUEUE", "RECEIVE", "FAILED">>, {"queue", "FAILURE"}) \in Manifest
      /\ PayloadRow(65332, <<"QUEUE", "RECEIVE", "FROMISR">>, {"queue", "ISR"}) \in Manifest
      /\ PayloadRow(65331, <<"QUEUE", "RECEIVE", "FROMISR", "FAILED">>,
                    {"queue", "FAILURE", "ISR"}) \in Manifest
  BY DEF Manifest, QueueRows, PayloadRow
<1>2. /\ Means(<<"QUEUE", "RECEIVE">>, "queue", "receive", "done", "task")
      /\ Means(<<"QUEUE", "RECEIVE", "BLOCKED">>, "queue", "receive", "blocked", "task")
      /\ Means(<<"QUEUE", "RECEIVE", "FAILED">>, "queue", "receive", "failed", "task")
      /\ Means(<<"QUEUE", "RECEIVE", "FROMISR">>, "queue", "receive", "done", "isr")
      /\ Means(<<"QUEUE", "RECEIVE", "FROMISR", "FAILED">>, "queue", "receive", "failed", "isr")
  BY DEF Means, Has, Class, Gives
<1>3. ASSUME NEW what \in Gives
      PROVE  /\ Means(<<"QUEUE", "SEND">>, "queue", what, "done", "task")
             /\ Means(<<"QUEUE", "SEND", "BLOCKED">>, "queue", what, "blocked", "task")
             /\ Means(<<"QUEUE", "SEND", "FAILED">>, "queue", what, "failed", "task")
             /\ Means(<<"QUEUE", "SEND", "FRONT">>, "queue", what, "done", "task")
             /\ Means(<<"QUEUE", "SEND", "FRONT", "BLOCKED">>, "queue", what, "blocked", "task")
             /\ Means(<<"QUEUE", "SEND", "FRONT", "FAILED">>, "queue", what, "failed", "task")
             /\ Means(<<"QUEUE", "SEND", "FROMISR">>, "queue", what, "done", "isr")
             /\ Means(<<"QUEUE", "SEND", "FROMISR", "FAILED">>, "queue", what, "failed", "isr")
             /\ Means(<<"QUEUE", "SEND", "FRONT", "FROMISR">>, "queue", what, "done", "isr")
             /\ Means(<<"QUEUE", "SEND", "FRONT", "FROMISR", "FAILED">>,
                      "queue", what, "failed", "isr")
  BY <1>3 DEF Means, Has, Class, Gives
<1> QED
  BY <1>1, <1>2, <1>3, RowListed DEF Decodes

\* The events of a semaphore have rows and say what happened.
LEMMA SemaphoreEvents ==
  /\ Decodes(<<"SEMAPHORE", "TAKE">>, "semaphore", "receive", "done", "task")
  /\ Decodes(<<"SEMAPHORE", "TAKE", "BLOCKED">>, "semaphore", "receive", "blocked", "task")
  /\ Decodes(<<"SEMAPHORE", "TAKE", "FAILED">>, "semaphore", "receive", "failed", "task")
  /\ Decodes(<<"SEMAPHORE", "TAKE", "FROMISR">>, "semaphore", "receive", "done", "isr")
  /\ Decodes(<<"SEMAPHORE", "TAKE", "FROMISR", "FAILED">>, "semaphore", "receive", "failed", "isr")
  /\ \A what \in Gives :
       /\ Decodes(<<"SEMAPHORE", "GIVE">>, "semaphore", what, "done", "task")
       /\ Decodes(<<"SEMAPHORE", "GIVE", "BLOCKED">>, "semaphore", what, "blocked", "task")
       /\ Decodes(<<"SEMAPHORE", "GIVE", "FAILED">>, "semaphore", what, "failed", "task")
       /\ Decodes(<<"SEMAPHORE", "GIVE", "FROMISR">>, "semaphore", what, "done", "isr")
       /\ Decodes(<<"SEMAPHORE", "GIVE", "FROMISR", "FAILED">>, "semaphore", what, "failed", "isr")
<1>1. /\ PayloadRow(65235, <<"SEMAPHORE", "GIVE">>, {"semaphore"}) \in Manifest
      /\ PayloadRow(65234, <<"SEMAPHORE", "GIVE", "BLOCKED">>, {"semaphore"}) \in Manifest
      /\ PayloadRow(65233, <<"SEMAPHORE", "GIVE", "FAILED">>,
                    {"semaphore", "FAILURE"}) \in Manifest
      /\ PayloadRow(65232, <<"SEMAPHORE", "GIVE", "FROMISR">>, {"semaphore", "ISR"}) \in Manifest
      /\ PayloadRow(65231, <<"SEMAPHORE", "GIVE", "FROMISR", "FAILED">>,
                    {"semaphore", "FAILURE", "ISR"}) \in Manifest
      /\ PayloadRow(65135, <<"SEMAPHORE", "TAKE">>, {"semaphore"}) \in Manifest
      /\ PayloadRow(65134, <<"SEMAPHORE", "TAKE", "BLOCKED">>, {"semaphore"}) \in Manifest
      /\ PayloadRow(65133, <<"SEMAPHORE", "TAKE", "FAILED">>,
                    {"semaphore", "FAILURE"}) \in Manifest
      /\ PayloadRow(65132, <<"SEMAPHORE", "TAKE", "FROMISR">>, {"semaphore", "ISR"}) \in Manifest
      /\ PayloadRow(65131, <<"SEMAPHORE", "TAKE", "FROMISR", "FAILED">>,
                    {"semaphore", "FAILURE", "ISR"}) \in Manifest
  BY DEF Manifest, SemaphoreRows, PayloadRow
<1>2. /\ Means(<<"SEMAPHORE", "TAKE">>, "semaphore", "receive", "done", "task")
      /\ Means(<<"SEMAPHORE", "TAKE", "BLOCKED">>, "semaphore", "receive", "blocked", "task")
      /\ Means(<<"SEMAPHORE", "TAKE", "FAILED">>, "semaphore", "receive", "failed", "task")
      /\ Means(<<"SEMAPHORE", "TAKE", "FROMISR">>, "semaphore", "receive", "done", "isr")
      /\ Means(<<"SEMAPHORE", "TAKE", "FROMISR", "FAILED">>,
               "semaphore", "receive", "failed", "isr")
  BY DEF Means, Has, Class, Gives
<1>3. ASSUME NEW what \in Gives
      PROVE  /\ Means(<<"SEMAPHORE", "GIVE">>, "semaphore", what, "done", "task")
             /\ Means(<<"SEMAPHORE", "GIVE", "BLOCKED">>, "semaphore", what, "blocked", "task")
             /\ Means(<<"SEMAPHORE", "GIVE", "FAILED">>, "semaphore", what, "failed", "task")
             /\ Means(<<"SEMAPHORE", "GIVE", "FROMISR">>, "semaphore", what, "done", "isr")
             /\ Means(<<"SEMAPHORE", "GIVE", "FROMISR", "FAILED">>,
                      "semaphore", what, "failed", "isr")
  BY <1>3 DEF Means, Has, Class, Gives
<1> QED
  BY <1>1, <1>2, <1>3, RowListed DEF Decodes

\* The events of a mutex have rows and say what happened.
LEMMA MutexEvents ==
  /\ Decodes(<<"MUTEX", "TAKE">>, "mutex", "receive", "done", "task")
  /\ Decodes(<<"MUTEX", "TAKE", "BLOCKED">>, "mutex", "receive", "blocked", "task")
  /\ Decodes(<<"MUTEX", "TAKE", "FAILED">>, "mutex", "receive", "failed", "task")
  /\ \A what \in Gives :
       /\ Decodes(<<"MUTEX", "GIVE">>, "mutex", what, "done", "task")
       /\ Decodes(<<"MUTEX", "GIVE", "BLOCKED">>, "mutex", what, "blocked", "task")
       /\ Decodes(<<"MUTEX", "GIVE", "FAILED">>, "mutex", what, "failed", "task")
<1>1. /\ PayloadRow(65035, <<"MUTEX", "GIVE">>, {"mutex"}) \in Manifest
      /\ PayloadRow(65034, <<"MUTEX", "GIVE", "BLOCKED">>, {"mutex"}) \in Manifest
      /\ PayloadRow(65033, <<"MUTEX", "GIVE", "FAILED">>, {"mutex", "FAILURE"}) \in Manifest
      /\ PayloadRow(64935, <<"MUTEX", "TAKE">>, {"mutex"}) \in Manifest
      /\ PayloadRow(64934, <<"MUTEX", "TAKE", "BLOCKED">>, {"mutex"}) \in Manifest
      /\ PayloadRow(64933, <<"MUTEX", "TAKE", "FAILED">>, {"mutex", "FAILURE"}) \in Manifest
  BY DEF Manifest, MutexRows, PayloadRow
<1>2. /\ Means(<<"MUTEX", "TAKE">>, "mutex", "receive", "done", "task")
      /\ Means(<<"MUTEX", "TAKE", "BLOCKED">>, "mutex", "receive", "blocked", "task")
      /\ Means(<<"MUTEX", "TAKE", "FAILED">>, "mutex", "receive", "failed", "task")
  BY DEF Means, Has, Class, Gives
<1>3. ASSUME NEW what \in Gives
      PROVE  /\ Means(<<"MUTEX", "GIVE">>, "mutex", what, "done", "task")
             /\ Means(<<"MUTEX", "GIVE", "BLOCKED">>, "mutex", what, "blocked", "task")
             /\ Means(<<"MUTEX", "GIVE", "FAILED">>, "mutex", what, "failed", "task")
  BY <1>3 DEF Means, Has, Class, Gives
<1> QED
  BY <1>1, <1>2, <1>3, RowListed DEF Decodes

\* The events of a task have rows and say so.
LEMMA TaskEvents ==
  \A what \in {"task", "switch"} :
    /\ Decodes(<<"TASK", "CREATE">>, "task", what, "done", "task")
    /\ Decodes(<<"TASK", "SUSPEND">>, "task", what, "done", "task")
    /\ Decodes(<<"TASK", "DELAY">>, "task", what, "done", "task")
    /\ Decodes(<<"TASK", "DELAY", "UNTIL">>, "task", what, "done", "task")
    /\ Decodes(<<"TASK", "SWITCHED", "IN">>, "task", what, "done", "task")
    /\ Decodes(<<"TASK", "SWITCHED", "OUT">>, "task", what, "done", "task")
<1>1. /\ PayloadRow(65534, <<"TASK", "CREATE">>, {"task"}) \in Manifest
      /\ PayloadRow(65531, <<"TASK", "SUSPEND">>, {"task"}) \in Manifest
      /\ PayloadRow(65530, <<"TASK", "DELAY">>, {"task"}) \in Manifest
      /\ PayloadRow(65529, <<"TASK", "DELAY", "UNTIL">>, {"task"}) \in Manifest
      /\ PayloadRow(65533, <<"TASK", "SWITCHED", "IN">>, {"task"}) \in Manifest
  BY DEF Manifest, TaskRows, PayloadRow
<1>2. Listed(<<"TASK", "SWITCHED", "OUT">>)
  <2> DEFINE row == Row(65532, <<"TASK", "SWITCHED", "OUT">>, {"task"}, FALSE)
  <2>1. row \in Manifest
    BY DEF Manifest, TaskRows
  <2>2. row.name = <<"TASK", "SWITCHED", "OUT">>
    BY DEF Row
  <2> HIDE DEF row
  <2> QED
    BY <2>1, <2>2 DEF Listed
<1>3. ASSUME NEW what \in {"task", "switch"}
      PROVE  /\ Means(<<"TASK", "CREATE">>, "task", what, "done", "task")
             /\ Means(<<"TASK", "SUSPEND">>, "task", what, "done", "task")
             /\ Means(<<"TASK", "DELAY">>, "task", what, "done", "task")
             /\ Means(<<"TASK", "DELAY", "UNTIL">>, "task", what, "done", "task")
             /\ Means(<<"TASK", "SWITCHED", "IN">>, "task", what, "done", "task")
             /\ Means(<<"TASK", "SWITCHED", "OUT">>, "task", what, "done", "task")
  BY <1>3 DEF Means, Has, Class, Gives
<1> QED
  BY <1>1, <1>2, <1>3, RowListed DEF Decodes

\* The class of a queue.
QueueClass(q) == IF IsMutex(q) THEN "mutex" ELSE IF IsSemaphore(q) THEN "semaphore" ELSE "queue"

\* Whose event an operation's is, and its first words.
StartsWith(q, what, class, stem) == QueueClass(q) = class /\ Stem(q, what) = stem

\* The first words are these.
LEMMA StemOf ==
  ASSUME NEW q, q.type \in Types, NEW what \in Operations(q)
  PROVE  \/ what = "receive" /\ StartsWith(q, what, "mutex", <<"MUTEX", "TAKE">>)
         \/ what \in Gives /\ StartsWith(q, what, "mutex", <<"MUTEX", "GIVE">>)
         \/ what = "receive" /\ StartsWith(q, what, "semaphore", <<"SEMAPHORE", "TAKE">>)
         \/ what \in Gives /\ StartsWith(q, what, "semaphore", <<"SEMAPHORE", "GIVE">>)
         \/ what = "receive" /\ StartsWith(q, what, "queue", <<"QUEUE", "RECEIVE">>)
         \/ what \in Gives /\ StartsWith(q, what, "queue", <<"QUEUE", "SEND", "FRONT">>)
         \/ what \in Gives /\ StartsWith(q, what, "queue", <<"QUEUE", "SEND">>)
<1>1. what = "receive" \/ what \in Gives
  BY DEF Operations, Gives
<1>2. what \in Gives => what # "receive"
  BY DEF Gives
<1>3. IsMutex(q) \/ IsSemaphore(q) => ~AtFront(what)
  BY DEF IsMutex, IsSemaphore, Operations, AtFront
<1>4. CASE IsMutex(q)
  <2>1. CASE what = "receive"
    BY <1>4, <2>1 DEF Stem, QueueClass, StartsWith, IsMutex, IsSemaphore
  <2>2. CASE what \in Gives
    BY <1>2, <1>3, <1>4, <2>2 DEF Stem, QueueClass, StartsWith, IsMutex, IsSemaphore
  <2> QED
    BY <1>1, <2>1, <2>2
<1>5. CASE ~IsMutex(q) /\ IsSemaphore(q)
  <2>1. CASE what = "receive"
    BY <1>5, <2>1 DEF Stem, QueueClass, StartsWith
  <2>2. CASE what \in Gives
    BY <1>2, <1>3, <1>5, <2>2 DEF Stem, QueueClass, StartsWith
  <2> QED
    BY <1>1, <2>1, <2>2
<1>6. CASE ~IsMutex(q) /\ ~IsSemaphore(q)
  <2>1. CASE what = "receive"
    BY <1>6, <2>1 DEF Stem, QueueClass, StartsWith
  <2>2. CASE what \in Gives /\ AtFront(what)
    BY <1>2, <1>6, <2>2 DEF Stem, QueueClass, StartsWith
  <2>3. CASE what \in Gives /\ ~AtFront(what)
    BY <1>2, <1>6, <2>3 DEF Stem, QueueClass, StartsWith
  <2> QED
    BY <1>1, <2>1, <2>2, <2>3
<1> QED
  BY <1>4, <1>5, <1>6

\* The words that follow them.
LEMMA EventNames ==
  ASSUME NEW q, NEW what
  PROVE  /\ \A a, b : Stem(q, what) = <<a, b>> =>
              /\ Event(q, what, "done") = <<a, b>>
              /\ Event(q, what, "blocked") = <<a, b, "BLOCKED">>
              /\ Event(q, what, "failed") = <<a, b, "FAILED">>
              /\ EventFromIsr(q, what, "done") = <<a, b, "FROMISR">>
              /\ EventFromIsr(q, what, "failed") = <<a, b, "FROMISR", "FAILED">>
         /\ \A a, b, c : Stem(q, what) = <<a, b, c>> =>
              /\ Event(q, what, "done") = <<a, b, c>>
              /\ Event(q, what, "blocked") = <<a, b, c, "BLOCKED">>
              /\ Event(q, what, "failed") = <<a, b, c, "FAILED">>
              /\ EventFromIsr(q, what, "done") = <<a, b, c, "FROMISR">>
              /\ EventFromIsr(q, what, "failed") = <<a, b, c, "FROMISR", "FAILED">>
<1>1. /\ Event(q, what, "done") = Stem(q, what) \o <<>>
      /\ Event(q, what, "blocked") = Stem(q, what) \o <<"BLOCKED">>
      /\ Event(q, what, "failed") = Stem(q, what) \o <<"FAILED">>
      /\ EventFromIsr(q, what, "done") = Stem(q, what) \o <<"FROMISR">> \o <<>>
      /\ EventFromIsr(q, what, "failed") = Stem(q, what) \o <<"FROMISR">> \o <<"FAILED">>
  BY DEF Event, EventFromIsr, Outcome
<1>2. ASSUME NEW a, NEW b, Stem(q, what) = <<a, b>>
      PROVE  /\ Event(q, what, "done") = <<a, b>>
             /\ Event(q, what, "blocked") = <<a, b, "BLOCKED">>
             /\ Event(q, what, "failed") = <<a, b, "FAILED">>
             /\ EventFromIsr(q, what, "done") = <<a, b, "FROMISR">>
             /\ EventFromIsr(q, what, "failed") = <<a, b, "FROMISR", "FAILED">>
  BY <1>1, <1>2, Joined, JoinedNothing
<1>3. ASSUME NEW a, NEW b, NEW c, Stem(q, what) = <<a, b, c>>
      PROVE  /\ Event(q, what, "done") = <<a, b, c>>
             /\ Event(q, what, "blocked") = <<a, b, c, "BLOCKED">>
             /\ Event(q, what, "failed") = <<a, b, c, "FAILED">>
             /\ EventFromIsr(q, what, "done") = <<a, b, c, "FROMISR">>
             /\ EventFromIsr(q, what, "failed") = <<a, b, c, "FROMISR", "FAILED">>
  BY <1>1, <1>3, Joined, JoinedNothing
<1> QED
  BY <1>2, <1>3

\* The event a task's operation logs says what happened.
LEMMA EventDecodes ==
  ASSUME NEW q, q.type \in Types, NEW what \in Operations(q),
         NEW outcome \in {"done", "blocked", "failed"}
  PROVE  Decodes(Event(q, what, outcome), QueueClass(q), what, outcome, "task")
<1>1. CASE what = "receive" /\ StartsWith(q, what, "mutex", <<"MUTEX", "TAKE">>)
  BY <1>1, EventNames, MutexEvents DEF StartsWith
<1>2. CASE what \in Gives /\ StartsWith(q, what, "mutex", <<"MUTEX", "GIVE">>)
  BY <1>2, EventNames, MutexEvents DEF StartsWith
<1>3. CASE what = "receive" /\ StartsWith(q, what, "semaphore", <<"SEMAPHORE", "TAKE">>)
  BY <1>3, EventNames, SemaphoreEvents DEF StartsWith
<1>4. CASE what \in Gives /\ StartsWith(q, what, "semaphore", <<"SEMAPHORE", "GIVE">>)
  BY <1>4, EventNames, SemaphoreEvents DEF StartsWith
<1>5. CASE what = "receive" /\ StartsWith(q, what, "queue", <<"QUEUE", "RECEIVE">>)
  BY <1>5, EventNames, QueueEvents DEF StartsWith
<1>6. CASE what \in Gives /\ StartsWith(q, what, "queue", <<"QUEUE", "SEND", "FRONT">>)
  BY <1>6, EventNames, QueueEvents DEF StartsWith
<1>7. CASE what \in Gives /\ StartsWith(q, what, "queue", <<"QUEUE", "SEND">>)
  BY <1>7, EventNames, QueueEvents DEF StartsWith
<1> QED
  BY <1>1, <1>2, <1>3, <1>4, <1>5, <1>6, <1>7, StemOf

\* So does the event of an interrupt handler's.
LEMMA EventFromIsrDecodes ==
  ASSUME NEW q, q.type \in Types, ~IsMutex(q), NEW what \in Operations(q),
         NEW outcome \in {"done", "failed"}
  PROVE  Decodes(EventFromIsr(q, what, outcome), QueueClass(q), what, outcome, "isr")
<1>1. CASE what = "receive" /\ StartsWith(q, what, "semaphore", <<"SEMAPHORE", "TAKE">>)
  BY <1>1, EventNames, SemaphoreEvents DEF StartsWith
<1>2. CASE what \in Gives /\ StartsWith(q, what, "semaphore", <<"SEMAPHORE", "GIVE">>)
  BY <1>2, EventNames, SemaphoreEvents DEF StartsWith
<1>3. CASE what = "receive" /\ StartsWith(q, what, "queue", <<"QUEUE", "RECEIVE">>)
  BY <1>3, EventNames, QueueEvents DEF StartsWith
<1>4. CASE what \in Gives /\ StartsWith(q, what, "queue", <<"QUEUE", "SEND", "FRONT">>)
  BY <1>4, EventNames, QueueEvents DEF StartsWith
<1>5. CASE what \in Gives /\ StartsWith(q, what, "queue", <<"QUEUE", "SEND">>)
  BY <1>5, EventNames, QueueEvents DEF StartsWith
<1>6. \A stem : ~StartsWith(q, what, "mutex", stem)
  BY DEF QueueClass, StartsWith
<1> QED
  BY <1>1, <1>2, <1>3, <1>4, <1>5, <1>6, StemOf

--------------------------------------------------------------------------------
\* What a reader makes of an event

\* The fill that an event of a done operation tells, from its payload and whether it gives.
FillTold(what, payload) ==
  IF payload = NULL THEN IF what \in Gives THEN 1 ELSE 0
  ELSE IF what \notin Gives THEN payload - 1
  ELSE IF payload < queue.length THEN payload + 1 ELSE payload

\* A reader learns the fill from the events of operations that are done, and only from them.
LEMMA ToldByEvent ==
  ASSUME NEW name, NEW class \in {"task", "queue", "semaphore", "mutex"}, NEW what,
         NEW outcome, NEW by, Decodes(name, class, what, outcome, by), NEW payload
  PROVE  /\ outcome \in {"failed", "blocked"} \/ class = "task" =>
              Told(IdOf(name), payload) = reader
         /\ outcome = "done" /\ class # "task" =>
              Told(IdOf(name), payload) = [fill |-> FillTold(what, payload), current |-> TRUE]
<1>1. PICK row \in Manifest :
        /\ row.name = name /\ row.tags = TagsOf(name)
        /\ row = CHOOSE r \in Manifest : r.id = IdOf(name)
  BY RowOfEvent DEF Decodes
<1>2. "task" \in row.tags <=> class = "task"
  BY <1>1 DEF TagsOf, Decodes, Means
<1>3. /\ Has("FAILED", row.name) <=> outcome = "failed"
      /\ Has("BLOCKED", row.name) <=> outcome = "blocked"
      /\ (\E w \in {"SEND", "GIVE"} : Has(w, row.name)) <=> what \in Gives
  BY <1>1 DEF Decodes, Means
<1>4. CASE outcome \in {"failed", "blocked"} \/ class = "task"
  BY <1>1, <1>2, <1>3, <1>4 DEF Told
<1>5. CASE outcome = "done" /\ class # "task"
  BY <1>1, <1>2, <1>3, <1>5 DEF Told, FillTold
<1> QED
  BY <1>4, <1>5

\* A record of what happened, and the class of the row, agree with the queue.
RightClass(class, what, q) ==
  \/ class = "task" /\ what \in {"task", "switch"}
  \/ class = "mutex" /\ IsMutex(q)
  \/ class = "semaphore" /\ IsSemaphore(q)
  \/ class = "queue" /\ q.type = "base"

\* Membership is a Boolean value.
LEMMA MembershipDecided ==
  \A x, S : (x \in S) \in BOOLEAN
OBVIOUS

\* An event whose name says what happened is decoded by the manifest.
LEMMA DecodedEvent ==
  ASSUME NEW name, NEW class \in {"task", "queue", "semaphore", "mutex"}, NEW what,
         NEW outcome, NEW by, Decodes(name, class, what, outcome, by),
         RightClass(class, what, queue'), logged'.id = IdOf(name), logged'.of.what = what,
         logged'.of.outcome = outcome, logged'.of.isr = (by = "isr")
  PROVE  DecodedByManifest'
<1>1. PICK row \in Manifest :
        /\ row.id = IdOf(name) /\ row.name = name /\ row.tags = TagsOf(name)
        /\ \A other \in Manifest : other.id = IdOf(name) => other = row
  BY RowOfEvent DEF Decodes
<1>2. "FAILURE" \in row.tags <=> outcome = "failed"
  BY <1>1 DEF TagsOf, Decodes, Means
<1>3. Has("BLOCKED", row.name) <=> outcome = "blocked"
  BY <1>1 DEF Decodes, Means
<1>4. "ISR" \in row.tags <=> by = "isr"
  BY <1>1 DEF TagsOf, Decodes, Means
<1>5. class \in row.tags
  BY <1>1 DEF TagsOf, Decodes, Means
<1>6. /\ ("FAILURE" \in row.tags) = (logged'.of.outcome = "failed")
      /\ Has("BLOCKED", row.name) = (logged'.of.outcome = "blocked")
  <2>1. ("FAILURE" \in row.tags) = (logged'.of.outcome = "failed")
    BY <1>2, MembershipDecided
  <2>2. Has("BLOCKED", row.name) = (logged'.of.outcome = "blocked")
    BY <1>3 DEF Has
  <2> QED
    BY <2>1, <2>2
<1>7. ("ISR" \in row.tags) = logged'.of.isr
  BY <1>4, MembershipDecided
<1>8. \/ "task" \in row.tags /\ logged'.of.what \in {"task", "switch"}
      \/ "mutex" \in row.tags /\ IsMutex(queue')
      \/ "semaphore" \in row.tags /\ IsSemaphore(queue')
      \/ "queue" \in row.tags /\ queue'.type = "base"
  BY <1>5 DEF RightClass
<1> QED
  BY <1>1, <1>6, <1>7, <1>8 DEF DecodedByManifest, IsMutex, IsSemaphore

--------------------------------------------------------------------------------
\* Every step tells the truth

\* The reader's knowledge is a fill, current or not.
LInv ==
  /\ reader \in [fill : Int, current : BOOLEAN]
  /\ LogTellsFill
  /\ DecodedByManifest

\* A step that logs nothing and leaves the queue alone.
LEMMA NothingLogged ==
  ASSUME LInv, logged' = NULL, reader' = reader, queue' = queue
  PROVE  LInv'
BY DEF LInv, LogTellsFill, DecodedByManifest

\* A hook whose event says what happened: an operation that was refused or waits, or an event of a
\* task, left the queue alone, and the fill the event of a done operation tells is the new one.
LEMMA LogKeeps ==
  ASSUME LInv, NEW name, NEW class \in {"task", "queue", "semaphore", "mutex"}, NEW what,
         NEW outcome \in {"done", "blocked", "failed"}, NEW by \in {"task", "isr"}, NEW payload,
         NEW moved, Decodes(name, class, what, outcome, by), RightClass(class, what, queue'),
         class = "task" <=> what = "task",
         Log(name, payload, Of(what, outcome, by = "isr", moved)),
         outcome # "done" \/ class = "task" => queue' = queue,
         outcome = "done" /\ class # "task" =>
           FillTold(what, payload) \in Int /\ FillTold(what, payload) = queue'.waiting
  PROVE  LInv'
<1> DEFINE of == Of(what, outcome, by = "isr", moved)
<1>1. of.what = what /\ of.outcome = outcome /\ of.isr = (by = "isr")
  BY DEF Of
<1>2. Log(name, payload, of)
  OBVIOUS
<1> HIDE DEF of
<1>3. CASE running \in Traced
  <2>1. logged'.id = IdOf(name) /\ logged'.of = of /\ reader' = Told(IdOf(name), payload)
    BY <1>2, <1>3 DEF Log
  <2>2. DecodedByManifest'
    BY <1>1, <2>1, DecodedEvent
  <2>3. CASE outcome # "done" \/ class = "task"
    <3>1. reader' = reader /\ queue' = queue
      BY <2>1, <2>3, ToldByEvent
    <3> QED
      BY <3>1, <2>2 DEF LInv, LogTellsFill
  <2>4. CASE outcome = "done" /\ class # "task"
    <3>1. reader' = [fill |-> FillTold(what, payload), current |-> TRUE]
      BY <2>1, <2>4, ToldByEvent
    <3> QED
      BY <3>1, <2>2, <2>4 DEF LInv, LogTellsFill
  <2> QED
    BY <2>3, <2>4
<1>4. CASE running \notin Traced
  <2> DEFINE c == reader.current /\ (of.what = "task" \/ of.outcome # "done")
  <2>1. logged' = NULL /\ reader' = [reader EXCEPT !.current = c]
    BY <1>2, <1>4 DEF Log
  <2>2. c \in BOOLEAN /\ (c => reader.current /\ (class = "task" \/ outcome # "done"))
    BY <1>1 DEF LInv
  <2> HIDE DEF c
  <2>3. /\ reader' \in [fill : Int, current : BOOLEAN]
        /\ reader'.fill = reader.fill /\ reader'.current = c
    BY <2>1, <2>2 DEF LInv
  <2>4. LogTellsFill'
    BY <2>2, <2>3 DEF LInv, LogTellsFill
  <2> QED
    BY <2>1, <2>3, <2>4 DEF LInv, DecodedByManifest
<1> QED
  BY <1>3, <1>4

\* The class of a queue is right for its operations' events, also after them.
LEMMA QueueClassIsRight ==
  ASSUME QueueOK(queue), queue'.type = queue.type, NEW what
  PROVE  /\ QueueClass(queue) \in {"queue", "semaphore", "mutex"}
         /\ RightClass(QueueClass(queue), what, queue')
BY DEF QueueOK, Queue, Types, QueueClass, RightClass, IsMutex, IsSemaphore

\* The fill before an operation and the operation tell the fill after it.
LEMMA FillOfDone ==
  ASSUME QueueOK(queue), NEW what \in Operations(queue), Possible(queue, what),
         queue'.waiting = IF what = "receive" THEN queue.waiting - 1
                          ELSE IF what = "overwrite" THEN 1 ELSE queue.waiting + 1
  PROVE  /\ FillTold(what, Payload(queue)) \in Int
         /\ FillTold(what, Payload(queue)) = queue'.waiting
<1>1. queue.waiting \in 0 .. 2 /\ queue.length \in {1, 2} /\ queue.waiting <= queue.length
  BY DEF QueueOK, Queue
<1>2. what \in {"receive", "send", "front", "overwrite"}
  BY DEF Operations
<1>3. CASE IsMutex(queue)
  <2>1. queue.length = 1 /\ what \in {"receive", "send"} /\ Payload(queue) = NULL
    BY <1>3 DEF QueueOK, Operations, IsMutex, Payload
  <2> QED
    BY <1>1, <2>1 DEF FillTold, Gives, Possible
<1>4. CASE ~IsMutex(queue)
  <2>1. Payload(queue) = queue.waiting /\ queue.waiting # NULL
    BY <1>1, <1>4, TasksAssumption DEF Payload
  <2>2. what = "overwrite" => queue.length = 1
    BY DEF Operations
  <2> QED
    BY <1>1, <1>2, <2>1, <2>2 DEF FillTold, Gives, Possible
<1> QED
  BY <1>3, <1>4

\* An operation that is done.
LEMMA PerformTells ==
  ASSUME EInv, LInv, NEW t \in Workers, NEW what \in Operations(queue),
         Possible(queue, what), Perform(t, what)
  PROVE  LInv'
<1>1. queue' = After(queue, what, t) /\ QueueOK(queue)
  BY DEF Perform, EInv
<1>2. /\ queue'.type = queue.type
      /\ queue'.waiting = IF what = "receive" THEN queue.waiting - 1
                          ELSE IF what = "overwrite" THEN 1 ELSE queue.waiting + 1
  BY <1>1, AfterOperation
<1>3. Log(Event(queue, what, "done"), Payload(queue), Of(what, "done", "task" = "isr", {}))
  BY DEF Perform
<1>4. Decodes(Event(queue, what, "done"), QueueClass(queue), what, "done", "task")
  BY <1>1, EventDecodes DEF QueueOK, Queue
<1>5. QueueClass(queue) \in {"queue", "semaphore", "mutex"} /\ what # "task"
  BY <1>1, <1>2, QueueClassIsRight DEF Operations
<1>6. RightClass(QueueClass(queue), what, queue')
  BY <1>1, <1>2, QueueClassIsRight
<1>7. FillTold(what, Payload(queue)) \in Int /\ FillTold(what, Payload(queue)) = queue'.waiting
  BY <1>1, <1>2, FillOfDone
<1> DEFINE name == Event(queue, what, "done")
           class == QueueClass(queue)
           payload == Payload(queue)
<1>8. Log(name, payload, Of(what, "done", "task" = "isr", {}))
  BY <1>3
<1>9. Decodes(name, class, what, "done", "task") /\ RightClass(class, what, queue')
  BY <1>4, <1>6
<1>10. class \in {"queue", "semaphore", "mutex"}
  BY <1>5
<1>11. FillTold(what, payload) \in Int /\ FillTold(what, payload) = queue'.waiting
  BY <1>7
<1> HIDE DEF name, class, payload
<1>12. class \in {"task", "queue", "semaphore", "mutex"} /\ class # "task"
  BY <1>10
<1> QED
  BY <1>5, <1>8, <1>9, <1>11, <1>12, LogKeeps

\* The event of an operation that failed or waits.
LEMMA RefusalTells ==
  ASSUME EInv, LInv, NEW t \in Workers, HookLogsFailed(t) \/ HookLogsBlocked(t)
  PROVE  LInv'
<1> DEFINE what == op[t].what
           class == QueueClass(queue)
<1>1. QueueOK(queue) /\ queue' = queue
  BY DEF EInv, HookLogsFailed, HookLogsBlocked
<1>2. what \in Operations(queue) /\ what # "task"
  BY DEF EInv, RefusedOK, Refused, HookLogsFailed, HookLogsBlocked, Operations
<1>3. class \in {"queue", "semaphore", "mutex"} /\ RightClass(class, what, queue')
  BY <1>1, QueueClassIsRight
<1>4. \A outcome \in {"failed", "blocked"} :
        Decodes(Event(queue, what, outcome), class, what, outcome, "task")
  BY <1>1, <1>2, EventDecodes DEF QueueOK, Queue
<1>5. \E outcome \in {"failed", "blocked"} :
        Log(Event(queue, what, outcome), op[t].payload,
            Of(what, outcome, "task" = "isr", op[t].moved))
  BY DEF HookLogsFailed, HookLogsBlocked
<1> DEFINE name(outcome) == Event(queue, what, outcome)
<1>6. PICK outcome \in {"failed", "blocked"} :
        Log(name(outcome), op[t].payload, Of(what, outcome, "task" = "isr", op[t].moved))
  BY <1>5
<1>7. Decodes(name(outcome), class, what, outcome, "task")
  BY <1>4, <1>6
<1> HIDE DEF what, class, name
<1>8. class \in {"task", "queue", "semaphore", "mutex"} /\ class # "task"
  BY <1>3
<1>9. outcome \in {"done", "blocked", "failed"} /\ outcome # "done"
  BY <1>6
<1> QED
  BY <1>1, <1>2, <1>3, <1>6, <1>7, <1>8, <1>9, LogKeeps

\* An operation by an interrupt handler, possible or not.
LEMMA FromIsrTells ==
  ASSUME EInv, LInv, NEW what \in Whats, FromIsr(what)
  PROVE  LInv'
<1> DEFINE class == QueueClass(queue)
           outcome == IF Possible(queue, what) THEN "done" ELSE "failed"
<1>1. /\ what \in Operations(queue) /\ ~IsMutex(queue) /\ QueueOK(queue)
      /\ queue' = IF Possible(queue, what) THEN After(queue, what, NULL) ELSE queue
      /\ Log(EventFromIsr(queue, what, outcome), Payload(queue),
             Of(what, outcome, "isr" = "isr", {}))
  BY DEF FromIsr, EInv
<1>2. Possible(queue, what) =>
        /\ queue'.type = queue.type
        /\ queue'.waiting = IF what = "receive" THEN queue.waiting - 1
                            ELSE IF what = "overwrite" THEN 1 ELSE queue.waiting + 1
  BY <1>1, AfterOperation
<1>3. what # "task" /\ class \in {"queue", "semaphore", "mutex"}
  BY <1>1, QueueClassIsRight DEF Operations, QueueClass
<1>4. RightClass(class, what, queue')
  BY <1>1, <1>2, QueueClassIsRight
<1>5. outcome \in {"done", "failed"}
  OBVIOUS
<1>6. Decodes(EventFromIsr(queue, what, outcome), class, what, outcome, "isr")
  BY <1>1, <1>5, EventFromIsrDecodes DEF QueueOK, Queue
<1>7. outcome = "done" =>
        /\ FillTold(what, Payload(queue)) \in Int
        /\ FillTold(what, Payload(queue)) = queue'.waiting
  BY <1>1, <1>2, FillOfDone
<1>8. outcome # "done" => queue' = queue
  BY <1>1
<1> DEFINE name == EventFromIsr(queue, what, outcome)
           payload == Payload(queue)
<1>9. Log(name, payload, Of(what, outcome, "isr" = "isr", {}))
  BY <1>1
<1> HIDE DEF class, outcome, name, payload
<1>10. class \in {"task", "queue", "semaphore", "mutex"} /\ (class = "task" <=> what = "task")
  BY <1>3
<1>11. outcome \in {"done", "blocked", "failed"} /\ "isr" \in {"task", "isr"}
  BY <1>5
<1>12. Decodes(name, class, what, outcome, "isr")
  BY <1>6 DEF name
<1>13. outcome = "done" /\ class # "task" =>
         FillTold(what, payload) \in Int /\ FillTold(what, payload) = queue'.waiting
  BY <1>7 DEF payload
<1>14. outcome # "done" \/ class = "task" => queue' = queue
  BY <1>3, <1>8
<1> QED
  BY <1>4, <1>9, <1>10, <1>11, <1>12, <1>13, <1>14, LogKeeps

\* A context switch tells nothing of the queue.
LEMMA SwitchTells ==
  ASSUME LInv, NEW t, Switch(t)
  PROVE  LInv'
<1> DEFINE of == Of("switch", "done", FALSE, {})
<1>1. of.what = "switch" /\ of.outcome = "done" /\ of.isr = ("task" = "isr")
  BY DEF Of
<1>2. UNCHANGED <<queue, reader>>
  BY DEF Switch
<1>3. \/ logged' = NULL
      \/ logged'.id = IdOf(<<"TASK", "SWITCHED", "IN">>) /\ logged'.of = of
      \/ logged'.id = IdOf(<<"TASK", "SWITCHED", "OUT">>) /\ logged'.of = of
  BY DEF Switch
<1> HIDE DEF of
<1>4. Decodes(<<"TASK", "SWITCHED", "IN">>, "task", "switch", "done", "task")
  BY TaskEvents
<1>5. Decodes(<<"TASK", "SWITCHED", "OUT">>, "task", "switch", "done", "task")
  BY TaskEvents
<1>6. RightClass("task", "switch", queue')
  BY DEF RightClass
<1>7. DecodedByManifest'
  <2>1. CASE logged' = NULL
    BY <2>1 DEF DecodedByManifest
  <2>2. CASE logged'.id = IdOf(<<"TASK", "SWITCHED", "IN">>) /\ logged'.of = of
    BY <2>2, <1>1, <1>4, <1>6, DecodedEvent
  <2>3. CASE logged'.id = IdOf(<<"TASK", "SWITCHED", "OUT">>) /\ logged'.of = of
    BY <2>3, <1>1, <1>5, <1>6, DecodedEvent
  <2> QED
    BY <1>3, <2>1, <2>2, <2>3
<1> QED
  BY <1>2, <1>7 DEF LInv, LogTellsFill

\* Nor does the creation of a task.
LEMMA TaskCreateTells ==
  ASSUME LInv, TaskCreate
  PROVE  LInv'
<1> DEFINE of == Of("task", "done", FALSE, {})
<1>1. of.what = "task" /\ of.outcome = "done" /\ of.isr = ("task" = "isr")
  BY DEF Of
<1>2. /\ UNCHANGED <<queue, reader>>
      /\ logged'.id = IdOf(<<"TASK", "CREATE">>) /\ logged'.of = of
  BY DEF TaskCreate
<1> HIDE DEF of
<1>3. Decodes(<<"TASK", "CREATE">>, "task", "task", "done", "task")
  BY TaskEvents
<1>4. RightClass("task", "task", queue')
  BY DEF RightClass
<1>5. DecodedByManifest'
  BY <1>1, <1>2, <1>3, <1>4, DecodedEvent
<1> QED
  BY <1>2, <1>5 DEF LInv, LogTellsFill

\* Nor do its suspension and its delays.
LEMMA TaskHookTells ==
  ASSUME LInv,
         NEW name \in {<<"TASK", "SUSPEND">>, <<"TASK", "DELAY">>, <<"TASK", "DELAY", "UNTIL">>},
         TaskHook(name)
  PROVE  LInv'
<1>1. queue' = queue /\ Log(name, 0, Of("task", "done", "task" = "isr", {}))
  BY DEF TaskHook
<1>2. Decodes(name, "task", "task", "done", "task")
  BY TaskEvents
<1>3. RightClass("task", "task", queue')
  BY DEF RightClass
<1> QED
  BY <1>1, <1>2, <1>3, LogKeeps

\* The reader is never wrong, and every event is decoded.
LEMMA ReaderInvariant == Spec => []LInv
<1>1. Init => LInv
  <2> SUFFICES ASSUME Init PROVE LInv
    OBVIOUS
  <2>1. queue.waiting \in Int
    BY DEF Init, Queues
  <2> QED
    BY <2>1 DEF Init, LInv, LogTellsFill, DecodedByManifest
<1>2. EInv /\ LInv /\ [Next]_vars => LInv'
  <2> SUFFICES ASSUME EInv, LInv, [Next]_vars PROVE LInv'
    OBVIOUS
  <2>1. ASSUME NEW t \in Workers, NEW what \in Whats, NEW waits \in BOOLEAN,
               Attempt(t, what, waits)
        PROVE  LInv'
    <3>1. CASE Possible(queue, what)
      BY <2>1, <3>1, PerformTells DEF Attempt
    <3>2. CASE ~Possible(queue, what)
      BY <2>1, <3>2, NothingLogged DEF Attempt, NotLogged
    <3> QED
      BY <3>1, <3>2
  <2>2. ASSUME NEW t \in Workers, Retry(t) \/ TimeOut(t) \/ Wake(t) \/ HookReads(t)
        PROVE  LInv'
    BY <2>2, NothingLogged DEF Retry, TimeOut, Wake, HookReads, NotLogged
  <2>3. CASE UNCHANGED vars
    BY <2>3 DEF vars, LInv, LogTellsFill, DecodedByManifest
  <2> QED
    BY <2>1, <2>2, <2>3, RefusalTells, FromIsrTells, SwitchTells, TaskCreateTells, TaskHookTells
       DEF Next
<1> QED
  BY <1>1, <1>2, EventsInvariant, PTL DEF Spec

\* Whatever is preempted, interrupted or refused, a reader who follows the log knows the fill of
\* the queue from the last operation that was logged, unless one was hidden since by running in, or
\* interrupting, an untraced task.
THEOREM ReaderKnowsFill == Spec => []LogTellsFill
<1>1. LInv => LogTellsFill
  BY DEF LInv
<1> QED
  BY <1>1, ReaderInvariant, PTL

\* Every event that is logged has exactly one row in the checked-in manifest, and the row's class
\* and tags say what happened.
THEOREM EventsAreDecoded == Spec => []DecodedByManifest
<1>1. LInv => DecodedByManifest
  BY DEF LInv
<1> QED
  BY <1>1, ReaderInvariant, PTL

================================================================================
