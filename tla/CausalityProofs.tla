----------------------------- MODULE CausalityProofs -----------------------------
(***************************************************************************)
(* What the snapshot of every context switch and the merge in the next one *)
(* add up to.                                                              *)
(*                                                                         *)
(* With the asserts compiled in causality is complete while tracing is on. *)
(* The tracer merges the snapshot of the last traced task only.  That is   *)
(* enough because this snapshot knows of everything that hooks ever        *)
(* recorded (Caught): knowledge is handed from one traced task to the      *)
(* next, also when one was deleted and its TCB reused, and an untraced     *)
(* task in between records nothing.  A task in a reused TCB has a probe    *)
(* that no hook finds; its own records there are told to no one.           *)
(*                                                                         *)
(* With and without the asserts nothing that is known is ever forgotten.   *)
(***************************************************************************)
EXTENDS RegistrationProofs

--------------------------------------------------------------------------------
\* TCBs and their slots, with deleted tasks

\* A task has a slot for the probe of its tag, or its TCB has no slot at all.
Place(t) ==
  \/ \E i \in Slots : trace.slots[i].tcb = t /\ trace.slots[i].probe = task[t].tag
  \/ \A i \in Slots : trace.slots[i].tcb # t

\* So it is for the tasks with a tag, unless tracing is off for good.
Placed ==
  phase = "main" \/ trace.enabled => \A t \in Tasks : task[t].tag # NULL => Place(t)

\* A task with a tag exists and is let through by the filter.  Not every task that is let
\* through has a tag: its filter may be that of the task that had the TCB before.
Tagged == \A t \in Tasks : task[t].tag # NULL => task[t].filter /\ task[t].live

\* No task is deleted before the scheduler starts.
MainLive ==
  phase = "main" => \A i \in Slots : trace.slots[i].tcb # NULL => task[trace.slots[i].tcb].live

PInv == Tagged /\ MainLive /\ Placed

\* A step that changes no owner, and no TCB but those of tasks without a tag.
LEMMA PlacesKept ==
  ASSUME IInv, PInv, SameOwners(trace, trace'),
         phase' = "main" => phase = "main",
         trace'.enabled => phase = "main" \/ trace.enabled,
         \A t \in Tasks : \/ task'[t] = task[t]
                          \/ /\ task'[t].tag = NULL
                             /\ phase' = "main" => task'[t].live
  PROVE  PInv'
<1>1. Tagged'
  BY DEF PInv, Tagged
<1>2. MainLive'
  <2>1. \A i \in Slots : trace.slots[i].tcb # NULL => trace.slots[i].tcb \in Tasks
    BY TraceFields DEF IInv, Good, TcbProbe
  <2> QED
    BY <2>1 DEF PInv, MainLive, SameOwners
<1>3. Placed'
  BY DEF PInv, Placed, Place, SameOwners
<1> QED
  BY <1>1, <1>2, <1>3 DEF PInv

\* A step that does not touch the TCBs.
LEMMA TcbsKept ==
  ASSUME IInv, PInv, task' = task, SameOwners(trace, trace'), phase' = "main" => phase = "main",
         trace'.enabled => phase = "main" \/ trace.enabled
  PROVE  PInv'
BY PlacesKept

\* A new task gets a slot with the probe of its tag; if it gets none tracing is off, and before
\* the scheduler starts its TCB then has no slot.
LEMMA CreatePlaces ==
  ASSUME IInv, PInv, NEW t \in Tcbs, NEW name \in AppNames, NEW fails,
         TaskCreate(t, name, fails)
  PROVE  PInv'
<1> DEFINE p == ProbeFor(trace, StoredName[name], fails)
<1>1. t \in Tasks /\ name \in Names /\ t # NULL
  BY NamesAssumption, TasksAssumption DEF Tasks
<1>2. /\ p = NULL => trace'.slots = trace.slots
      /\ p # NULL => \/ trace'.slots = trace.slots /\ ~trace'.enabled
                     \/ Takes(trace, trace', t, p)
      /\ trace'.enabled => trace.enabled
      /\ phase' = phase /\ ~task[t].live
  <2>1. trace'.enabled => trace.enabled
    BY TaskCreateStep
  <2> QED
    BY <1>1, <2>1, RegisterEffect DEF TaskCreate, IInv
<1>3. /\ \A u \in Tasks : u # t => task'[u] = task[u]
      /\ task'[t].live /\ (p # NULL => task'[t].filter) /\ task'[t].tag = p
  <2> DEFINE new == RegisteredTcb(trace, task[t], name, fails)
  <2>1. task[t] \in Tcb
    BY <1>1 DEF IInv
  <2>2. task'[t] = new /\ \A u \in Tasks : u # t => task'[u] = task[u]
    BY <1>1 DEF TaskCreate, IInv
  <2>3. /\ new.live /\ new.tag = p
        /\ trace.enabled => (new.filter <=> p # NULL)
        /\ ~trace.enabled => (new.filter <=> task[t].filter) /\ p = NULL
    BY <2>1, RegisteredFields
  <2> HIDE DEF p, new
  <2>4. p # NULL => new.filter
    BY <2>3
  <2> QED
    BY <2>2, <2>3, <2>4
<1> HIDE DEF p
<1>4. Tagged'
  BY <1>3 DEF PInv, Tagged
<1>5. CASE trace'.slots = trace.slots
  <2>1. MainLive'
    BY <1>2, <1>3, <1>5, TraceFields DEF PInv, MainLive, IInv, Good, TcbProbe
  <2>2. \A u \in Tasks : u # t /\ Place(u) => Place(u)'
    BY <1>3, <1>5 DEF Place
  <2>3. phase' = "main" => Place(t)'
    BY <1>1, <1>2, <1>5 DEF PInv, MainLive, Place
  <2>4. CASE Takes(trace, trace', t, p)
    BY <1>1, <1>5, <2>4 DEF Takes
  <2>5. CASE p # NULL => ~trace'.enabled
    BY <1>2, <1>3, <1>4, <2>1, <2>2, <2>3, <2>5 DEF PInv, Placed
  <2> QED
    BY <1>2, <2>4, <2>5
<1>6. CASE Takes(trace, trace', t, p)
  <2>1. PICK i \in Slots :
          /\ trace.slots[i].tcb = NULL
          /\ trace'.slots[i].tcb = t /\ trace'.slots[i].probe = p
          /\ \A j \in Slots : j # i => trace'.slots[j] = trace.slots[j]
    BY <1>6 DEF Takes
  <2>2. MainLive'
    BY <1>2, <1>3, <2>1, TraceFields DEF PInv, MainLive, IInv, Good, TcbProbe
  <2>3. Place(t)'
    BY <1>3, <2>1 DEF Place
  <2>4. ASSUME NEW u \in Tasks, u # t, Place(u) PROVE Place(u)'
    BY <1>3, <2>1, <2>4, TasksAssumption DEF Place
  <2> QED
    BY <1>2, <1>3, <1>4, <2>2, <2>3, <2>4 DEF PInv, Placed
<1> QED
  BY <1>2, <1>5, <1>6

\* Every step.
LEMMA NextPlaces ==
  ASSUME UseTraceAssert, IInv, IInv', PInv, [Next]_vars
  PROVE  PInv'
<1>1. ASSUME trace'.slots = trace.slots PROVE SameOwners(trace, trace')
  BY <1>1 DEF SameOwners
<1>2. CASE vTraceDisable
  BY <1>1, <1>2, ErrorEffect, TcbsKept DEF vTraceDisable, IInv, Good, SameButClocks
<1>3. ASSUME NEW name \in AppNames, ExcludeTask(name) PROVE PInv'
  BY <1>1, <1>3, ExcludeEffect, NamesAssumption, TcbsKept DEF ExcludeTask, IInv
<1>4. ASSUME NEW t \in Tcbs, TaskDelete(t) PROVE PInv'
  <2>1. PICK freed \in DeletedTcb : task' = [task EXCEPT ![t] = freed]
    BY <1>4 DEF TaskDelete
  <2>2. freed.tag = NULL
    BY DEF DeletedTcb, UnusedTcb
  <2>3. \A u \in Tasks : task'[u] = task[u] \/ task'[u].tag = NULL
    BY <2>1, <2>2 DEF IInv
  <2> QED
    BY <1>1, <1>4, <2>3, PlacesKept DEF TaskDelete
<1>5. ASSUME NEW fails, vTraceEnable(fails) PROVE PInv'
  <2>1. /\ trace' \in {prvTraceError(trace), [trace EXCEPT !.enabled = TRUE],
                       [CreateIoTask(trace, fails) EXCEPT !.enabled = TRUE]}
        /\ ~trace.enabled /\ phase' = phase
    BY <1>5 DEF vTraceEnable
  <2>2. trace'.slots = trace.slots
    BY <2>1, EnableEffect DEF IInv
  <2>3. trace'.enabled => phase = "main"
    BY <1>5, EnableStep
  <2>4. \A t \in Tasks : task'[t] = task[t] \/ (task'[t].tag = NULL /\ task'[t].live)
    BY <1>5, EnableTcbs
  <2> QED
    BY <1>1, <2>1, <2>2, <2>3, <2>4, PlacesKept
<1>6. ASSUME NEW fails, NEW t \in Tcbs, NEW name \in AppNames, TaskCreate(t, name, fails)
      PROVE  PInv'
  BY <1>6, CreatePlaces
<1>7. ASSUME NEW fails, SwitchOut(fails) PROVE PInv'
  <2>1. CASE ~Traced(pxCurrentTCB)
    BY <1>1, <1>7, <2>1, TcbsKept DEF SwitchOut
  <2>2. CASE Traced(pxCurrentTCB)
    BY <1>7, <2>2, SwitchOutEffect, TcbsKept DEF SwitchOut, IInv
  <2> QED
    BY <2>1, <2>2
<1>8. ASSUME NEW fails, NEW t \in Tasks, SwitchIn(t, fails) PROVE PInv'
  <2>1. CASE ~Traced(t)
    BY <1>1, <1>8, <2>1, TcbsKept DEF SwitchIn
  <2>2. CASE Traced(t)
    BY <1>1, <1>8, <2>2, SwitchInEffect, TcbsKept DEF SwitchIn, IInv
  <2> QED
    BY <2>1, <2>2
<1>9. ASSUME NEW fails, KernelHook(fails) PROVE PInv'
  BY <1>1, <1>9, LogEffect, TcbsKept DEF KernelHook, IInv, SameButClocks
<1>10. ASSUME NEW fails, UserRecord(fails) PROVE PInv'
  BY <1>1, <1>10, UserRecordEffect, TcbsKept DEF UserRecord, SameButClocks
<1>11. CASE UNCHANGED vars
  BY <1>1, <1>11, TcbsKept DEF vars
<1> QED
  BY <1>2, <1>3, <1>4, <1>5, <1>6, <1>7, <1>8, <1>9, <1>10, <1>11 DEF Next

\* In every reachable state.
LEMMA Placement ==
  ASSUME UseTraceAssert
  PROVE  Spec => []PInv
<1>1. Init => PInv
  <2> SUFFICES ASSUME Init PROVE PInv
    OBVIOUS
  <2>1. /\ \A i \in Slots : trace.slots[i].tcb = NULL
        /\ \A t \in Tasks : task[t].tag = NULL
    BY DEF Init, FreeTcbProbe, UnusedTcb
  <2> QED
    BY <2>1 DEF PInv, Tagged, MainLive, Placed
<1>2. IInv /\ IInv' /\ PInv /\ [Next]_vars => PInv'
  BY NextPlaces
<1> QED
  BY <1>1, <1>2, Invariance, PTL DEF Spec

--------------------------------------------------------------------------------
\* Probes that no hook finds

Visible == {q \in Addr : ~Hidden(q)}

\* The slot found for a TCB stays the one, also when a new task in the TCB takes another.
LEMMA StillFound ==
  ASSUME IInv, IInv', Packed, NEW t, t # NULL, NEW p, Takes(trace, trace', t, p),
         NEW u, u # NULL, get_tcb_probe(trace, u) # NoSlot
  PROVE  LET i == get_tcb_probe(trace, u)
         IN  /\ i \in Slots /\ get_tcb_probe(trace', u) = i
             /\ trace'.slots[i] = trace.slots[i]
<1> DEFINE found == {i \in Slots : trace.slots[i].tcb = u}
           now == {i \in Slots : trace'.slots[i].tcb = u}
<1>1. PICK k \in Slots : /\ trace.slots[k].tcb = NULL
                         /\ \A j \in Slots : j # k => trace'.slots[j] = trace.slots[j]
  BY DEF Takes
<1>2. found # {} /\ get_tcb_probe(trace, u) = First(found)
  BY DEF get_tcb_probe
<1>3. found \in SUBSET Nat /\ now \in SUBSET Nat
  BY SizesAssumption DEF Slots
<1> DEFINE i == First(found)
<1>4. i \in found /\ \A j \in found : i <= j
  BY <1>2, <1>3, FirstIsLeast
<1> HIDE DEF i
<1>5. i \in Slots /\ i # k /\ trace'.slots[i] = trace.slots[i] /\ i \in now
  BY <1>1, <1>4
<1>6. \A j \in now : j \in found \/ j = k
  BY <1>1
<1>7. i < k
  BY <1>1, <1>3, <1>4, <1>5 DEF Packed, Slots
<1>8. First(now) \in now /\ \A j \in now : First(now) <= j
  BY <1>3, <1>5, FirstIsLeast
<1>9. First(now) = i
  <2> DEFINE n == First(now)
  <2>1. n \in Nat /\ i \in Nat /\ n \in now
    BY <1>3, <1>4, <1>8
  <2>2. n <= i
    BY <1>5, <1>8
  <2> HIDE DEF n
  <2>3. i <= n
    BY <1>4, <1>6, <1>7, <2>1
  <2> QED
    BY <2>1, <2>2, <2>3 DEF n
<1>10. get_tcb_probe(trace', u) = i
  BY <1>5, <1>9 DEF get_tcb_probe
<1> QED
  BY <1>2, <1>5, <1>10 DEF i

\* A probe that is hidden stays hidden.
LEMMA HiddenStays ==
  ASSUME IInv, IInv', Packed,
         \/ SameOwners(trace, trace')
         \/ \E t \in Tasks, p \in Addr : Takes(trace, trace', t, p)
  PROVE  Visible' \subseteq Visible
<1> SUFFICES ASSUME NEW q \in Addr, Hidden(q) PROVE Hidden(q)'
  BY DEF Visible
<1>1. PICK i \in Slots : /\ trace.slots[i].tcb # NULL /\ trace.slots[i].probe = q
                         /\ get_tcb_probe(trace, trace.slots[i].tcb) # i
  BY DEF Hidden
<1> DEFINE u == trace.slots[i].tcb
<1>2. CASE SameOwners(trace, trace')
  <2>1. get_tcb_probe(trace', u) = get_tcb_probe(trace, u)
    BY <1>2, SameLookup DEF SameOwners
  <2> QED
    BY <1>1, <1>2, <2>1 DEF SameOwners, Hidden
<1>3. ASSUME NEW t \in Tasks, NEW p \in Addr, Takes(trace, trace', t, p) PROVE Hidden(q)'
  <2>1. get_tcb_probe(trace, u) # NoSlot
    BY <1>1, GetTcbProbe DEF IInv, Good
  <2>2. t # NULL
    BY TasksAssumption
  <2>3. get_tcb_probe(trace', u) = get_tcb_probe(trace, u)
    BY <1>1, <1>3, <2>1, <2>2, StillFound
  <2>4. trace'.slots[i] = trace.slots[i]
    BY <1>1, <1>3 DEF Takes
  <2> QED
    BY <1>1, <2>3, <2>4 DEF Hidden
<1> QED
  BY <1>2, <1>3

--------------------------------------------------------------------------------
\* What the current task knows

\* The clock or snapshot c knows of every record of the probes of V that were used.
Complete(s, c, V) == \A q \in V : s.clock[q][q] > 1 => c[q] = s.clock[q][q]

\* The tracer's current task has a slot, and its probe knows everything.
Knows(s, V) ==
  LET i == get_tcb_probe(s, s.current)
  IN  i # NoSlot /\ Complete(s, s.clock[s.slots[i].probe], V)

\* So does the snapshot in that slot.
Stored(s, V) == Complete(s, s.slots[get_tcb_probe(s, s.current)].snapshot, V)

\* The tracer's current task runs, and not an untraced one in its TCB.
Running == phase = "run" /\ pxCurrentTCB = trace.current /\ Traced(pxCurrentTCB)

\* While the tracer's current task runs its probe is ahead of its snapshot; once it was
\* switched out both know everything, until the next traced task is switched in.
Caught ==
  trace.enabled /\ trace.current # NULL =>
    Knows(trace, Visible) /\ (Running \/ Stored(trace, Visible))

\* Before a traced task has run no probe has more than the record of its task's creation.
NoneUsed == trace.current = NULL => \A q \in Addr : trace.clock[q][q] <= 1

\* The asserts keep a missing slot from being used.
NoFault == ~trace.fault /\ phase # "fault"

CInv == NoFault /\ NoneUsed /\ Caught

--------------------------------------------------------------------------------
\* Steps of the tracer

\* A record that the current task makes is known to its own probe.
LEMMA RecordKnown ==
  ASSUME NEW s, Good(s), s.current # NULL, NEW V \in SUBSET Addr, Knows(s, V),
         NEW r, SameOwners(s, r), r.current = s.current,
         r.clock = s.clock \/ OneMore(s, r, s.slots[get_tcb_probe(s, s.current)].probe)
  PROVE  Knows(r, V)
<1> DEFINE i == get_tcb_probe(s, s.current)
           p == s.slots[i].probe
<1>1. i \in Slots /\ i # NoSlot /\ p \in Addr
  BY FoundProbe DEF Knows
<1>2. get_tcb_probe(r, r.current) = i
  BY SameLookup DEF SameOwners
<1>3. r.slots[i].probe = p
  BY <1>1 DEF SameOwners
<1>4. ASSUME NEW q \in V, r.clock[q][q] > 1 PROVE r.clock[p][q] = r.clock[q][q]
  <2>1. s.clock[q][q] > 1 => s.clock[p][q] = s.clock[q][q]
    BY DEF Knows, Complete
  <2>2. r.clock = s.clock \/ OneMore(s, r, p)
    OBVIOUS
  <2> HIDE DEF i, p
  <2>3. CASE r.clock = s.clock
    BY <1>4, <2>1, <2>3
  <2>4. CASE OneMore(s, r, p) /\ q # p
    <3>1. r.clock[q][q] = s.clock[q][q] /\ r.clock[p][q] = s.clock[p][q]
      BY <1>1, <2>4 DEF OneMore
    <3> QED
      BY <1>4, <2>1, <3>1
  <2> QED
    BY <2>2, <2>3, <2>4
<1> HIDE DEF i, p
<1> QED
  BY <1>1, <1>2, <1>3, <1>4 DEF Knows, Complete

\* Merging a snapshot that knows everything makes the current task's probe know everything.
LEMMA MergeKnows ==
  ASSUME UseTraceAssert, NEW s, Good(s), s.current # NULL, s.prev # NULL,
         NEW V \in SUBSET Addr, Complete(s, s.slots[get_tcb_probe(s, s.prev)].snapshot, V),
         NEW fails, NEW r, r = prvTraceMergeSnapshot(s, fails), r.enabled
  PROVE  Knows(r, V)
<1> DEFINE curr == get_tcb_probe(s, s.current)
           p    == s.slots[curr].probe
           snap == s.slots[get_tcb_probe(s, s.prev)].snapshot
<1>1. /\ r.slots = s.slots /\ r.current = s.current /\ curr # NoSlot
      /\ \A q \in Addr : r.clock[q][q] = s.clock[q][q]
      /\ \A q \in Addr : r.clock[p][q] =
           IF s.clock[p][q] < snap[q] THEN snap[q] ELSE s.clock[p][q]
  <2>1. r.slots = s.slots /\ r.current = s.current
        /\ \A q \in Addr : r.clock[q][q] = s.clock[q][q]
    BY MergeEffect
  <2>2. Merges(s, r, curr, get_tcb_probe(s, s.prev))
    BY MergeEffect
  <2> QED
    BY <2>1, <2>2 DEF Merges
<1>2. p \in Addr
  BY <1>1, FoundProbe
<1>3. \A q \in Addr : /\ s.clock[p][q] <= s.clock[q][q]
                      /\ s.clock[p][q] \in Nat /\ s.clock[q][q] \in Nat
  BY <1>2, TraceFields DEF Good, Sound
<1>4. get_tcb_probe(r, r.current) = curr
  <2>1. r.slots = s.slots /\ r.current = s.current
    BY <1>1
  <2> QED
    BY <2>1 DEF get_tcb_probe
<1> HIDE DEF curr, p, snap
<1>5. \A q \in V : s.clock[q][q] > 1 => snap[q] = s.clock[q][q]
  BY DEF Complete, snap
<1>6. \A q \in V : r.clock[q][q] > 1 => r.clock[p][q] = r.clock[q][q]
  BY <1>1, <1>3, <1>5
<1>7. Complete(r, r.clock[p], V)
  BY <1>6 DEF Complete
<1>8. r.slots[curr].probe = p
  BY <1>1 DEF p
<1> QED
  BY <1>1, <1>4, <1>7, <1>8 DEF Knows

\* Switching in a traced task: the snapshot of the last one, if there was one, is merged
\* before the event is logged.
LEMMA SwitchInKnows ==
  ASSUME UseTraceAssert, NEW s, Good(s), ~s.fault, NEW t \in Tasks,
         s.current = NULL => \A q \in Addr : s.clock[q][q] <= 1,
         NEW V \in SUBSET Addr,
         s.current # NULL => Knows(s, V),
         s.current # NULL /\ s.current # t => Stored(s, V),
         NEW fails, NEW r, r = traceTASK_SWITCHED_IN(s, t, fails), r.enabled
  PROVE  Knows(r, V) /\ ~r.fault
<1> DEFINE w == prvTraceSwitchedTCB(s, t)
           m == IF s.current = t THEN s ELSE prvTraceMergeSnapshot(w, fails)
           i == get_tcb_probe(m, t)
<1>1. /\ Good(w) /\ w.slots = s.slots /\ w.current = t /\ w.clock = s.clock
      /\ w.fault = s.fault /\ (s.current # t => w.prev = s.current)
  <2>1. /\ w \in Trace /\ w.slots = s.slots /\ w.next = s.next /\ w.current = t
        /\ w.clock = s.clock /\ w.fault = s.fault
        /\ w.error = s.error
        /\ s.current # t => w.prev = s.current
    BY DEF Good, Trace, prvTraceSwitchedTCB
  <2> QED
    BY <2>1, FrameGood DEF Good
<1> HIDE DEF w
<1>2. t # NULL
  BY TasksAssumption
<1>3. Good(m) /\ m.current = t /\ ~m.fault
  <2>1. CASE s.current = t
    BY <2>1
  <2>2. CASE s.current # t
    BY <1>1, <2>2, MergeGood, MergeEffect DEF Keeps
  <2> QED
    BY <2>1, <2>2
<1>4. r = prvTraceLogEvent(m, fails)
  BY <1>3 DEF traceTASK_SWITCHED_IN, w
<1> HIDE DEF m
<1>5. /\ SameButClocks(m, r) /\ m.enabled /\ i # NoSlot
      /\ r.clock = m.clock \/ OneMore(m, r, m.slots[i].probe)
  BY <1>2, <1>3, <1>4, LogEffect
<1>6. SameOwners(m, r) /\ r.current = m.current /\ r.fault = m.fault
  BY <1>5 DEF SameButClocks, SameOwners
<1>7. CASE s.current = NULL
  <2>1. m = w
    BY <1>1, <1>2, <1>7, MergeEffect DEF m
  <2>2. \A q \in Addr : m.clock[q][q] <= 1
    BY <1>1, <1>7, <2>1
  <2>3. Knows(m, V)
    <3>1. \A q \in Addr : m.clock[q][q] \in Nat
      BY <1>3, TraceFields DEF Good
    <3>2. \A q \in Addr : ~(m.clock[q][q] > 1)
      BY <2>2, <3>1
    <3> QED
      BY <1>3, <1>5, <3>2 DEF Knows, Complete
  <2> QED
    BY <1>2, <1>3, <1>5, <1>6, <2>3, RecordKnown
<1>8. CASE s.current # NULL
  <2>1. CASE s.current = t
    <3>1. m = s
      BY <2>1 DEF m
    <3> QED
      BY <1>2, <1>3, <1>5, <1>6, <1>8, <3>1, RecordKnown
  <2>2. CASE s.current # t
    <3>1. m = prvTraceMergeSnapshot(w, fails) /\ w.prev = s.current
      BY <1>1, <2>2 DEF m
    <3>2. get_tcb_probe(w, w.prev) = get_tcb_probe(s, s.current)
      BY <1>1, <3>1 DEF get_tcb_probe
    <3>3. Complete(w, w.slots[get_tcb_probe(w, w.prev)].snapshot, V)
      BY <1>1, <1>8, <2>2, <3>2 DEF Stored, Complete
    <3>4. Knows(m, V)
      BY <1>1, <1>2, <1>5, <1>8, <3>1, <3>3, MergeKnows
    <3> QED
      BY <1>2, <1>3, <1>5, <1>6, <3>4, RecordKnown
  <2> QED
    BY <2>1, <2>2
<1> QED
  BY <1>7, <1>8

--------------------------------------------------------------------------------
\* Steps of the system

\* A step that changes no slot, no clock and no current task, and does not stop the tracer's
\* current task.
LEMMA NothingNew ==
  ASSUME CInv, trace'.slots = trace.slots, trace'.clock = trace.clock,
         trace'.current = trace.current, trace'.fault = trace.fault, phase' # "fault",
         trace'.enabled /\ trace.current # NULL => trace.enabled,
         Running => Running'
  PROVE  CInv'
<1>1. \A u : get_tcb_probe(trace', u) = get_tcb_probe(trace, u)
  BY DEF get_tcb_probe
<1>2. Visible' = Visible
  BY <1>1 DEF Visible, Hidden
<1>3. Knows(trace, Visible) => Knows(trace', Visible')
  BY <1>1, <1>2 DEF Knows, Complete
<1>4. Stored(trace, Visible) => Stored(trace', Visible')
  BY <1>1, <1>2 DEF Stored, Complete
<1> QED
  BY <1>3, <1>4 DEF CInv, NoFault, NoneUsed, Caught

\* A record made while the tracer's current task runs.
LEMMA RunningRecords ==
  ASSUME IInv, IInv', Packed, CInv, Running, trace.current # NULL,
         SameOwners(trace, trace'), trace'.current = trace.current,
         trace'.fault = trace.fault, trace'.enabled => trace.enabled,
         \/ trace'.clock = trace.clock
         \/ OneMore(trace, trace', trace.slots[get_tcb_probe(trace, trace.current)].probe),
         phase' = "run", pxCurrentTCB' = pxCurrentTCB, task' = task
  PROVE  CInv'
<1>1. Visible' \in SUBSET Addr /\ Visible' \subseteq Visible
  BY HiddenStays DEF Visible
<1>2. ASSUME trace'.enabled PROVE Knows(trace', Visible')
  <2>1. Knows(trace, Visible')
    BY <1>1, <1>2 DEF CInv, Caught, Knows, Complete
  <2> QED
    BY <1>1, <2>1, RecordKnown DEF IInv
<1>3. Running'
  BY DEF Running, Traced
<1> QED
  BY <1>2, <1>3 DEF CInv, NoFault, NoneUsed, Caught

\* A record in a probe that no hook finds, made by its own task.
LEMMA HiddenRecords ==
  ASSUME IInv, CInv, Running, trace.current # NULL, NEW p \in Addr, Hidden(p),
         SameButClocks(trace, trace'), trace'.enabled => trace.enabled,
         OneMore(trace, trace', p),
         phase' = "run", pxCurrentTCB' = pxCurrentTCB, task' = task
  PROVE  CInv'
<1>1. \A u : get_tcb_probe(trace', u) = get_tcb_probe(trace, u)
  BY DEF get_tcb_probe, SameButClocks
<1>2. Visible' = Visible /\ p \notin Visible
  BY <1>1 DEF Visible, Hidden, SameButClocks
<1>3. ASSUME Knows(trace, Visible) PROVE Knows(trace', Visible')
  <2> DEFINE own == trace.slots[get_tcb_probe(trace, trace.current)].probe
  <2>1. own \in Addr
    BY <1>3, FoundProbe DEF IInv, Knows
  <2>2. \A q \in Visible : /\ trace'.clock[own][q] = trace.clock[own][q]
                           /\ trace'.clock[q][q] = trace.clock[q][q]
    BY <1>2, <2>1 DEF OneMore, Visible
  <2>3. Complete(trace, trace.clock[own], Visible)
    BY <1>3 DEF Knows
  <2>4. Complete(trace', trace'.clock[own], Visible')
    BY <1>2, <2>2, <2>3 DEF Complete
  <2>5. /\ trace'.slots = trace.slots
        /\ get_tcb_probe(trace', trace'.current) = get_tcb_probe(trace, trace.current)
    BY <1>1 DEF SameButClocks
  <2> QED
    BY <1>3, <2>4, <2>5 DEF Knows
<1>4. Running' /\ trace'.current = trace.current
  BY DEF Running, Traced, SameButClocks
<1> QED
  BY <1>3, <1>4 DEF CInv, NoFault, NoneUsed, Caught, SameButClocks

\* The hook of xTaskCreate: the new probe has one record, and nobody needs to know it.
LEMMA CreateCaught ==
  ASSUME IInv, IInv', Packed, CInv, NEW t \in Tcbs, NEW name \in AppNames, NEW fails,
         TaskCreate(t, name, fails)
  PROVE  CInv'
<1> DEFINE c == trace.current
           i == get_tcb_probe(trace, c)
           p == trace.slots[i].probe
           new == ProbeFor(trace, StoredName[name], fails)
<1>1. t \in Tasks /\ name \in Names /\ trace \in Trace /\ t # NULL
  BY NamesAssumption, TasksAssumption DEF Tasks, IInv, Good
<1>2. /\ trace'.current = c /\ trace'.fault = trace.fault /\ phase' = phase
      /\ trace'.enabled => trace.enabled
      /\ \A a, b \in Addr : a # trace.next => trace'.clock[a][b] = trace.clock[a][b]
      /\ \A a \in Addr : a = trace.next => trace'.clock[a][a] \in {0, 1}
      /\ trace'.slots = trace.slots \/ (new \in Addr /\ Takes(trace, trace', t, new))
  <2>1. trace' = prvTraceRegisterTaskProbe(trace, t, name, fails) /\ phase' = phase
    BY DEF TaskCreate
  <2>2. trace'.enabled => trace.enabled
    BY TaskCreateStep
  <2> QED
    BY <1>1, <2>1, <2>2, RegisterEffect DEF IInv
<1>3. \A q \in Addr : trace'.clock[q][q] > 1 =>
        q # trace.next /\ trace'.clock[q][q] = trace.clock[q][q]
  <2>1. ASSUME NEW q \in Addr, q = trace.next PROVE ~(trace'.clock[q][q] > 1)
    BY <1>2, <2>1
  <2> QED
    BY <1>2, <2>1
<1>4. NoneUsed'
  <2>1. ASSUME NEW q \in Addr, \A a \in Addr : trace.clock[a][a] <= 1
        PROVE  trace'.clock[q][q] <= 1
    BY <1>2, <2>1
  <2> QED
    BY <1>2, <2>1 DEF CInv, NoneUsed
<1> HIDE DEF new
<1>5. Visible' \subseteq Visible /\ Visible' \subseteq Addr
  BY <1>1, <1>2, HiddenStays DEF SameOwners, Visible
<1>6. ASSUME trace'.enabled, c # NULL
      PROVE  Knows(trace', Visible') /\ (Running' \/ Stored(trace', Visible'))
  <2>1. Knows(trace, Visible) /\ (Running \/ Stored(trace, Visible))
    BY <1>2, <1>6 DEF CInv, Caught
  <2>2. i \in Slots /\ i # NoSlot /\ p \in Addr /\ p + TaskProbeSize <= trace.next
    BY <1>1, <1>6, <2>1, FoundProbe DEF Knows, IInv
  <2>3. p # trace.next
    BY <2>2, SizesAssumption, TraceFields DEF IInv, Good, Addr
  <2>4. get_tcb_probe(trace', c) = i /\ trace'.slots[i] = trace.slots[i]
    <3>1. CASE trace'.slots = trace.slots
      BY <3>1 DEF get_tcb_probe
    <3>2. CASE Takes(trace, trace', t, new)
      BY <1>1, <1>6, <2>2, <3>2, StillFound
    <3> QED
      BY <1>2, <3>1, <3>2
  <2>5. Knows(trace', Visible')
    <3>1. \A q \in Addr : trace'.clock[p][q] = trace.clock[p][q]
      BY <1>2, <2>2, <2>3
    <3>2. \A q \in Visible : trace.clock[q][q] > 1 => trace.clock[p][q] = trace.clock[q][q]
      BY <2>1 DEF Knows, Complete
    <3>3. \A q \in Visible' : trace'.clock[q][q] > 1 => trace'.clock[p][q] = trace'.clock[q][q]
      BY <1>3, <1>5, <3>1, <3>2
    <3>4. Complete(trace', trace'.clock[p], Visible')
      BY <3>3 DEF Complete
    <3>5. trace'.slots[get_tcb_probe(trace', trace'.current)].probe = p
      BY <1>2, <2>4
    <3>6. get_tcb_probe(trace', trace'.current) # NoSlot
      BY <1>2, <2>2, <2>4
    <3> QED
      BY <3>4, <3>5, <3>6 DEF Knows
  <2>6. Stored(trace, Visible) => Stored(trace', Visible')
    BY <1>2, <1>3, <1>5, <2>4 DEF Stored, Complete
  <2>7. Running => Running'
    <3>1. Running => task[c].live /\ c \in Tasks /\ pxCurrentTCB' = pxCurrentTCB
      BY <1>2 DEF Running, TaskCreate, KernelAddsTask, IInv, KernelTables
    <3>2. Running => c # t /\ task'[c] = task[c]
      BY <1>1, <3>1 DEF TaskCreate, IInv
    <3> QED
      BY <1>2, <3>1, <3>2 DEF Running, Traced
  <2> QED
    BY <2>1, <2>5, <2>6, <2>7
<1> QED
  BY <1>2, <1>4, <1>6 DEF CInv, NoFault, Caught, TaskCreate

\* Switching out a traced task stores what its probe knows; an untraced one changes nothing.
LEMMA SwitchOutCaught ==
  ASSUME UseTraceAssert, IInv, IInv', Packed, CInv, NEW fails, SwitchOut(fails)
  PROVE  CInv'
<1>1. phase = "run" /\ phase' = "switch" /\ pxCurrentTCB \in Tasks
  BY DEF SwitchOut, IInv, KernelTables
<1>2. CASE ~Traced(pxCurrentTCB)
  <2>1. ~Running
    BY <1>2 DEF Running
  <2> QED
    BY <1>1, <1>2, <2>1, NothingNew DEF SwitchOut
<1>3. CASE Traced(pxCurrentTCB)
  <2> DEFINE i == get_tcb_probe(trace, trace.current)
  <2>1. trace.current = pxCurrentTCB /\ trace.current # NULL
    BY <1>1, <1>3, TasksAssumption DEF IInv, Attribution, Traced
  <2>2. trace' = traceTASK_SWITCHED_OUT(trace, fails)
    BY <1>3 DEF SwitchOut
  <2>3. /\ SameOwners(trace, trace') /\ trace'.current = trace.current
        /\ trace'.fault = trace.fault /\ (trace'.enabled => trace.enabled)
        /\ trace'.clock = trace.clock \/ OneMore(trace, trace', trace.slots[i].probe)
        /\ trace'.enabled => i # NoSlot /\ trace'.slots[i].snapshot = trace'.clock[trace.slots[i].probe]
    BY <2>1, <2>2, SwitchOutEffect DEF IInv
  <2>4. Visible' \in SUBSET Addr /\ Visible' \subseteq Visible
    BY <2>3, HiddenStays DEF Visible
  <2>5. ASSUME trace'.enabled PROVE Knows(trace', Visible') /\ Stored(trace', Visible')
    <3>1. Knows(trace, Visible')
      BY <2>1, <2>3, <2>4, <2>5 DEF CInv, Caught, Knows, Complete
    <3>2. Knows(trace', Visible')
      BY <2>1, <2>3, <2>4, <3>1, RecordKnown DEF IInv
    <3>3. get_tcb_probe(trace', trace'.current) = i
      BY <2>3, SameLookup DEF SameOwners
    <3>4. i \in Slots
      BY <2>1, <2>3, <2>5, FoundProbe DEF IInv
    <3>5. trace'.slots[i].probe = trace.slots[i].probe
      BY <2>3, <3>4 DEF SameOwners
    <3>6. trace'.slots[i].snapshot = trace'.clock[trace'.slots[i].probe]
      BY <2>3, <2>5, <3>5
    <3> HIDE DEF i
    <3>7. Stored(trace', Visible')
      BY <3>2, <3>3, <3>6 DEF Knows, Stored, Complete
    <3> QED
      BY <3>2, <3>7
  <2> QED
    BY <1>1, <2>1, <2>3, <2>5 DEF CInv, NoFault, NoneUsed, Caught
<1> QED
  BY <1>2, <1>3

\* Switching in.
LEMMA SwitchInCaught ==
  ASSUME UseTraceAssert, IInv, CInv, NEW fails, NEW t \in Tasks, SwitchIn(t, fails)
  PROVE  CInv'
<1>1. phase # "run" /\ pxCurrentTCB' = t /\ t # NULL /\ task' = task
  BY TasksAssumption DEF SwitchIn
<1>2. CASE ~Traced(t)
  BY <1>1, <1>2, NothingNew DEF SwitchIn, CInv, NoFault, Running
<1>3. CASE Traced(t)
  <2>1. trace' = traceTASK_SWITCHED_IN(trace, t, fails)
    BY <1>3 DEF SwitchIn
  <2>2. /\ trace'.current = t /\ trace'.slots = trace.slots
        /\ (trace'.enabled => trace.enabled) /\ trace'.fault = trace.fault
    BY <2>1, SwitchInEffect DEF IInv
  <2>3. phase' = "run" /\ ~trace'.fault
    BY <2>2 DEF SwitchIn, CInv, NoFault
  <2>4. Visible' = Visible /\ Visible \in SUBSET Addr
    <3>1. \A u : get_tcb_probe(trace', u) = get_tcb_probe(trace, u)
      BY <2>2 DEF get_tcb_probe
    <3> QED
      BY <2>2, <3>1 DEF Visible, Hidden
  <2>5. ASSUME trace'.enabled PROVE Knows(trace', Visible)
    <3>1. trace.current # NULL => Knows(trace, Visible)
      BY <2>2, <2>5 DEF CInv, Caught
    <3>2. trace.current # NULL /\ trace.current # t => Stored(trace, Visible)
      BY <1>1, <2>2, <2>5 DEF CInv, Caught, Running
    <3>3. Good(trace) /\ ~trace.fault
      BY DEF IInv, CInv, NoFault
    <3>4. trace.current = NULL => \A q \in Addr : trace.clock[q][q] <= 1
      BY DEF CInv, NoneUsed
    <3> QED
      BY <2>1, <2>4, <2>5, <3>1, <3>2, <3>3, <3>4, SwitchInKnows
  <2>6. Running'
    BY <1>1, <1>3, <2>2, <2>3 DEF Running, Traced
  <2> QED
    BY <1>1, <2>2, <2>3, <2>4, <2>5, <2>6 DEF CInv, NoFault, NoneUsed, Caught
<1> QED
  BY <1>2, <1>3

\* A user-level record goes to the probe that the hooks find, or to a hidden one.
LEMMA UserRecordCaught ==
  ASSUME IInv, IInv', Packed, PInv, CInv, NEW fails, UserRecord(fails)
  PROVE  CInv'
<1> DEFINE p == task[pxCurrentTCB].tag
           i == get_tcb_probe(trace, trace.current)
<1>1. /\ pxCurrentTCB \in Tasks /\ pxCurrentTCB # NULL /\ phase = "run" /\ p # NULL /\ p \in Addr
      /\ phase' = phase /\ pxCurrentTCB' = pxCurrentTCB /\ task' = task
      /\ SameButClocks(trace, trace') /\ trace'.enabled = trace.enabled
      /\ trace'.clock = trace.clock \/ OneMore(trace, trace', p)
  BY UserRecordEffect, TasksAssumption DEF UserRecord
<1>2. Traced(pxCurrentTCB) /\ trace.current = pxCurrentTCB
  BY <1>1 DEF PInv, Tagged, IInv, Attribution, Traced
<1>3. Running /\ trace.current # NULL
  BY <1>1, <1>2 DEF Running
<1>4. CASE ~trace.enabled
  BY <1>1, <1>3, <1>4 DEF CInv, NoFault, NoneUsed, Caught, SameButClocks
<1>5. CASE trace.enabled
  <2>1. i # NoSlot
    BY <1>3, <1>5 DEF CInv, Caught, Knows
  <2>2. i \in Slots /\ trace.slots[i].tcb = pxCurrentTCB
    BY <1>2, <2>1, GetTcbProbe DEF IInv, Good
  <2>3. PICK j \in Slots : trace.slots[j].tcb = pxCurrentTCB /\ trace.slots[j].probe = p
    BY <1>1, <1>2, <1>5, <2>2 DEF PInv, Placed, Place
  <2>4. CASE j = i
    BY <1>1, <1>3, <2>3, <2>4, RunningRecords DEF SameButClocks, SameOwners
  <2>5. CASE j # i
    <3>1. Hidden(p)
      BY <1>1, <1>2, <2>3, <2>5 DEF Hidden
    <3>2. CASE trace'.clock = trace.clock
      BY <1>1, <1>3, <3>2, RunningRecords DEF SameButClocks, SameOwners
    <3>3. CASE OneMore(trace, trace', p)
      BY <1>1, <1>3, <3>1, <3>3, HiddenRecords
    <3> QED
      BY <1>1, <3>2, <3>3
  <2> QED
    BY <2>4, <2>5
<1> QED
  BY <1>4, <1>5

\* Every step preserves it.
LEMMA NextCaught ==
  ASSUME UseTraceAssert, IInv, IInv', MainIdle, Packed, PInv, CInv, [Next]_vars
  PROVE  CInv'
<1>1. CASE vTraceDisable
  <2>1. Running => Running'
    BY <1>1 DEF vTraceDisable, Running, Traced, Disabled
  <2> QED
    BY <1>1, <2>1, ErrorEffect, NothingNew
    DEF vTraceDisable, IInv, Good, SameButClocks, CInv, NoFault
<1>2. ASSUME NEW name \in AppNames, ExcludeTask(name) PROVE CInv'
  <2>1. /\ trace'.slots = trace.slots /\ trace'.clock = trace.clock
        /\ trace'.current = trace.current /\ trace'.fault = trace.fault
        /\ (trace'.enabled => trace.enabled)
        /\ phase' = phase /\ task' = task /\ pxCurrentTCB' = pxCurrentTCB
    BY <1>2, ExcludeEffect, NamesAssumption DEF ExcludeTask, IInv
  <2> QED
    BY <2>1, NothingNew DEF CInv, NoFault, Running, Traced
<1>3. ASSUME NEW t \in Tcbs, TaskDelete(t) PROVE CInv'
  <2>1. Running => Running'
    BY <1>3 DEF TaskDelete, Running, Traced, IInv
  <2> QED
    BY <1>3, <2>1, NothingNew DEF TaskDelete, CInv, NoFault
<1>4. ASSUME NEW fails, vTraceEnable(fails) PROVE CInv'
  <2>1. /\ trace' \in {prvTraceError(trace), [trace EXCEPT !.enabled = TRUE],
                       [CreateIoTask(trace, fails) EXCEPT !.enabled = TRUE]}
        /\ ~trace.enabled /\ phase' = phase
    BY <1>4 DEF vTraceEnable
  <2>2. /\ trace'.slots = trace.slots /\ trace'.clock = trace.clock
        /\ trace'.current = trace.current /\ trace'.fault = trace.fault
    BY <2>1, EnableEffect DEF IInv
  <2>3. trace'.enabled => trace.current = NULL
    BY <1>4, EnableStep DEF MainIdle
  <2>4. CASE trace.current # NULL
    BY <2>1, <2>2, <2>3, <2>4 DEF CInv, NoFault, NoneUsed, Caught
  <2>5. CASE trace.current = NULL
    BY <2>1, <2>2, <2>5 DEF CInv, NoFault, NoneUsed, Caught
  <2> QED
    BY <2>4, <2>5
<1>5. ASSUME NEW fails, NEW t \in Tcbs, NEW name \in AppNames, TaskCreate(t, name, fails)
      PROVE  CInv'
  BY <1>5, CreateCaught
<1>6. ASSUME NEW fails, SwitchOut(fails) PROVE CInv'
  BY <1>6, SwitchOutCaught
<1>7. ASSUME NEW fails, NEW t \in Tasks, SwitchIn(t, fails) PROVE CInv'
  BY <1>7, SwitchInCaught
<1>8. ASSUME NEW fails, KernelHook(fails) PROVE CInv'
  <2>1. /\ SameButClocks(trace, trace') /\ (trace'.enabled => trace.enabled)
        /\ \/ trace'.clock = trace.clock
           \/ /\ trace.current # NULL
              /\ OneMore(trace, trace', trace.slots[get_tcb_probe(trace, trace.current)].probe)
    BY <1>8, LogEffect DEF KernelHook, IInv, Recording
  <2>2. phase' = phase /\ pxCurrentTCB' = pxCurrentTCB /\ task' = task
    BY <1>8 DEF KernelHook
  <2>3. CASE trace.current = NULL
    BY <2>1, <2>2, <2>3, NothingNew DEF SameButClocks, CInv, NoFault, Running, Traced
  <2>4. CASE trace.current # NULL
    <3>1. phase = "run" /\ Running
      BY <1>8, <2>4 DEF KernelHook, MainIdle, IInv, Attribution, Running
    <3> QED
      BY <2>1, <2>2, <2>4, <3>1, RunningRecords DEF SameButClocks, SameOwners
  <2> QED
    BY <2>3, <2>4
<1>9. ASSUME NEW fails, UserRecord(fails) PROVE CInv'
  BY <1>9, UserRecordCaught
<1>10. CASE UNCHANGED vars
  BY <1>10, NothingNew DEF vars, CInv, NoFault, Running, Traced
<1> QED
  BY <1>1, <1>2, <1>3, <1>4, <1>5, <1>6, <1>7, <1>8, <1>9, <1>10 DEF Next

--------------------------------------------------------------------------------
\* The theorems

\* In every reachable state.
LEMMA Handover ==
  ASSUME UseTraceAssert
  PROVE  Spec => []CInv
<1>1. Init => CInv
  <2> SUFFICES ASSUME Init PROVE CInv
    OBVIOUS
  <2>1. \A q \in Addr : trace.clock[q][q] = 0
    BY DEF Init, ZeroClock
  <2>2. ~trace.enabled /\ ~trace.fault /\ phase = "main"
    BY DEF Init
  <2> QED
    BY <2>1, <2>2 DEF CInv, NoFault, NoneUsed, Caught
<1>2. IInv /\ IInv' /\ MainIdle /\ Packed /\ PInv /\ CInv /\ [Next]_vars => CInv'
  BY NextCaught
<1>3. Packed /\ TaggedHasSlot => Packed
  OBVIOUS
<1> QED
  BY <1>1, <1>2, <1>3, Invariance, Idleness, Slotted, Placement, PTL DEF Spec

\* With the asserts the probe that the running traced task's hooks record into causally follows
\* everything that was recorded where hooks record, whichever tasks, traced or not, ran in between
\* or were deleted, and whatever failed: after a failed snapshot or merge tracing is off, and
\* stays off.
THEOREM CausalitySurvivesReuse ==
  ASSUME UseTraceAssert
  PROVE  Spec => []HookedComplete
<1>1. IInv /\ CInv => HookedComplete
  <2> SUFFICES ASSUME IInv, CInv, trace.enabled, phase = "run", Traced(pxCurrentTCB)
               PROVE  LET i == get_tcb_probe(trace, pxCurrentTCB)
                      IN  /\ i # NoSlot
                          /\ \A q \in Addr : Used(q) /\ ~Hidden(q) =>
                               trace.clock[trace.slots[i].probe][q] = trace.clock[q][q]
    BY DEF HookedComplete
  <2>1. trace.current = pxCurrentTCB /\ pxCurrentTCB # NULL
    BY DEF IInv, Attribution, Traced
  <2>2. Knows(trace, Visible)
    BY <2>1 DEF CInv, Caught
  <2> QED
    BY <2>1, <2>2 DEF Knows, Complete, Visible, Used
<1> QED
  BY <1>1, Invariance, Handover, PTL

\* While no task is deleted the probe of the tag is the one the hooks find, and none is hidden:
\* the running task follows everything, whatever failed.
THEOREM CausalityIsComplete ==
  ASSUME UseTraceAssert, ~DeleteTasks
  PROVE  Spec => []CausalComplete
<1>1. ASSUME IInv, OInv, NEW q \in Addr PROVE ~Hidden(q)
  <2> SUFFICES ASSUME NEW i \in Slots, trace.slots[i].tcb # NULL,
                      get_tcb_probe(trace, trace.slots[i].tcb) # i
               PROVE  FALSE
    BY DEF Hidden
  <2> DEFINE t == trace.slots[i].tcb
             j == get_tcb_probe(trace, t)
  <2>1. j \in Slots /\ trace.slots[j].tcb = t
    BY <1>1, GetTcbProbe DEF IInv, Good
  <2>2. trace.slots[i].probe = task[t].tag /\ trace.slots[j].probe = task[t].tag
    BY <1>1, <2>1 DEF OInv, SlotTags
  <2>3. trace.slots[i].probe \in Addr
    BY <1>1 DEF IInv, Good, SlotsInside
  <2> QED
    BY <1>1, <2>1, <2>2, <2>3, SizesAssumption DEF IInv, Good, SlotsApart, Addr
<1>2. IInv /\ OInv /\ HookedComplete => CausalComplete
  <2> SUFFICES ASSUME IInv, OInv, HookedComplete,
                      trace.enabled, phase = "run", Traced(pxCurrentTCB),
                      NEW q \in Addr, Used(q)
               PROVE  trace.clock[task[pxCurrentTCB].tag][q] = trace.clock[q][q]
    BY DEF CausalComplete
  <2> DEFINE i == get_tcb_probe(trace, pxCurrentTCB)
  <2>1. i # NoSlot /\ trace.clock[trace.slots[i].probe][q] = trace.clock[q][q]
    BY <1>1 DEF HookedComplete
  <2>2. task[pxCurrentTCB].tag = trace.slots[i].probe
    BY <2>1, FoundTag DEF Traced
  <2> QED
    BY <2>1, <2>2
<1> QED
  BY <1>2, Invariance, Ownership, CausalitySurvivesReuse, PTL

\* With the asserts no function of the tracer uses a null pointer.
LEMMA NextNoFault ==
  ASSUME UseTraceAssert, IInv, NoFault, [Next]_vars
  PROVE  NoFault'
<1>1. ASSUME SameButClocks(trace, trace'), phase' = phase PROVE NoFault'
  BY <1>1 DEF SameButClocks, NoFault
<1>2. CASE vTraceDisable
  BY <1>1, <1>2, ErrorEffect DEF vTraceDisable, IInv, Good
<1>3. ASSUME NEW name \in AppNames, ExcludeTask(name) PROVE NoFault'
  BY <1>3, ExcludeEffect, NamesAssumption DEF ExcludeTask, IInv, NoFault
<1>4. ASSUME NEW t \in Tcbs, TaskDelete(t) PROVE NoFault'
  BY <1>4 DEF TaskDelete, NoFault
<1>5. ASSUME NEW fails, vTraceEnable(fails) PROVE NoFault'
  <2>1. /\ trace' \in {prvTraceError(trace), [trace EXCEPT !.enabled = TRUE],
                       [CreateIoTask(trace, fails) EXCEPT !.enabled = TRUE]}
        /\ ~trace.enabled /\ phase' = phase
    BY <1>5 DEF vTraceEnable
  <2> QED
    BY <2>1, EnableEffect DEF IInv, NoFault
<1>6. ASSUME NEW fails, NEW t \in Tcbs, NEW name \in AppNames, TaskCreate(t, name, fails)
      PROVE  NoFault'
  <2>1. trace' = prvTraceRegisterTaskProbe(trace, t, name, fails) /\ phase' = phase
    BY <1>6 DEF TaskCreate
  <2>2. Good(trace) /\ t \in Tasks /\ name \in Names
    BY <1>6, NamesAssumption DEF Tasks, IInv
  <2>3. trace'.fault = trace.fault
    BY <2>1, <2>2, RegisterEffect
  <2> QED
    BY <2>1, <2>3 DEF NoFault
<1>7. ASSUME NEW fails, SwitchOut(fails) PROVE NoFault'
  BY <1>7, SwitchOutEffect DEF SwitchOut, IInv, NoFault
<1>8. ASSUME NEW fails, NEW t \in Tasks, SwitchIn(t, fails) PROVE NoFault'
  <2>1. trace'.fault = trace.fault
    BY <1>8, SwitchInEffect DEF SwitchIn, IInv
  <2> QED
    BY <1>8, <2>1 DEF SwitchIn, NoFault
<1>9. ASSUME NEW fails, KernelHook(fails) PROVE NoFault'
  BY <1>1, <1>9, LogEffect DEF KernelHook, IInv
<1>10. ASSUME NEW fails, UserRecord(fails) PROVE NoFault'
  BY <1>1, <1>10, UserRecordEffect DEF UserRecord
<1>11. CASE UNCHANGED vars
  BY <1>11 DEF vars, NoFault
<1> QED
  BY <1>2, <1>3, <1>4, <1>5, <1>6, <1>7, <1>8, <1>9, <1>10, <1>11 DEF Next

\* The asserts of prvTraceMergeSnapshot keep a missing slot from being used, whoever is
\* created, deleted, switched or refused a probe; without them a run finds one that is used.
THEOREM NullIsNotUsed ==
  ASSUME UseTraceAssert
  PROVE  Spec => []NoNullDereference
<1>1. Init => NoFault
  BY DEF Init, NoFault
<1>2. IInv /\ NoFault /\ [Next]_vars => NoFault'
  BY NextNoFault
<1>3. NoFault => NoNullDereference
  BY DEF NoFault, NoNullDereference
<1> QED
  BY <1>1, <1>2, <1>3, Invariance, PTL DEF Spec

--------------------------------------------------------------------------------
\* What is known stays known, whatever fails and whoever is deleted

\* A slot's snapshot is never ahead of its probe, and a free slot has an empty one: that one
\* is left in the slot when, without the asserts, a new task's first snapshot fails.
Behind(s) ==
  \A i \in Slots, q \in Addr :
    IF s.slots[i].tcb = NULL
    THEN s.slots[i].probe = NULL /\ s.slots[i].snapshot[q] = 0
    ELSE s.slots[i].snapshot[q] <= s.clock[s.slots[i].probe][q]

\* From s to r the probes and the slots forget nothing.
Grows(s, r) ==
  /\ \A p, q \in Addr : p < s.next => s.clock[p][q] <= r.clock[p][q]
  /\ \A i \in Slots, q \in Addr :
       s.slots[i].probe # NULL /\ r.slots[i].probe = s.slots[i].probe
         => s.slots[i].snapshot[q] <= r.slots[i].snapshot[q]

\* The probe of a slot that is taken was handed out.
LEMMA HandedOut ==
  ASSUME NEW s, Good(s), NEW i \in Slots, s.slots[i].tcb # NULL
  PROVE  s.slots[i].probe \in Addr /\ s.slots[i].probe < s.next
<1>1. s.slots[i].probe \in Addr /\ s.slots[i].probe + TaskProbeSize <= s.next
  BY DEF Good, SlotsInside
<1> QED
  BY <1>1, SizesAssumption, TraceFields DEF Addr, Good

\* A step of the clocks and snapshots only: each clock that was handed out grows, and each
\* snapshot stays or becomes the clock of its probe.
LEMMA SnappedGrows ==
  ASSUME NEW s, Good(s), Behind(s), NEW r, Good(r), SameOwners(s, r), Snapped(s, r),
         \A p, q \in Addr : p < s.next => s.clock[p][q] <= r.clock[p][q]
  PROVE  Behind(r) /\ Grows(s, r)
<1>1. ASSUME NEW i \in Slots, NEW q \in Addr
      PROVE  /\ s.slots[i].tcb = NULL =>
                  s.slots[i].probe = NULL /\ r.slots[i].snapshot[q] = 0
             /\ s.slots[i].tcb # NULL =>
                  /\ s.slots[i].snapshot[q] <= r.slots[i].snapshot[q]
                  /\ r.slots[i].snapshot[q] <= r.clock[s.slots[i].probe][q]
  <2>1. CASE s.slots[i].tcb = NULL
    BY <2>1 DEF Behind, Snapped
  <2>2. CASE s.slots[i].tcb # NULL
    <3> DEFINE p == s.slots[i].probe
    <3>1. p \in Addr /\ s.clock[p][q] <= r.clock[p][q]
      BY <2>2, HandedOut
    <3>2. s.slots[i].snapshot[q] <= s.clock[p][q]
      BY <2>2 DEF Behind
    <3>3. /\ s.slots[i].snapshot[q] \in Nat /\ s.clock[p][q] \in Nat
          /\ r.slots[i].snapshot[q] \in Nat /\ r.clock[p][q] \in Nat
      BY <3>1, TraceFields DEF Good
    <3>4. \/ r.slots[i].snapshot = s.slots[i].snapshot
          \/ r.slots[i].snapshot = r.clock[p]
      BY DEF Snapped
    <3> HIDE DEF p
    <3>5. /\ s.slots[i].snapshot[q] <= r.slots[i].snapshot[q]
          /\ r.slots[i].snapshot[q] <= r.clock[p][q]
      BY <3>1, <3>2, <3>3, <3>4
    <3> QED
      BY <2>2, <3>5 DEF p
  <2> QED
    BY <2>1, <2>2
<1> QED
  BY <1>1 DEF Behind, Grows, SameOwners

\* A step of the clocks only.
LEMMA ClocksGrow ==
  ASSUME NEW s, Good(s), Behind(s), NEW r, Good(r), r.slots = s.slots,
         \A p, q \in Addr : s.clock[p][q] <= r.clock[p][q]
  PROVE  Behind(r) /\ Grows(s, r)
BY SnappedGrows DEF SameOwners, Snapped

\* A record, or none.
LEMMA RecordGrows ==
  ASSUME NEW s, Good(s), Behind(s), NEW r, Good(r), r.slots = s.slots,
         r.clock = s.clock \/ \E p \in Addr : OneMore(s, r, p)
  PROVE  Behind(r) /\ Grows(s, r)
<1>1. \A a, b \in Addr : s.clock[a][b] \in Nat
  BY TraceFields DEF Good
<1>2. \A a, b \in Addr : s.clock[a][b] <= r.clock[a][b]
  BY <1>1 DEF OneMore
<1> QED
  BY <1>2, ClocksGrow

\* The hook of xTaskCreate empties the clock of the storage it takes, which nobody had, and
\* the snapshot it takes of it, or finds in the slot, is empty.
LEMMA RegisterGrows ==
  ASSUME NEW s, Good(s), Behind(s), NEW tcb \in Tasks, NEW name \in Names, NEW fails,
         NEW r, r = prvTraceRegisterTaskProbe(s, tcb, name, fails), Good(r)
  PROVE  Behind(r) /\ Grows(s, r)
<1> DEFINE p == ProbeFor(s, StoredName[name], fails)
<1>1. /\ \A b, c \in Addr : b # s.next => r.clock[b][c] = s.clock[b][c]
      /\ \A j \in Slots, c \in Addr : r.slots[j].snapshot[c] \in {s.slots[j].snapshot[c], 0}
      /\ r.slots = s.slots \/ (p \in Addr /\ Takes(s, r, tcb, p))
  BY RegisterEffect
<1>2. tcb # NULL
  BY TasksAssumption
<1>3. /\ \A a, b \in Addr : s.clock[a][b] \in Nat /\ r.clock[a][b] \in Nat
      /\ \A a \in Addr : a < s.next => a # s.next
  BY SizesAssumption, TraceFields DEF Addr, Good
<1>4. \A a, b \in Addr : a < s.next => s.clock[a][b] <= r.clock[a][b]
  BY <1>1, <1>3
<1>5. CASE r.slots = s.slots
  BY <1>4, <1>5, SnappedGrows DEF SameOwners, Snapped
<1>6. CASE p \in Addr /\ Takes(s, r, tcb, p)
  <2> HIDE DEF p
  <2>1. PICK i \in Slots :
          /\ s.slots[i].tcb = NULL
          /\ r.slots[i].tcb = tcb /\ r.slots[i].probe = p
          /\ \A j \in Slots : j # i => r.slots[j] = s.slots[j]
    BY <1>6 DEF Takes
  <2>2. ASSUME NEW q \in Addr
        PROVE  s.slots[i].probe = NULL /\ r.slots[i].snapshot[q] = 0
    BY <1>1, <2>1 DEF Behind
  <2>3. \A q \in Addr : r.slots[i].snapshot[q] <= r.clock[p][q]
    BY <1>3, <1>6, <2>2
  <2>4. ASSUME NEW j \in Slots, j # i, NEW q \in Addr
        PROVE  /\ r.slots[j] = s.slots[j]
               /\ s.slots[j].snapshot[q] <= r.slots[j].snapshot[q]
               /\ s.slots[j].tcb = NULL =>
                    s.slots[j].probe = NULL /\ s.slots[j].snapshot[q] = 0
               /\ s.slots[j].tcb # NULL =>
                    s.slots[j].snapshot[q] <= r.clock[s.slots[j].probe][q]
    <3>1. r.slots[j] = s.slots[j] /\ s.slots[j].snapshot[q] \in Nat
      BY <2>1, <2>4, TraceFields DEF Good
    <3>2. ASSUME s.slots[j].tcb # NULL
          PROVE  s.slots[j].snapshot[q] <= r.clock[s.slots[j].probe][q]
      <4>1. s.slots[j].probe \in Addr /\ s.slots[j].probe # s.next
        BY <1>3, <3>2, HandedOut
      <4> QED
        BY <1>1, <3>2, <4>1 DEF Behind
    <3> QED
      BY <3>1, <3>2 DEF Behind
  <2>5. Behind(r)
    BY <1>2, <2>1, <2>3, <2>4 DEF Behind
  <2>6. ASSUME NEW j \in Slots, NEW q \in Addr, s.slots[j].probe # NULL
        PROVE  s.slots[j].snapshot[q] <= r.slots[j].snapshot[q]
    BY <2>2, <2>4, <2>6
  <2> QED
    BY <1>4, <2>5, <2>6 DEF Grows
<1> QED
  BY <1>1, <1>5, <1>6

\* Every step of the system.
LEMMA NextGrows ==
  ASSUME IInv, IInv', Behind(trace), [Next]_vars
  PROVE  Behind(trace') /\ Grows(trace, trace')
<1> DEFINE Goal == Behind(trace') /\ Grows(trace, trace')
<1>1. Good(trace) /\ Good(trace')
  BY DEF IInv
<1>2. ASSUME trace'.slots = trace.slots, trace'.clock = trace.clock PROVE Goal
  BY <1>1, <1>2, RecordGrows
<1>3. CASE vTraceDisable
  BY <1>1, <1>2, <1>3, ErrorEffect DEF vTraceDisable, Good, SameButClocks
<1>4. ASSUME NEW name \in AppNames, ExcludeTask(name) PROVE Goal
  BY <1>1, <1>2, <1>4, ExcludeEffect, NamesAssumption DEF ExcludeTask
<1>5. ASSUME NEW t \in Tcbs, TaskDelete(t) PROVE Goal
  BY <1>2, <1>5 DEF TaskDelete
<1>6. ASSUME NEW fails, vTraceEnable(fails) PROVE Goal
  <2>1. /\ trace' \in {prvTraceError(trace), [trace EXCEPT !.enabled = TRUE],
                       [CreateIoTask(trace, fails) EXCEPT !.enabled = TRUE]}
        /\ ~trace.enabled
    BY <1>6 DEF vTraceEnable
  <2> QED
    BY <1>1, <1>2, <2>1, EnableEffect
<1>7. ASSUME NEW fails, NEW t \in Tcbs, NEW name \in AppNames, TaskCreate(t, name, fails)
      PROVE  Goal
  BY <1>1, <1>7, RegisterGrows, NamesAssumption DEF TaskCreate, Tasks
<1>8. ASSUME NEW fails, SwitchOut(fails) PROVE Goal
  <2>1. CASE ~Traced(pxCurrentTCB)
    BY <1>2, <1>8, <2>1 DEF SwitchOut
  <2>2. CASE Traced(pxCurrentTCB)
    <3> DEFINE i == get_tcb_probe(trace, trace.current)
               p == trace.slots[i].probe
    <3>1. trace' = traceTASK_SWITCHED_OUT(trace, fails)
      BY <1>8, <2>2 DEF SwitchOut
    <3>2. /\ SameOwners(trace, trace') /\ Snapped(trace, trace')
          /\ \/ trace'.clock = trace.clock
             \/ trace.current # NULL /\ i # NoSlot /\ OneMore(trace, trace', p)
      BY <1>1, <3>1, SwitchOutEffect
    <3>3. \A a, b \in Addr : trace.clock[a][b] \in Nat
      BY <1>1, TraceFields DEF Good
    <3>4. \A a, b \in Addr : trace.clock[a][b] <= trace'.clock[a][b]
      <4>1. CASE trace'.clock = trace.clock
        BY <3>3, <4>1
      <4>2. CASE OneMore(trace, trace', p)
        <5> HIDE DEF p
        <5> QED
          BY <3>3, <4>2 DEF OneMore
      <4> QED
        BY <3>2, <4>1, <4>2
    <3> QED
      BY <1>1, <3>2, <3>4, SnappedGrows
  <2> QED
    BY <2>1, <2>2
<1>9. ASSUME NEW fails, NEW t \in Tasks, SwitchIn(t, fails) PROVE Goal
  BY <1>1, <1>2, <1>9, SwitchInEffect, ClocksGrow DEF SwitchIn
<1>10. ASSUME NEW fails, KernelHook(fails) PROVE Goal
  <2> DEFINE i == get_tcb_probe(trace, trace.current)
  <2>1. /\ trace'.slots = trace.slots
        /\ \/ trace'.clock = trace.clock
           \/ /\ trace.current # NULL /\ i # NoSlot
              /\ OneMore(trace, trace', trace.slots[i].probe)
    BY <1>1, <1>10, LogEffect DEF KernelHook, SameButClocks, Recording
  <2>2. trace.current # NULL /\ i # NoSlot => trace.slots[i].probe \in Addr
    BY <1>1, FoundProbe
  <2> QED
    BY <1>1, <2>1, <2>2, RecordGrows
<1>11. ASSUME NEW fails, UserRecord(fails) PROVE Goal
  BY <1>1, <1>11, UserRecordEffect, RecordGrows DEF UserRecord, SameButClocks
<1>12. CASE UNCHANGED vars
  BY <1>2, <1>12 DEF vars
<1> QED
  BY <1>3, <1>4, <1>5, <1>6, <1>7, <1>8, <1>9, <1>10, <1>11, <1>12 DEF Next

\* Whatever fails, with and without the asserts, and whoever is deleted: a probe that was
\* handed out never takes back what it was known to follow, nor does the snapshot of a slot.
THEOREM NothingIsForgotten == Spec => NothingForgotten
<1> DEFINE BInv == Behind(trace)
<1>1. Init => BInv
  BY DEF Init, Behind, FreeTcbProbe, ZeroClock
<1>2. IInv /\ IInv' /\ BInv /\ [Next]_vars => BInv'
  BY NextGrows
<1>3. IInv /\ IInv' /\ BInv /\ [Next]_vars
        => [/\ \A p, q \in Addr : p < trace.next => trace.clock[p][q] <= trace'.clock[p][q]
            /\ \A i \in Slots, q \in Addr :
                 trace.slots[i].probe # NULL /\ trace'.slots[i].probe = trace.slots[i].probe
                   => trace.slots[i].snapshot[q] <= trace'.slots[i].snapshot[q]]_vars
  BY NextGrows DEF Grows
<1> HIDE DEF BInv
<1> QED
  BY <1>1, <1>2, <1>3, Invariance, PTL DEF Spec, NothingForgotten

================================================================================
