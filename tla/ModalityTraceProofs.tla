--------------------------- MODULE ModalityTraceProofs ---------------------------
(* Theorems about ModalityTrace for every value of its constants.              *)
EXTENDS ModalityTrace, LeastElement, TLAPS

\* A nonempty set of natural numbers has a least element, the one First chooses.
LEMMA FirstIsLeast ==
  ASSUME NEW S \in SUBSET Nat, S # {}
  PROVE  First(S) \in S /\ \A j \in S : First(S) <= j
BY LeastExists DEF First

\* get_tcb_probe returns the first slot that holds the TCB, or NoSlot if none does.
LEMMA GetTcbProbe ==
  ASSUME NEW s \in Trace, NEW tcb
  PROVE  LET i == get_tcb_probe(s, tcb)
         IN  \/ i = NoSlot /\ \A j \in Slots : s.slots[j].tcb # tcb
             \/ i \in Slots /\ s.slots[i].tcb = tcb /\ i # NoSlot
<1> DEFINE found == {i \in Slots : s.slots[i].tcb = tcb}
<1>1. CASE found = {}
  BY <1>1 DEF get_tcb_probe
<1>2. CASE found # {}
  <2>1. found \in SUBSET Nat
    BY SizesAssumption DEF Slots
  <2>2. First(found) \in found
    BY <2>1, <1>2, FirstIsLeast
  <2> QED
    BY <2>2, <1>2 DEF get_tcb_probe, NoSlot, Slots
<1> QED
  BY <1>1, <1>2

--------------------------------------------------------------------------------
\* What every operator on the trace record preserves

SlotsInside(s) ==
  \A i \in Slots : s.slots[i].tcb # NULL =>
    s.slots[i].probe \in Addr /\ s.slots[i].probe + TaskProbeSize <= s.next

SlotsApart(s) ==
  \A i, j \in Slots : i # j /\ s.slots[i].tcb # NULL /\ s.slots[j].tcb # NULL =>
    \/ s.slots[i].probe + TaskProbeSize <= s.slots[j].probe
    \/ s.slots[j].probe + TaskProbeSize <= s.slots[i].probe

\* Nothing is known of a probe that is not allocated yet.
FreshUnknown(s) ==
  \A p \in Addr : p >= s.next =>
    /\ \A q \in Addr : s.clock[q][p] = 0
    /\ \A i \in Slots : s.slots[i].snapshot[p] = 0

Sound(s) ==
  /\ \A p, q \in Addr : s.clock[p][q] <= s.clock[q][q]
  /\ \A i \in Slots, q \in Addr : s.slots[i].snapshot[q] <= s.clock[q][q]

Good(s) ==
  /\ s \in Trace
  /\ SlotsInside(s) /\ SlotsApart(s) /\ FreshUnknown(s) /\ Sound(s)

\* What every function of the tracer but prvTraceSwitchedTCB and vTraceEnable
\* does to the record: storage is never given back, the current task and the IO
\* task's handle stay, and tracing is not switched on.
Keeps(s, r) ==
  /\ Good(r)
  /\ s.next <= r.next
  /\ r.current = s.current /\ r.io_handle = s.io_handle
  /\ r.enabled => s.enabled

\* A function that calls one and then another that keep all this keeps it too.
LEMMA KeepsTwice ==
  ASSUME NEW s, Good(s), NEW r, NEW q, Keeps(s, r), Keeps(r, q)
  PROVE  Keeps(s, q)
BY SizesAssumption DEF Keeps, Good, Trace

\* An early return keeps it.
LEMMA KeepsItself ==
  ASSUME NEW s, Good(s)
  PROVE  Keeps(s, s)
BY SizesAssumption DEF Keeps, Good, Trace

\* A function that changes tables or clocks only keeps the rest.
LEMMA KeepsRest ==
  ASSUME NEW s, Good(s), NEW r, Good(r), r.next = s.next, r.current = s.current,
         r.io_handle = s.io_handle, r.enabled = s.enabled
  PROVE  Keeps(s, r)
<1>1. s.next <= s.next
  BY KeepsItself DEF Keeps
<1> QED
  BY <1>1 DEF Keeps

\* Good is about the tables and the clocks only: a function that assigns other static variables preserves it.
LEMMA FrameGood ==
  ASSUME NEW s, Good(s), NEW r \in Trace,
         r.slots = s.slots, r.next = s.next, r.clock = s.clock
  PROVE  Good(r)
BY DEF Good, SlotsInside, SlotsApart, FreshUnknown, Sound

\* vTraceDisable, prvTraceError and a failed TRACE_ASSERT change only the flags.
LEMMA ErrorGood ==
  ASSUME NEW s, Good(s)
  PROVE  /\ Keeps(s, Disabled(s)) /\ Keeps(s, prvTraceError(s))
         /\ Keeps(s, AssertFailed(s))
<1> DEFINE d == Disabled(s)
           e == prvTraceError(s)
           Same(r) == /\ r \in Trace /\ r.slots = s.slots /\ r.next = s.next
                      /\ r.clock = s.clock /\ r.current = s.current
                      /\ r.io_handle = s.io_handle /\ r.enabled = FALSE
<1>1. Same(d)
  BY DEF Good, Trace, Disabled
<1>2. Same(e)
  BY <1>1 DEF prvTraceError, Trace
<1>3. ASSUME NEW r, Same(r) PROVE Keeps(s, r)
  <2>1. Good(r)
    BY <1>3, FrameGood
  <2> QED
    BY <1>3, <2>1, SizesAssumption DEF Keeps, Good, Trace
<1> HIDE DEF Same
<1>4. Keeps(s, d) /\ Keeps(s, e)
  BY <1>1, <1>2, <1>3
<1> QED
  BY <1>4, KeepsItself DEF AssertFailed

\* The fields the arithmetic is about, spelled out.
LEMMA TraceFields ==
  ASSUME NEW s \in Trace
  PROVE  /\ \A a \in Addr : s.clock[a] \in Clock
         /\ \A a, b \in Addr : s.clock[a][b] \in Nat
         /\ \A i \in Slots, b \in Addr : s.slots[i].snapshot[b] \in Nat
         /\ \A i \in Slots : s.slots[i] \in TcbProbe
         /\ s.next \in 0 .. StorageSize
BY DEF Trace, Clock, TcbProbe

\* modality_probe_record_event makes one more record in a probe whose storage is
\* allocated.
LEMMA CountGood ==
  ASSUME NEW s, Good(s), NEW p \in Addr, p + TaskProbeSize <= s.next
  PROVE  Keeps(s, [s EXCEPT !.clock[p][p] = @ + 1])
<1> DEFINE r == [s EXCEPT !.clock[p][p] = @ + 1]
           c == [s.clock[p] EXCEPT ![p] = @ + 1]
<1> USE DEF Good
<1>1. c \in Clock
  BY TraceFields DEF Clock
<1>2. /\ r \in Trace /\ r.slots = s.slots /\ r.next = s.next
      /\ r.error = s.error /\ r.enabled = s.enabled
      /\ r.current = s.current /\ r.io_handle = s.io_handle
      /\ r.clock = [s.clock EXCEPT ![p] = c]
  BY <1>1 DEF Trace
<1>3. \A a, b \in Addr :
        r.clock[a][b] = IF a = p /\ b = p THEN s.clock[p][p] + 1 ELSE s.clock[a][b]
  BY <1>2, TraceFields DEF Trace, Clock
<1>4. SlotsInside(r) /\ SlotsApart(r)
  BY <1>2 DEF SlotsInside, SlotsApart
<1>5. FreshUnknown(r)
  BY <1>2, <1>3, SizesAssumption, TraceFields DEF FreshUnknown, Addr
<1>6. Sound(r)
  BY <1>2, <1>3, TraceFields DEF Sound
<1> HIDE DEF r, Good
<1>7. Good(r)
  BY <1>2, <1>4, <1>5, <1>6 DEF Good
<1>8. Keeps(s, r)
  BY <1>2, <1>7, KeepsRest
<1> QED
  BY <1>8 DEF r

\* So does the call followed by the assert on its result.
LEMMA RecordGood ==
  ASSUME NEW s, Good(s), NEW fails, NEW p \in Addr, p + TaskProbeSize <= s.next
  PROVE  Keeps(s, record_event(s, p, fails))
BY CountGood, ErrorGood DEF record_event

\* What a failed call leaves of the tables when it only reports an error.
SameTables(s, r) ==
  /\ r.slots = s.slots /\ r.next = s.next /\ r.clock = s.clock

\* prvTraceError and the asserts change no table and no clock.
LEMMA ErrorFrame ==
  ASSUME NEW s \in Trace
  PROVE  SameTables(s, prvTraceError(s)) /\ SameTables(s, AssertFailed(s))
<1>1. prvTraceError(s) \in Trace /\ SameTables(s, prvTraceError(s))
  BY DEF Trace, prvTraceError, Disabled, SameTables
<1> QED
  BY <1>1 DEF AssertFailed, SameTables

\* A probe id is a number, and computing it may only report an empty name.
LEMMA HashGood ==
  ASSUME NEW s, Good(s), NEW name \in Names
  PROVE  /\ probe_id_hash(name) \in Nat
         /\ Keeps(s, HashChecked(s, name))
         /\ SameTables(s, HashChecked(s, name))
<1>1. probe_id_hash(name) \in Nat
  <2>2. Crc[name] \in Nat
    BY NamesAssumption
  <2>3. 0 \in Nat
    OBVIOUS
  <2> QED
    BY <2>2, <2>3, Zenon DEF probe_id_hash
<1>2. SameTables(s, s)
  BY DEF SameTables
<1> QED
  BY <1>1, <1>2, ErrorGood, ErrorFrame, KeepsItself DEF HashChecked, Good

\* vTraceExcludeTask fills an exclusion slot or reports that none is free.
LEMMA ExcludeGood ==
  ASSUME NEW s, Good(s), NEW name \in Names
  PROVE  Keeps(s, vTraceExcludeTask(s, name))
<1> DEFINE free == {i \in ExclusionSlots : s.excluded[i] = 0}
           h == HashChecked(s, name)
           x == [h.excluded EXCEPT ![First(free)] = probe_id_hash(name)]
           r == [h EXCEPT !.excluded[First(free)] = probe_id_hash(name),
                          !.requested = @ \cup {name}]
<1>1. Keeps(s, h) /\ probe_id_hash(name) \in Nat
  BY HashGood
<1>2. Good(h)
  BY <1>1 DEF Keeps
<1>3. r \in Trace /\ r.slots = h.slots /\ r.next = h.next /\ r.clock = h.clock
      /\ r.error = h.error /\ r.enabled = h.enabled
      /\ r.current = h.current /\ r.io_handle = h.io_handle
  <2>1. x \in [ExclusionSlots -> Nat]
    BY <1>1, <1>2 DEF Good, Trace
  <2> QED
    BY <1>2, <2>1 DEF Good, Trace
<1>4. Good(r)
  BY <1>2, <1>3, FrameGood DEF Good
<1>5. Keeps(s, r)
  BY <1>1, <1>3, <1>4 DEF Keeps
<1>6. Keeps(s, prvTraceError(h))
  BY <1>1, <1>2, ErrorGood, KeepsTwice
<1> QED
  BY <1>5, <1>6 DEF vTraceExcludeTask

--------------------------------------------------------------------------------
\* Registering a task

\* A probe that alloc_probe hands out has its storage below the new index and
\* above every storage that was handed out before.
LEMMA AllocGood ==
  ASSUME NEW s, Good(s), NEW id, NEW fails
  PROVE  LET a == alloc_probe(s, id, fails)
             p == NewProbe(s, id, fails)
         IN  /\ Keeps(s, a) /\ a.slots = s.slots
             /\ p # NULL => p = s.next /\ p \in Addr /\ p + TaskProbeSize <= a.next
<1> DEFINE b == [s EXCEPT !.next = @ + TaskProbeSize]
           k == [s.clock EXCEPT ![s.next] = ZeroClock]
           c == [b EXCEPT !.clock[s.next] = ZeroClock]
<1> USE DEF Good
<1>1. ASSUME StorageLeft(s, fails)
      PROVE  /\ Keeps(s, b) /\ b.slots = s.slots
             /\ Keeps(s, c) /\ c.slots = s.slots /\ s.next \in Addr
             /\ s.next + TaskProbeSize <= c.next
  <2>1. s.next \in Addr /\ s.next + TaskProbeSize \in 0 .. StorageSize
    BY <1>1, SizesAssumption, TraceFields DEF StorageLeft, Addr
  <2>2. /\ b \in Trace /\ b.slots = s.slots /\ b.clock = s.clock
        /\ b.error = s.error /\ b.enabled = s.enabled
        /\ b.current = s.current /\ b.io_handle = s.io_handle
        /\ b.next = s.next + TaskProbeSize
    BY <2>1 DEF Trace
  <2>3. SlotsInside(b)
    BY <2>1, <2>2, SizesAssumption, TraceFields DEF SlotsInside, Addr
  <2>4. SlotsApart(b) /\ Sound(b)
    BY <2>2 DEF SlotsApart, Sound
  <2>5. FreshUnknown(b)
    BY <2>1, <2>2, SizesAssumption, TraceFields DEF FreshUnknown, Addr
  <2>6. k \in [Addr -> Clock]
    BY <2>1 DEF Trace, ZeroClock, Clock
  <2>7. /\ c \in Trace /\ c.slots = s.slots /\ c.clock = k
        /\ c.error = s.error /\ c.enabled = s.enabled
        /\ c.current = s.current /\ c.io_handle = s.io_handle
        /\ c.next = b.next
    BY <2>2, <2>6 DEF Trace
  <2>8. \A p, q \in Addr : c.clock[p][q] = IF p = s.next THEN 0 ELSE s.clock[p][q]
    BY <2>1, <2>7 DEF Trace, ZeroClock
  <2>9. \A p \in Addr : s.clock[p][s.next] = 0
        /\ \A i \in Slots : s.slots[i].snapshot[s.next] = 0
    BY <2>1, TraceFields DEF FreshUnknown
  <2>10. SlotsInside(c) /\ SlotsApart(c)
    BY <2>2, <2>3, <2>4, <2>7 DEF SlotsInside, SlotsApart
  <2>11. FreshUnknown(c)
    BY <2>2, <2>5, <2>7, <2>8 DEF FreshUnknown
  <2>12. Sound(c)
    BY <2>7, <2>8, <2>9, TraceFields DEF Sound
  <2>13. s.next <= b.next
    BY <2>2, SizesAssumption, TraceFields
  <2> HIDE DEF b, c, k, Good
  <2>14. Good(b) /\ Good(c)
    BY <2>2, <2>3, <2>4, <2>5, <2>7, <2>10, <2>11, <2>12 DEF Good
  <2>15. Keeps(s, b) /\ Keeps(s, c)
    BY <2>2, <2>7, <2>13, <2>14 DEF Keeps
  <2>16. b.next <= b.next
    BY <2>14, KeepsItself DEF Keeps
  <2> QED
    BY <2>1, <2>2, <2>7, <2>15, <2>16
<1>2. CASE StorageLeft(s, fails)
  <2>1. alloc_storage(s, fails) = b
    BY <1>2 DEF alloc_storage
  <2>2. Keeps(s, AssertFailed(b)) /\ AssertFailed(b).slots = b.slots
    <3>1. Keeps(s, b) /\ Good(b) /\ b \in Trace
      BY <1>1, <1>2 DEF Keeps, Good
    <3> HIDE DEF b
    <3>2. Keeps(b, AssertFailed(b))
      BY <3>1, ErrorGood
    <3>3. Keeps(s, AssertFailed(b))
      BY <3>1, <3>2, KeepsTwice
    <3>4. AssertFailed(b).slots = b.slots
      BY <3>1, ErrorFrame DEF SameTables
    <3> QED
      BY <3>3, <3>4
  <2>3. b.next = s.next + TaskProbeSize /\ (AssertFailed(b)).next = b.next
    BY <1>1, <1>2, ErrorFrame DEF Keeps, Trace, SameTables
  <2> QED
    BY <1>1, <1>2, <2>1, <2>2, <2>3 DEF alloc_probe, NewProbe
<1>3. CASE ~StorageLeft(s, fails)
  BY <1>3, ErrorGood, ErrorFrame DEF alloc_probe, alloc_storage, NewProbe, SameTables
<1> QED
  BY <1>2, <1>3

\* The new slot takes a probe that no slot holds.
LEMMA AddGood ==
  ASSUME NEW s, Good(s), NEW tcb \in Tasks, NEW fails,
         NEW p \in Addr, p + TaskProbeSize <= s.next,
         \A i \in Slots : s.slots[i].tcb # NULL => s.slots[i].probe + TaskProbeSize <= p
  PROVE  LET r == add_tcb_probe(s, tcb, p, fails)
         IN  Keeps(s, r) /\ r.next = s.next
<1> DEFINE i == get_tcb_probe(s, NULL)
           snap == IF "produce_snapshot" \in fails THEN s.slots[i].snapshot ELSE s.clock[p]
           slot == [tcb |-> tcb, probe |-> p, snapshot |-> snap,
                    control |-> ControlPlaneBuffer /\ "control_buffer" \notin fails]
           add  == [s EXCEPT !.slots[i] = slot]
<1> USE DEF Good
<1>1. i = NoSlot \/ (i \in Slots /\ i # NoSlot)
  BY GetTcbProbe
<1>2. ASSUME i \in Slots
      PROVE  Keeps(s, add) /\ add.next = s.next
  <2>1. snap \in Clock /\ \A q \in Addr : snap[q] <= s.clock[q][q]
    BY <1>2, TraceFields DEF TcbProbe, Sound
  <2>2. slot \in TcbProbe
    BY <2>1, FlagsAssumption DEF TcbProbe
  <2>3. /\ add \in Trace /\ add.next = s.next /\ add.clock = s.clock
        /\ add.error = s.error /\ add.enabled = s.enabled
        /\ add.current = s.current /\ add.io_handle = s.io_handle
        /\ add.slots = [s.slots EXCEPT ![i] = slot]
    BY <2>2, <1>2 DEF Trace
  <2>4. \A j \in Slots : add.slots[j] = IF j = i THEN slot ELSE s.slots[j]
    BY <2>3, <1>2 DEF Trace
  <2>5. SlotsInside(add)
    BY <2>3, <2>4 DEF SlotsInside
  <2>6. SlotsApart(add)
    BY <2>4 DEF SlotsApart
  <2>7. FreshUnknown(add)
    <3>1. \A q \in Addr : q >= s.next => snap[q] = 0
      BY <1>2, TraceFields DEF FreshUnknown
    <3> QED
      BY <2>3, <2>4, <3>1 DEF FreshUnknown
  <2>8. Sound(add)
    BY <2>1, <2>3, <2>4 DEF Sound
  <2> HIDE DEF add, Good
  <2>10. Good(add)
    BY <2>3, <2>5, <2>6, <2>7, <2>8 DEF Good
  <2> QED
    BY <2>3, <2>10, KeepsRest
<1>3. Keeps(s, prvTraceError(s)) /\ SameTables(s, prvTraceError(s))
  BY ErrorGood, ErrorFrame
<1>4. ASSUME i \in Slots
      PROVE  Keeps(s, prvTraceError(add)) /\ SameTables(add, prvTraceError(add))
  <2>1. Keeps(s, add) /\ Good(add)
    BY <1>2, <1>4 DEF Keeps
  <2> QED
    BY <2>1, ErrorGood, ErrorFrame, KeepsTwice
<1> QED
  BY <1>1, <1>2, <1>3, <1>4 DEF add_tcb_probe, SameTables

\* prvTraceRegisterTaskProbe on every path; the probe it puts in the TCB's tag has
\* its storage below the new index.
LEMMA RegisterGood ==
  ASSUME NEW s, Good(s), NEW tcb \in Tasks, NEW name \in Names, NEW fails
  PROVE  LET r == prvTraceRegisterTaskProbe(s, tcb, name, fails)
             p == ProbeFor(s, StoredName[name], fails)
         IN  /\ Keeps(s, r)
             /\ p # NULL => p \in Addr /\ p + TaskProbeSize <= r.next
<1> DEFINE stored == StoredName[name]
           id == probe_id_hash(stored)
           h  == HashChecked(s, stored)
           a  == alloc_probe(h, id, fails)
           p  == ProbeFor(s, stored, fails)
           d  == add_tcb_probe(a, tcb, p, fails)
           e  == record_event(d, p, fails)
<1>1. stored \in Names
  BY NamesAssumption
<1>2. Keeps(s, h) /\ SameTables(s, h) /\ Good(h)
  BY <1>1, HashGood DEF Keeps
<1>3. Keeps(h, a) /\ Keeps(s, a) /\ Good(a) /\ a.slots = s.slots
  BY <1>2, AllocGood, KeepsTwice DEF SameTables, Keeps
<1>4. ASSUME p # NULL
      PROVE  Keeps(s, e) /\ p \in Addr /\ p + TaskProbeSize <= e.next
  <2>1. p = NewProbe(h, id, fails)
    BY <1>2, <1>4 DEF ProbeFor, NewProbe, StorageLeft, SameTables
  <2>2. p \in Addr /\ p + TaskProbeSize <= a.next /\ p = s.next
    BY <1>2, <1>4, <2>1, AllocGood DEF SameTables
  <2>3. \A i \in Slots : a.slots[i].tcb # NULL => a.slots[i].probe + TaskProbeSize <= p
    BY <1>3, <2>2 DEF Good, SlotsInside
  <2>4. Keeps(a, d) /\ d.next = a.next /\ Good(d)
    BY <1>3, <2>2, <2>3, AddGood DEF Keeps
  <2>5. Keeps(d, e)
    BY <2>2, <2>4, RecordGood
  <2>6. Keeps(a, e)
    BY <1>3, <2>4, <2>5, KeepsTwice
  <2>7. Keeps(s, e)
    BY <1>3, <2>6, KeepsTwice
  <2>8. d.next \in Nat /\ e.next \in Nat /\ d.next <= e.next
    <3> HIDE DEF d, e
    <3>1. d \in Trace /\ e \in Trace /\ d.next <= e.next
      BY <2>4, <2>5 DEF Keeps, Good
    <3> QED
      BY <3>1, TraceFields, SizesAssumption
  <2> QED
    BY <2>2, <2>4, <2>7, <2>8, SizesAssumption DEF Addr
<1>5. ~s.enabled => p = NULL
  BY DEF ProbeFor
<1>6. is_task_excluded(s, id) => p = NULL
  BY DEF ProbeFor
<1> QED
  BY <1>2, <1>3, <1>4, <1>5, <1>6, KeepsItself DEF prvTraceRegisterTaskProbe

--------------------------------------------------------------------------------
\* Logging and context switches

\* The slot that is found for a task holds an allocated probe.
LEMMA FoundProbe ==
  ASSUME NEW s, Good(s), NEW tcb, tcb # NULL, get_tcb_probe(s, tcb) # NoSlot
  PROVE  LET i == get_tcb_probe(s, tcb)
         IN  /\ i \in Slots /\ s.slots[i].probe \in Addr
             /\ s.slots[i].probe + TaskProbeSize <= s.next
BY GetTcbProbe DEF Good, SlotsInside

\* prvTraceLogEvent records into the probe of the slot of g_current_tcb.
LEMMA LogGood ==
  ASSUME NEW s, Good(s), NEW fails
  PROVE  Keeps(s, prvTraceLogEvent(s, fails))
BY FoundProbe, RecordGood, ErrorGood, KeepsItself DEF prvTraceLogEvent, Recording

\* prvTraceProduceSnapshot stores the clock of a slot's own probe in that slot.
LEMMA SnapshotGood ==
  ASSUME NEW s, Good(s), NEW fails
  PROVE  Keeps(s, prvTraceProduceSnapshot(s, fails))
<1> DEFINE i == get_tcb_probe(s, s.current)
           c == s.clock[s.slots[i].probe]
           r == [s EXCEPT !.slots[i].snapshot = c]
           slot == [s.slots[i] EXCEPT !.snapshot = c]
<1> USE DEF Good
<1>1. ASSUME Recording(s), i # NoSlot PROVE Keeps(s, r)
  <2>1. i \in Slots /\ s.slots[i].probe \in Addr
    BY <1>1, FoundProbe DEF Recording
  <2>2. c \in Clock
    BY <2>1, TraceFields
  <2>3. slot \in TcbProbe /\ slot.tcb = s.slots[i].tcb /\ slot.probe = s.slots[i].probe
        /\ slot.snapshot = c
    BY <2>1, <2>2, TraceFields DEF TcbProbe
  <2>4. /\ r \in Trace /\ r.next = s.next /\ r.clock = s.clock
        /\ r.error = s.error /\ r.enabled = s.enabled
        /\ r.current = s.current /\ r.io_handle = s.io_handle
        /\ r.slots = [s.slots EXCEPT ![i] = slot]
    BY <2>1, <2>3 DEF Trace
  <2>5. \A j \in Slots : /\ r.slots[j].tcb = s.slots[j].tcb
                         /\ r.slots[j].probe = s.slots[j].probe
                         /\ r.slots[j].snapshot = IF j = i THEN c ELSE s.slots[j].snapshot
    <3>1. s.slots \in [Slots -> TcbProbe]
      BY DEF Trace
    <3> HIDE DEF c, r, slot, i, Good
    <3>2. \A j \in Slots : r.slots[j] = IF j = i THEN slot ELSE s.slots[j]
      BY <2>1, <2>4, <3>1
    <3> QED
      BY <2>3, <3>2
  <2>6. SlotsInside(r) /\ SlotsApart(r)
    <3>1. SlotsInside(s) /\ SlotsApart(s)
      OBVIOUS
    <3> HIDE DEF c, r, slot, i, Good
    <3>2. SlotsInside(r)
      BY <2>4, <2>5, <3>1 DEF SlotsInside
    <3>3. SlotsApart(r)
      BY <2>5, <3>1 DEF SlotsApart
    <3> QED
      BY <3>2, <3>3
  <2>7. FreshUnknown(r)
    <3>1. \A p \in Addr : p >= s.next => c[p] = 0
      BY <2>1 DEF FreshUnknown
    <3> HIDE DEF c, r, slot
    <3> QED
      BY <2>4, <2>5, <3>1 DEF FreshUnknown
  <2>8. Sound(r)
    <3>1. \A p \in Addr : c[p] <= s.clock[p][p]
      BY <2>1 DEF Sound
    <3> HIDE DEF c, r, slot
    <3> QED
      BY <2>4, <2>5, <3>1 DEF Sound
  <2> HIDE DEF r, Good
  <2>9. Good(r)
    BY <2>4, <2>6, <2>7, <2>8 DEF Good
  <2> QED
    BY <2>4, <2>9, KeepsRest
<1> QED
  BY <1>1, ErrorGood, KeepsItself DEF prvTraceProduceSnapshot

\* prvTraceMergeSnapshot joins the clock of the current task's probe with a stored
\* snapshot, neither of which claims more than the probes recorded.
LEMMA MergeGood ==
  ASSUME NEW s, Good(s), NEW fails
  PROVE  Keeps(s, prvTraceMergeSnapshot(s, fails))
<1> DEFINE curr == get_tcb_probe(s, s.current)
           prev == get_tcb_probe(s, s.prev)
           p    == s.slots[curr].probe
           snap == s.slots[prev].snapshot
           r    == [s EXCEPT !.clock[p] = Join(@, snap)]
           f    == [s EXCEPT !.fault = TRUE]
<1> USE DEF Good
<1>1. ASSUME Recording(s), s.prev # NULL, curr # NoSlot, prev # NoSlot
      PROVE  Keeps(s, r)
  <2>1. curr \in Slots /\ p \in Addr /\ prev \in Slots
    BY <1>1, FoundProbe DEF Recording
  <2>2. /\ s.clock[p] \in Clock /\ snap \in Clock
        /\ \A q \in Addr : snap[q] \in Nat /\ s.clock[p][q] \in Nat
    BY <2>1, TraceFields DEF TcbProbe
  <2>3. Join(s.clock[p], snap) \in Clock
    BY <2>2 DEF Join, Clock
  <2>4. /\ r \in Trace /\ r.next = s.next /\ r.slots = s.slots
        /\ r.error = s.error /\ r.enabled = s.enabled
        /\ r.current = s.current /\ r.io_handle = s.io_handle
        /\ r.clock = [s.clock EXCEPT ![p] = Join(s.clock[p], snap)]
    BY <2>1, <2>3 DEF Trace
  <2>5. \A a, b \in Addr :
          r.clock[a][b] = IF a = p /\ s.clock[a][b] < snap[b] THEN snap[b] ELSE s.clock[a][b]
    <3>1. s.clock \in [Addr -> Clock]
      BY DEF Trace
    <3> HIDE DEF curr, prev, r, p, snap, Good
    <3>2. \A b \in Addr : Join(s.clock[p], snap)[b] =
            IF s.clock[p][b] < snap[b] THEN snap[b] ELSE s.clock[p][b]
      BY DEF Join
    <3>3. \A a \in Addr : r.clock[a] = IF a = p THEN Join(s.clock[p], snap) ELSE s.clock[a]
      BY <2>1, <2>4, <3>1
    <3> QED
      BY <3>2, <3>3
  <2>6. \A q \in Addr : r.clock[q][q] = s.clock[q][q]
    <3>1. \A q \in Addr : /\ snap[q] \in Nat /\ s.clock[q][q] \in Nat
                          /\ snap[q] <= s.clock[q][q]
      BY <2>1, <2>2, TraceFields DEF Sound
    <3> HIDE DEF r, p, snap, Good
    <3> QED
      BY <2>5, <3>1
  <2>7. SlotsInside(r) /\ SlotsApart(r)
    BY <2>4 DEF SlotsInside, SlotsApart
  <2> HIDE DEF r, p, snap
  <2>8. FreshUnknown(r)
    <3>1. \A b \in Addr : b >= s.next => snap[b] = 0 /\ \A a \in Addr : s.clock[a][b] = 0
      BY <2>1 DEF FreshUnknown, snap
    <3>2. \A b \in Addr : b >= s.next => \A a \in Addr : r.clock[a][b] = 0
      BY <2>5, <3>1
    <3> QED
      BY <2>4, <3>1, <3>2 DEF FreshUnknown
  <2>9. Sound(r)
    <3>1. \A b \in Addr : snap[b] <= s.clock[b][b] /\ \A a \in Addr : s.clock[a][b] <= s.clock[b][b]
      BY <2>1 DEF Sound, snap
    <3>2. \A a, b \in Addr : r.clock[a][b] <= s.clock[b][b]
      BY <2>5, <3>1
    <3> QED
      BY <2>4, <2>6, <3>2 DEF Sound
  <2> HIDE DEF Good
  <2>10. Good(r)
    BY <2>4, <2>7, <2>8, <2>9 DEF Good
  <2> QED
    BY <2>4, <2>10, KeepsRest
<1>2. Keeps(s, f)
  <2>1. /\ f \in Trace /\ f.slots = s.slots /\ f.next = s.next /\ f.clock = s.clock
        /\ f.error = s.error /\ f.enabled = s.enabled
        /\ f.current = s.current /\ f.io_handle = s.io_handle
    BY DEF Trace
  <2>2. Good(f)
    BY <2>1, FrameGood
  <2> QED
    BY <2>1, <2>2, KeepsRest
<1> QED
  BY <1>1, <1>2, ErrorGood, KeepsItself DEF prvTraceMergeSnapshot

\* The two hooks of a context switch; switching in is the one function that changes
\* the tracer's current task.
LEMMA SwitchGood ==
  ASSUME NEW s, Good(s), NEW tcb \in Tasks, NEW fails
  PROVE  /\ Keeps(s, traceTASK_SWITCHED_OUT(s, fails))
         /\ LET r == traceTASK_SWITCHED_IN(s, tcb, fails)
            IN  /\ Good(r) /\ s.next <= r.next /\ r.current = tcb
                /\ r.io_handle = s.io_handle /\ (r.enabled => s.enabled)
<1> DEFINE w == prvTraceSwitchedTCB(s, tcb)
           m == IF s.current = tcb THEN s ELSE prvTraceMergeSnapshot(w, fails)
           l == prvTraceLogEvent(m, fails)
<1>1. Keeps(s, traceTASK_SWITCHED_OUT(s, fails))
  BY LogGood, SnapshotGood, KeepsTwice DEF traceTASK_SWITCHED_OUT, Keeps
<1>2. /\ Good(w) /\ w.next = s.next /\ w.current = tcb
      /\ w.io_handle = s.io_handle /\ w.enabled = s.enabled
  <2>1. /\ w \in Trace /\ w.slots = s.slots /\ w.next = s.next /\ w.clock = s.clock
        /\ w.error = s.error /\ w.enabled = s.enabled
        /\ w.current = tcb /\ w.io_handle = s.io_handle
    BY DEF Good, Trace, prvTraceSwitchedTCB
  <2> QED
    BY <2>1, FrameGood DEF Good
<1>3. Keeps(w, m)
  BY <1>2, MergeGood, KeepsItself DEF prvTraceSwitchedTCB
<1>4. Keeps(w, l)
  BY <1>2, <1>3, LogGood, KeepsTwice DEF Keeps
<1>5. traceTASK_SWITCHED_IN(s, tcb, fails) = IF m.fault THEN m ELSE l
  BY DEF traceTASK_SWITCHED_IN
<1> QED
  BY <1>1, <1>2, <1>3, <1>4, <1>5 DEF Keeps

\* What vTraceEnable makes of the record: with or without the IO task, tracing is on
\* and everything else is kept.  The IO task gets no probe, because tracing is still
\* off when it is created.
LEMMA EnableGood ==
  ASSUME NEW s, Good(s), NEW fails
  PROVE  LET c == CreateIoTask(s, fails)
             r == [c EXCEPT !.enabled = TRUE]
         IN  /\ Good(r) /\ s.next <= r.next /\ r.current = s.current
             /\ r.io_handle = IF "xTaskCreate" \in fails THEN s.io_handle ELSE IoTcb
             /\ Good([s EXCEPT !.enabled = TRUE])
             /\ [s EXCEPT !.enabled = TRUE].next = s.next
             /\ [s EXCEPT !.enabled = TRUE].current = s.current
             /\ [s EXCEPT !.enabled = TRUE].io_handle = s.io_handle
             /\ ~s.enabled => \A name : ProbeFor(BeforeIoTask(s), name, fails) = NULL
<1> DEFINE b == BeforeIoTask(s)
           g == prvTraceRegisterTaskProbe(b, IoTcb, IoName, fails)
           c == CreateIoTask(s, fails)
<1>1. Keeps(s, b) /\ Good(b)
  BY ExcludeGood, NamesAssumption DEF BeforeIoTask, Keeps
<1>2. Keeps(s, prvTraceError(b)) /\ Good(prvTraceError(b))
  BY <1>1, ErrorGood, KeepsTwice DEF Keeps
<1>3. Keeps(s, g) /\ Good(g)
  <2>1. IoTcb \in Tasks /\ IoName \in Names
    BY NamesAssumption DEF Tasks
  <2>2. Keeps(b, g)
    BY <1>1, <2>1, RegisterGood
  <2> HIDE DEF b, g
  <2> QED
    BY <1>1, <2>2, KeepsTwice DEF Keeps
<1>4. ASSUME NEW q, Good(q)
      PROVE  LET e == [q EXCEPT !.enabled = TRUE]
             IN  /\ Good(e) /\ e.next = q.next /\ e.current = q.current
                 /\ e.io_handle = q.io_handle
  <2> DEFINE e == [q EXCEPT !.enabled = TRUE]
  <2>1. /\ e \in Trace /\ e.slots = q.slots /\ e.next = q.next /\ e.clock = q.clock
        /\ e.error = q.error
        /\ e.current = q.current /\ e.io_handle = q.io_handle
    BY <1>4 DEF Good, Trace
  <2> QED
    BY <1>4, <2>1, FrameGood DEF Good
<1>5. LET h == [g EXCEPT !.io_handle = IoTcb]
      IN  /\ Good(h) /\ h.next = g.next /\ h.current = g.current /\ h.io_handle = IoTcb
  <2> DEFINE h == [g EXCEPT !.io_handle = IoTcb]
  <2>1. /\ h \in Trace /\ h.slots = g.slots /\ h.next = g.next /\ h.clock = g.clock
        /\ h.error = g.error
        /\ h.current = g.current /\ h.io_handle = IoTcb
    BY <1>3 DEF Good, Trace
  <2> QED
    BY <1>3, <2>1, FrameGood DEF Good
<1>6. /\ Good(c) /\ s.next <= c.next /\ c.current = s.current
      /\ c.io_handle = IF "xTaskCreate" \in fails THEN s.io_handle ELSE IoTcb
  BY <1>2, <1>3, <1>5 DEF CreateIoTask, Keeps
<1>7. ~s.enabled => \A name : ProbeFor(b, name, fails) = NULL
  BY <1>1 DEF Keeps, ProbeFor
<1> HIDE DEF c
<1> QED
  BY <1>4, <1>6, <1>7 DEF c

--------------------------------------------------------------------------------
\* The inductive invariant

\* An application tag is an allocated probe.
TagsInside ==
  \A t \in Tasks : task[t].tag # NULL =>
    task[t].tag \in Addr /\ task[t].tag + TaskProbeSize <= trace.next

\* The kernel runs a task that exists, and the IO task is created once.
KernelTables ==
  /\ phase # "main" => pxCurrentTCB # NULL
  /\ phase = "run" => task[pxCurrentTCB].live
  /\ task[IoTcb].live => trace.io_handle # NULL

IInv ==
  /\ Good(trace)
  /\ task \in [Tasks -> Tcb] /\ pxCurrentTCB \in Tasks \cup {NULL}
  /\ phase \in {"main", "run", "switch", "fault"}
  /\ TagsInside /\ KernelTables
  /\ Attribution /\ IoTaskUntraced

\* The static variables are zero and nothing exists before main.
LEMMA InitIInv == Init => IInv
<1> SUFFICES ASSUME Init PROVE IInv
  OBVIOUS
<1>1. ZeroClock \in Clock /\ \A q \in Addr : ZeroClock[q] = 0
  BY DEF ZeroClock, Clock
<1>2. FreeTcbProbe \in TcbProbe
  BY <1>1 DEF FreeTcbProbe, TcbProbe
<1>3. trace \in Trace
  BY <1>1, <1>2, SizesAssumption DEF Init, Trace
<1>4. SlotsInside(trace) /\ SlotsApart(trace)
  BY DEF Init, SlotsInside, SlotsApart, FreeTcbProbe
<1>5. FreshUnknown(trace) /\ Sound(trace)
  BY <1>1 DEF Init, FreshUnknown, Sound, FreeTcbProbe
<1>6. task \in [Tasks -> Tcb] /\ \A t \in Tasks : task[t] = UnusedTcb
  BY DEF Init, Tcb, UnusedTcb
<1>7. TagsInside /\ KernelTables /\ IoTaskUntraced /\ Attribution
  BY <1>6 DEF Init, UnusedTcb, TagsInside, KernelTables, IoTaskUntraced, Attribution,
              Traced, Tasks
<1> QED
  BY <1>3, <1>4, <1>5, <1>6, <1>7 DEF IInv, Good, Init

\* A step that leaves the kernel's variables alone and keeps the record preserves
\* the invariant.
LEMMA QuietStep ==
  ASSUME IInv, Keeps(trace, trace'), UNCHANGED <<task, pxCurrentTCB, phase>>
  PROVE  IInv'
<1>1. trace.next \in Nat /\ trace'.next \in Nat
  BY SizesAssumption DEF IInv, Keeps, Good, Trace
<1>2. TagsInside'
  BY <1>1, SizesAssumption DEF IInv, TagsInside, Keeps, Tcb, Addr
<1> QED
  BY <1>2 DEF IInv, Keeps, KernelTables, Attribution, IoTaskUntraced, Traced

\* The filter is written while tracing is enabled; otherwise there is no probe, and the filter
\* is what the memory held.
LEMMA RegisteredFields ==
  ASSUME NEW s, NEW memory \in Tcb, NEW name, NEW fails
  PROVE  LET p == ProbeFor(s, StoredName[name], fails)
             r == RegisteredTcb(s, memory, name, fails)
         IN  /\ r.live /\ r.tag = p /\ (r.unwanted <=> name \in s.requested)
             /\ s.enabled => (r.filter <=> p # NULL)
             /\ ~s.enabled => (r.filter <=> memory.filter) /\ p = NULL
             /\ p \in Addr \cup {NULL} => r \in Tcb
<1> DEFINE p == ProbeFor(s, StoredName[name], fails)
           r == RegisteredTcb(s, memory, name, fails)
<1>1. memory.filter \in BOOLEAN
  BY DEF Tcb
<1>2. ~s.enabled => p = NULL
  BY DEF ProbeFor
<1>3. r.live /\ r.tag = p /\ (r.unwanted <=> name \in s.requested)
  BY DEF RegisteredTcb
<1>4. CASE s.enabled
  <2>1. r = [live |-> TRUE, filter |-> p # NULL, tag |-> p, unwanted |-> name \in s.requested]
    BY <1>4 DEF RegisteredTcb
  <2> HIDE DEF p, r
  <2>2. r.filter <=> p # NULL
    BY <2>1
  <2>3. p \in Addr \cup {NULL} => r \in Tcb
    BY <2>1 DEF Tcb
  <2> QED
    BY <1>3, <1>4, <2>2, <2>3 DEF p, r
<1>5. CASE ~s.enabled
  <2>1. r = [live |-> TRUE, filter |-> memory.filter, tag |-> p,
             unwanted |-> name \in s.requested]
    BY <1>5 DEF RegisteredTcb
  <2> HIDE DEF p, r
  <2>2. r.filter <=> memory.filter
    BY <2>1
  <2>3. p \in Addr \cup {NULL} => r \in Tcb
    BY <1>1, <2>1 DEF Tcb
  <2> QED
    BY <1>2, <1>3, <1>5, <2>2, <2>3 DEF p, r
<1> QED
  BY <1>4, <1>5

\* xTaskCreate writes the tag and the filter of a TCB that was not in use.
LEMMA TaskCreateStep ==
  ASSUME IInv, NEW t \in Tcbs, NEW name \in AppNames, NEW fails, TaskCreate(t, name, fails)
  PROVE  IInv' /\ (trace'.enabled => trace.enabled)
<1> DEFINE p == ProbeFor(trace, StoredName[name], fails)
<1>1. t \in Tasks /\ name \in Names
  BY NamesAssumption DEF Tasks
<1>2. Keeps(trace, trace') /\ (p # NULL => p \in Addr /\ p + TaskProbeSize <= trace'.next)
  BY <1>1, RegisterGood DEF IInv, TaskCreate
<1>3. task[t] \in Tcb
  BY <1>1 DEF IInv
<1>4. /\ RegisteredTcb(trace, task[t], name, fails) \in Tcb
      /\ RegisteredTcb(trace, task[t], name, fails).tag = p
      /\ RegisteredTcb(trace, task[t], name, fails).live
  BY <1>2, <1>3, RegisteredFields
<1>5. /\ task' = [task EXCEPT ![t] = RegisteredTcb(trace, task[t], name, fails)]
      /\ task' \in [Tasks -> Tcb]
      /\ \A u \in Tasks : u # t => task'[u] = task[u]
      /\ task'[t].tag = p /\ task'[t].live
  BY <1>1, <1>4 DEF IInv, TaskCreate
<1>6. /\ pxCurrentTCB' \in Tasks \cup {NULL} /\ phase' = phase
      /\ pxCurrentTCB # NULL => pxCurrentTCB' # NULL
      /\ phase # "main" => pxCurrentTCB' = pxCurrentTCB
  BY <1>1, TasksAssumption DEF IInv, TaskCreate, KernelAddsTask
<1>7. trace.next \in Nat /\ trace'.next \in Nat
  BY <1>2, SizesAssumption DEF IInv, Keeps, Good, Trace
<1>8. TagsInside'
  <2>1. ASSUME NEW u \in Tasks, task'[u].tag # NULL
        PROVE  task'[u].tag \in Addr /\ task'[u].tag + TaskProbeSize <= trace'.next
    <3>1. CASE u = t
      BY <1>2, <1>5, <2>1, <3>1
    <3>2. CASE u # t
      BY <1>2, <1>5, <1>7, <2>1, <3>2, SizesAssumption DEF IInv, TagsInside, Keeps, Addr
    <3> QED
      BY <3>1, <3>2
  <2> QED
    BY <2>1 DEF TagsInside
<1>9. KernelTables' /\ IoTaskUntraced'
  <2>1. IoTcb # t /\ IoTcb \in Tasks /\ IoTcb # NULL
    BY TasksAssumption DEF Tasks
  <2>2. phase = "run" => task'[pxCurrentTCB].live
    BY <1>5 DEF IInv, KernelTables
  <2> QED
    BY <1>2, <1>5, <1>6, <2>1, <2>2 DEF IInv, KernelTables, IoTaskUntraced, Traced, Keeps
<1>10. Attribution'
  <2>1. ASSUME phase = "run" PROVE pxCurrentTCB # t
    BY <2>1 DEF IInv, KernelTables, TaskCreate
  <2> QED
    BY <1>2, <1>5, <1>6, <2>1 DEF IInv, Attribution, Traced, Keeps, KernelTables
<1> QED
  BY <1>2, <1>5, <1>6, <1>8, <1>9, <1>10 DEF IInv, Keeps

\* vTaskDelete leaves the tracer alone and never removes the running task.
LEMMA TaskDeleteStep ==
  ASSUME IInv, NEW t \in Tcbs, TaskDelete(t)
  PROVE  IInv' /\ trace' = trace
<1>1. /\ t \in Tasks /\ t # IoTcb
      /\ \A freed \in DeletedTcb : freed \in Tcb /\ freed.tag = NULL
  BY TasksAssumption DEF Tasks, DeletedTcb, UnusedTcb, Tcb
<1>2. PICK freed \in DeletedTcb : task' = [task EXCEPT ![t] = freed]
  BY DEF TaskDelete
<1>3. /\ task' \in [Tasks -> Tcb] /\ task'[t].tag = NULL
      /\ \A u \in Tasks : u # t => task'[u] = task[u]
      /\ UNCHANGED <<trace, pxCurrentTCB, phase>> /\ pxCurrentTCB # t
  BY <1>1, <1>2 DEF IInv, TaskDelete
<1>4. TagsInside'
  BY <1>3 DEF IInv, TagsInside
<1>5. KernelTables' /\ IoTaskUntraced' /\ Attribution'
  BY <1>1, <1>3 DEF IInv, KernelTables, IoTaskUntraced, Attribution, Traced, Tasks
<1> QED
  BY <1>3, <1>4, <1>5 DEF IInv

\* Switching in makes the tracer's current task the kernel's.
LEMMA SwitchInStep ==
  ASSUME IInv, NEW t \in Tasks, NEW fails, SwitchIn(t, fails)
  PROVE  IInv' /\ (trace'.enabled => trace.enabled)
<1>1. t # NULL /\ t \in Tasks
  BY TasksAssumption
<1>2. /\ Good(trace') /\ trace.next <= trace'.next
      /\ Traced(t) => trace'.current = t
      /\ trace'.io_handle = trace.io_handle /\ (trace'.enabled => trace.enabled)
  BY <1>1, SwitchGood, SizesAssumption DEF IInv, SwitchIn, Good, Trace
<1>3. /\ pxCurrentTCB' = t /\ task' = task /\ task[t].live
      /\ phase' \in {"run", "fault"}
  BY DEF SwitchIn
<1>4. trace.next \in Nat /\ trace'.next \in Nat
  BY <1>2, SizesAssumption DEF IInv, Good, Trace
<1>5. TagsInside'
  BY <1>2, <1>3, <1>4, SizesAssumption DEF IInv, TagsInside, Addr
<1>6. KernelTables' /\ IoTaskUntraced' /\ Attribution'
  BY <1>1, <1>2, <1>3 DEF IInv, KernelTables, IoTaskUntraced, Attribution, Traced
<1> QED
  BY <1>1, <1>2, <1>3, <1>5, <1>6 DEF IInv

\* vTraceEnable creates the IO task at most once, untraced, and is refused by its
\* assert once the kernel has a current task.
LEMMA EnableStep ==
  ASSUME IInv, NEW fails, vTraceEnable(fails)
  PROVE  IInv' /\ (UseTraceAssert /\ phase # "main" => trace'.enabled = FALSE)
<1> DEFINE create == IncludeIoTask /\ trace.io_handle = NULL
           made   == ~TooLate /\ create /\ "xTaskCreate" \notin fails
           ready  == IF create THEN CreateIoTask(trace, fails) ELSE trace
           new    == RegisteredTcb(BeforeIoTask(trace), task[IoTcb], IoName, fails)
<1>1. ~trace.enabled /\ phase' = phase
  BY DEF vTraceEnable
<1>2. Keeps(trace, prvTraceError(trace)) /\ prvTraceError(trace).enabled = FALSE
  BY ErrorGood DEF IInv, prvTraceError, Disabled, Good, Trace
<1>3. /\ Good(trace') /\ trace.next <= trace'.next /\ trace'.current = trace.current
      /\ trace'.io_handle = IF made THEN IoTcb ELSE trace.io_handle
  <2>1. CASE TooLate
    BY <1>2, <2>1 DEF vTraceEnable, Keeps
  <2>2. CASE ~TooLate /\ create
    <3>1. trace' = [CreateIoTask(trace, fails) EXCEPT !.enabled = TRUE]
      BY <2>2 DEF vTraceEnable
    <3>2. Good(trace)
      BY DEF IInv
    <3>3. /\ Good(trace') /\ trace.next <= trace'.next /\ trace'.current = trace.current
          /\ trace'.io_handle = IF "xTaskCreate" \in fails THEN trace.io_handle ELSE IoTcb
      <4> HIDE DEF create, made, ready, new
      <4>1. LET r == [CreateIoTask(trace, fails) EXCEPT !.enabled = TRUE]
            IN  /\ Good(r) /\ trace.next <= r.next /\ r.current = trace.current
                /\ r.io_handle = IF "xTaskCreate" \in fails THEN trace.io_handle ELSE IoTcb
        BY <3>2, EnableGood, ZenonT(60)
      <4> QED
        BY <3>1, <4>1, ZenonT(60)
    <3> QED
      BY <2>2, <3>3
  <2>3. CASE ~TooLate /\ ~create
    <3>1. trace' = [trace EXCEPT !.enabled = TRUE]
      BY <2>3 DEF vTraceEnable
    <3>2. /\ Good(trace') /\ trace'.next = trace.next /\ trace'.current = trace.current
          /\ trace'.io_handle = trace.io_handle
      BY <3>1, EnableGood DEF IInv
    <3>3. trace.next <= trace.next
      BY SizesAssumption DEF IInv, Good, Trace
    <3> QED
      BY <2>3, <3>2, <3>3
  <2> QED
    BY <2>1, <2>2, <2>3
<1>4. trace.next \in Nat /\ trace'.next \in Nat
  BY <1>3, SizesAssumption DEF IInv, Good, Trace
<1>5. UseTraceAssert /\ phase # "main" => trace'.enabled = FALSE
  BY <1>2 DEF vTraceEnable, TooLate, IInv, KernelTables
<1>6. CASE ~made
  <2>1. UNCHANGED <<task, pxCurrentTCB, phase>>
    BY <1>1, <1>6 DEF vTraceEnable
  <2>2. TagsInside'
    BY <1>3, <1>4, <2>1, SizesAssumption DEF IInv, TagsInside, Addr
  <2> QED
    BY <1>3, <1>5, <1>6, <2>1, <2>2
       DEF IInv, KernelTables, Attribution, IoTaskUntraced, Traced
<1>7. CASE made
  <2>1. task' = [task EXCEPT ![IoTcb] = new] /\ KernelAddsTask(IoTcb)
    BY <1>7 DEF vTraceEnable
  <2>2. IoTcb \in Tasks /\ IoTcb # NULL /\ IoTcb \notin Tcbs
    BY TasksAssumption DEF Tasks
  <2>3. ~ task[IoTcb].live
    BY <1>7 DEF IInv, KernelTables
  <2>4. new.tag = NULL /\ new.filter = FALSE /\ new \in Tcb
    <3>1. ProbeFor(BeforeIoTask(trace), StoredName[IoName], fails) = NULL
      BY <1>1, EnableGood DEF IInv
    <3>2. task[IoTcb] \in Tcb
      BY <2>2 DEF IInv
    <3>3. ~task[IoTcb].filter
      BY <2>2 DEF IInv, IoTaskUntraced, Traced
    <3> DEFINE e == BeforeIoTask(trace).enabled
    <3>4. /\ new.tag = NULL /\ new \in Tcb
          /\ ~e => (new.filter <=> task[IoTcb].filter)
          /\ e => ~new.filter
      BY <3>1, <3>2, RegisteredFields
    <3> HIDE DEF new, e
    <3>5. ~new.filter
      BY <3>3, <3>4, Zenon
    <3>6. new.filter \in BOOLEAN
      BY <3>4 DEF Tcb
    <3> QED
      BY <3>4, <3>5, <3>6
  <2>5. /\ task' \in [Tasks -> Tcb]
        /\ \A u \in Tasks : task'[u] = IF u = IoTcb THEN new ELSE task[u]
    BY <2>1, <2>2, <2>4 DEF IInv
  <2>6. /\ pxCurrentTCB' \in Tasks \cup {NULL}
        /\ pxCurrentTCB # NULL => pxCurrentTCB' # NULL
        /\ phase # "main" => pxCurrentTCB' = pxCurrentTCB
    BY <2>1, <2>2 DEF IInv, KernelAddsTask
  <2>7. TagsInside'
    BY <1>3, <1>4, <2>4, <2>5, SizesAssumption DEF IInv, TagsInside, Addr
  <2>8. phase = "run" => pxCurrentTCB # IoTcb /\ pxCurrentTCB \in Tasks
    BY <2>3 DEF IInv, KernelTables
  <2>9. KernelTables' /\ Attribution' /\ IoTaskUntraced'
    BY <1>1, <1>3, <1>7, <2>2, <2>4, <2>5, <2>6, <2>8
       DEF IInv, KernelTables, Attribution, IoTaskUntraced, Traced
  <2> QED
    BY <1>1, <1>3, <1>5, <2>5, <2>6, <2>7, <2>9 DEF IInv
<1> QED
  BY <1>6, <1>7

\* Every step preserves the invariant, and only vTraceEnable can switch tracing on.
LEMMA NextIInv ==
  ASSUME IInv, [Next]_vars
  PROVE  /\ IInv'
         /\ UseTraceAssert /\ phase # "main" /\ ~trace.enabled => ~trace'.enabled
<1> DEFINE Goal == /\ IInv'
                   /\ UseTraceAssert /\ phase # "main" /\ ~trace.enabled => ~trace'.enabled
<1>1. ASSUME Keeps(trace, trace'), UNCHANGED <<task, pxCurrentTCB, phase>>
      PROVE  Goal
  BY <1>1, QuietStep DEF Keeps
<1>2. CASE vTraceDisable
  BY <1>1, <1>2, ErrorGood DEF vTraceDisable, IInv
<1>3. ASSUME NEW name \in AppNames, ExcludeTask(name) PROVE Goal
  <2>1. Keeps(trace, trace')
    BY <1>3, ExcludeGood, NamesAssumption DEF ExcludeTask, IInv
  <2> QED
    BY <1>1, <1>3, <2>1 DEF ExcludeTask
<1>4. ASSUME NEW t \in Tcbs, TaskDelete(t) PROVE Goal
  BY <1>4, TaskDeleteStep
<1>5. ASSUME NEW fails, vTraceEnable(fails) PROVE Goal
  BY <1>5, EnableStep
<1>6. ASSUME NEW fails, NEW t \in Tcbs, NEW name \in AppNames, TaskCreate(t, name, fails)
      PROVE  Goal
  BY <1>6, TaskCreateStep
<1>7. ASSUME NEW fails, SwitchOut(fails) PROVE Goal
  <2>1. Keeps(trace, trace')
    <3>1. CASE Traced(pxCurrentTCB)
      BY <1>7, <3>1, SwitchGood DEF SwitchOut, IInv, Traced
    <3>2. CASE ~Traced(pxCurrentTCB)
      BY <1>7, <3>2, KeepsItself DEF SwitchOut, IInv
    <3> QED
      BY <3>1, <3>2
  <2>2. phase' = "switch" /\ UNCHANGED <<task, pxCurrentTCB>> /\ pxCurrentTCB # NULL
    BY <1>7 DEF SwitchOut, IInv, KernelTables
  <2>3. trace.next \in Nat /\ trace'.next \in Nat
    BY <2>1, SizesAssumption DEF IInv, Keeps, Good, Trace
  <2>4. TagsInside'
    BY <2>1, <2>2, <2>3, SizesAssumption DEF IInv, TagsInside, Keeps, Addr
  <2> QED
    BY <2>1, <2>2, <2>4 DEF IInv, Keeps, KernelTables, Attribution, IoTaskUntraced, Traced
<1>8. ASSUME NEW fails, NEW t \in Tasks, SwitchIn(t, fails) PROVE Goal
  BY <1>8, SwitchInStep
<1>9. ASSUME NEW fails, KernelHook(fails) PROVE Goal
  <2>1. Keeps(trace, trace')
    BY <1>9, LogGood DEF KernelHook, IInv
  <2> QED
    BY <1>1, <1>9, <2>1 DEF KernelHook
<1>10. ASSUME NEW fails, UserRecord(fails) PROVE Goal
  <2> DEFINE p == task[pxCurrentTCB].tag
  <2>1. p \in Addr /\ p + TaskProbeSize <= trace.next
    BY <1>10 DEF UserRecord, IInv, KernelTables, TagsInside
  <2>2. Keeps(trace, trace')
    BY <1>10, <2>1, CountGood, KeepsItself DEF UserRecord, IInv
  <2> QED
    BY <1>1, <1>10, <2>2 DEF UserRecord
<1>11. CASE UNCHANGED vars
  BY <1>1, <1>11, KeepsItself DEF vars, IInv
<1> QED
  BY <1>2, <1>3, <1>4, <1>5, <1>6, <1>7, <1>8, <1>9, <1>10, <1>11 DEF Next

\* In every reachable state, for every value of the constants.
LEMMA Invariance == Spec => []IInv
<1>1. Init => IInv
  BY InitIInv
<1>2. IInv /\ [Next]_vars => IInv'
  BY NextIInv
<1> QED
  BY <1>1, <1>2, PTL DEF Spec

--------------------------------------------------------------------------------
\* The theorems

\* The static variables of the tracer, the TCBs and the kernel's current task keep
\* their types whatever is called in whatever order and whichever calls fail.
THEOREM TypeCorrect == Spec => []TypeOK
<1>1. IInv => TypeOK
  BY DEF IInv, Good, KernelTables, TypeOK
<1> QED
  BY <1>1, Invariance, PTL

\* alloc_storage and add_tcb_probe give every registered task storage of its own
\* inside g_probe_storage, also when vTaskDelete lets the kernel reuse a TCB.
THEOREM StorageIsDisjoint == Spec => []StorageDisjoint
<1>1. IInv => StorageDisjoint
  <2> SUFFICES ASSUME IInv PROVE StorageDisjoint
    OBVIOUS
  <2>1. trace.next \in 0 .. StorageSize
    BY DEF IInv, Good, Trace
  <2>2. ASSUME NEW i \in Slots, trace.slots[i].tcb # NULL
        PROVE  trace.slots[i].probe + TaskProbeSize <= StorageSize
    BY <2>1, <2>2, SizesAssumption DEF IInv, Good, SlotsInside, Addr
  <2> QED
    BY <2>2 DEF IInv, Good, SlotsApart, StorageDisjoint
<1> QED
  BY <1>1, Invariance, PTL

\* No probe and no snapshot of a slot ever claims to follow a record that was not
\* made, although storage holds what the probe library left there and snapshots
\* outlive the tasks and the switches they were taken for.
THEOREM CausalityIsSound == Spec => []CausalSound
<1>1. IInv => CausalSound
  BY DEF IInv, Good, Sound, CausalSound
<1> QED
  BY <1>1, Invariance, PTL

\* The hooks log in the name of the task the kernel runs, although
\* prvTraceSwitchedTCB is called for traced tasks only and also while disabled.
THEOREM AttributionHolds == Spec => []Attribution
<1>1. IInv => Attribution
  BY DEF IInv
<1> QED
  BY <1>1, Invariance, PTL

\* vTraceEnable creates the IO task while tracing is still off, so its creation hook
\* gives it no probe, whatever the kernel keeps of its name.
THEOREM IoTaskIsUntraced == Spec => []IoTaskUntraced
<1>1. IInv => IoTaskUntraced
  BY DEF IInv
<1> QED
  BY <1>1, Invariance, PTL

\* The assert of vTraceEnable refuses a restart once the scheduler runs, and no other
\* function of the tracer sets g_is_enabled.
THEOREM NoRestartWithAsserts ==
  ASSUME UseTraceAssert
  PROVE  Spec => NoRestart
<1>1. IInv /\ [Next]_vars => [phase # "main" /\ ~trace.enabled => ~trace'.enabled]_vars
  BY NextIInv DEF vars
<1> QED
  BY <1>1, Invariance, PTL DEF Spec, NoRestart

================================================================================
