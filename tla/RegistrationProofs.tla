--------------------------- MODULE RegistrationProofs ----------------------------
(***************************************************************************)
(* Theorems about the two tables of ModalityTrace: who has which slot of   *)
(* g_tcb_probes, and whose probe id has an exclusion slot.  They rest on   *)
(* the invariant of ModalityTraceProofs and on what each function of the   *)
(* tracer leaves alone.                                                    *)
(*                                                                         *)
(* The tracer does not learn of vTaskDelete.  What is said of the slots    *)
(* holds while the application deletes no task.                            *)
(***************************************************************************)
EXTENDS ModalityTraceProofs

\* The exclusion table, and the error message, which is never cleared.
Books(s, r) ==
  /\ r.excluded = s.excluded /\ r.requested = s.requested
  /\ s.error => r.error

\* The slots but for their snapshots.
SameOwners(s, r) ==
  \A i \in Slots : /\ r.slots[i].tcb = s.slots[i].tcb
                   /\ r.slots[i].probe = s.slots[i].probe
                   /\ r.slots[i].control = s.slots[i].control

\* One more record in the probe p, and no other change of a clock.
OneMore(s, r, p) ==
  \A a, b \in Addr :
    r.clock[a][b] = IF a = p /\ b = p THEN s.clock[p][p] + 1 ELSE s.clock[a][b]

\* A snapshot that changes becomes the clock of the probe in its slot, which is taken.
Snapped(s, r) ==
  \A i \in Slots : \/ r.slots[i].snapshot = s.slots[i].snapshot
                   \/ /\ s.slots[i].tcb # NULL
                      /\ r.slots[i].snapshot = r.clock[s.slots[i].probe]

\* What the probe library does not change.
SameButClocks(s, r) ==
  /\ Books(s, r) /\ r.slots = s.slots /\ r.current = s.current /\ r.prev = s.prev
  /\ r.next = s.next /\ r.fault = s.fault

\* The lookup sees the owners of the slots only.
LEMMA SameLookup ==
  ASSUME NEW s, NEW r, NEW t, \A i \in Slots : (r.slots[i].tcb = t) = (s.slots[i].tcb = t)
  PROVE  get_tcb_probe(r, t) = get_tcb_probe(s, t)
<1>1. {i \in Slots : r.slots[i].tcb = t} = {i \in Slots : s.slots[i].tcb = t}
  OBVIOUS
<1> QED
  BY <1>1 DEF get_tcb_probe

--------------------------------------------------------------------------------
\* What each function leaves alone

\* vTraceDisable, prvTraceError and the asserts change no table and no clock; a failed
\* assert switches tracing off.
LEMMA ErrorEffect ==
  ASSUME NEW s \in Trace, NEW r,
         r \in {Disabled(s), prvTraceError(s), AssertFailed(s)}
  PROVE  /\ SameButClocks(s, r) /\ r.clock = s.clock
         /\ r.enabled => s.enabled
         /\ r = prvTraceError(s) => r.error /\ ~r.enabled
         /\ UseTraceAssert => ~r.enabled
<1> DEFINE d == Disabled(s)
           e == prvTraceError(s)
           Same(q) == SameButClocks(s, q) /\ q.clock = s.clock
<1>1. Same(d) /\ d \in Trace /\ ~d.enabled
  BY DEF Trace, Disabled, SameButClocks, Books
<1>2. Same(e) /\ e \in Trace /\ ~e.enabled /\ e.error
  BY DEF Trace, Disabled, prvTraceError, SameButClocks, Books
<1>3. Same(s)
  BY DEF SameButClocks, Books
<1>4. r = d \/ r = e \/ (~UseTraceAssert /\ r = s)
  BY DEF AssertFailed
<1> HIDE DEF d, e
<1> QED
  BY <1>1, <1>2, <1>3, <1>4 DEF e

\* modality_probe_record_event makes one record, in the probe it is given.
LEMMA CountEffect ==
  ASSUME NEW s, Good(s), NEW p \in Addr,
         NEW r, r = [s EXCEPT !.clock[p][p] = @ + 1]
  PROVE  SameButClocks(s, r) /\ r.enabled = s.enabled /\ OneMore(s, r, p)
<1> DEFINE c == [s.clock[p] EXCEPT ![p] = @ + 1]
<1>1. c \in Clock
  BY TraceFields DEF Clock, Good
<1>2. /\ r.clock = [s.clock EXCEPT ![p] = c]
      /\ SameButClocks(s, r) /\ r.enabled = s.enabled
  BY <1>1 DEF Trace, SameButClocks, Books, Good
<1>3. OneMore(s, r, p)
  BY <1>2, TraceFields DEF Trace, Clock, OneMore, Good
<1> QED
  BY <1>2, <1>3

\* So does the call with the assert on its result, unless it fails.
LEMMA RecordEffect ==
  ASSUME NEW s, Good(s), NEW p \in Addr, NEW fails, NEW r, r = record_event(s, p, fails)
  PROVE  /\ SameButClocks(s, r) /\ (r.enabled => s.enabled)
         /\ r.clock = s.clock \/ OneMore(s, r, p)
<1>1. CASE "record" \in fails
  BY <1>1, ErrorEffect DEF record_event, Good
<1>2. CASE "record" \notin fails
  BY <1>2, CountEffect DEF record_event
<1> QED
  BY <1>1, <1>2

\* prvTraceLogEvent records into the probe of the slot of g_current_tcb; with the asserts
\* a task without a slot ends the tracing.
LEMMA LogEffect ==
  ASSUME NEW s, Good(s), NEW fails, NEW r, r = prvTraceLogEvent(s, fails)
  PROVE  LET i == get_tcb_probe(s, s.current)
         IN  /\ SameButClocks(s, r) /\ (r.enabled => s.enabled)
             /\ \/ r.clock = s.clock
                \/ Recording(s) /\ i # NoSlot /\ OneMore(s, r, s.slots[i].probe)
             /\ UseTraceAssert /\ r.enabled /\ s.current # NULL => i # NoSlot
<1> DEFINE i == get_tcb_probe(s, s.current)
<1>1. CASE ~Recording(s)
  BY <1>1 DEF prvTraceLogEvent, Recording, SameButClocks, Books
<1>2. CASE Recording(s) /\ i = NoSlot
  BY <1>2, ErrorEffect DEF prvTraceLogEvent, Good
<1>3. CASE Recording(s) /\ i # NoSlot
  <2>1. s.slots[i].probe \in Addr
    BY <1>3, FoundProbe DEF Recording
  <2> QED
    BY <1>3, <2>1, RecordEffect DEF prvTraceLogEvent
<1> QED
  BY <1>1, <1>2, <1>3

\* prvTraceProduceSnapshot changes one snapshot, that of the slot of g_current_tcb, into
\* the clock of its probe; with the asserts anything else it does ends the tracing.
LEMMA SnapshotEffect ==
  ASSUME NEW s, Good(s), NEW fails, NEW r, r = prvTraceProduceSnapshot(s, fails)
  PROVE  LET i == get_tcb_probe(s, s.current)
         IN  /\ Books(s, r) /\ SameOwners(s, r) /\ r.clock = s.clock /\ r.next = s.next
             /\ r.current = s.current /\ r.prev = s.prev /\ r.fault = s.fault
             /\ r.enabled => s.enabled
             /\ UseTraceAssert /\ r.enabled /\ s.current # NULL =>
                  i # NoSlot /\ r.slots[i].snapshot = s.clock[s.slots[i].probe]
             /\ Snapped(s, r)
<1> DEFINE i == get_tcb_probe(s, s.current)
           c == s.clock[s.slots[i].probe]
           slot == [s.slots[i] EXCEPT !.snapshot = c]
           q == [s EXCEPT !.slots[i].snapshot = c]
<1>1. CASE ~Recording(s)
  BY <1>1 DEF prvTraceProduceSnapshot, Recording, SameOwners, Snapped, Books
<1>2. CASE Recording(s) /\ (i = NoSlot \/ "produce_snapshot" \in fails)
  BY <1>2, ErrorEffect DEF prvTraceProduceSnapshot, Good, SameButClocks, SameOwners, Snapped
<1>3. CASE Recording(s) /\ ~(i = NoSlot \/ "produce_snapshot" \in fails)
  <2>1. i \in Slots /\ r = q
    BY <1>3, FoundProbe DEF Recording, prvTraceProduceSnapshot
  <2>2. slot.tcb = s.slots[i].tcb /\ slot.probe = s.slots[i].probe /\ slot.snapshot = c
        /\ slot.control = s.slots[i].control
    BY <2>1, TraceFields DEF Good, TcbProbe
  <2>3. /\ r.slots = [s.slots EXCEPT ![i] = slot]
        /\ Books(s, r) /\ r.clock = s.clock /\ r.next = s.next /\ r.fault = s.fault
        /\ r.current = s.current /\ r.prev = s.prev /\ r.enabled = s.enabled
    BY <2>1 DEF Good, Trace, Books
  <2>4. \A j \in Slots : r.slots[j] = IF j = i THEN slot ELSE s.slots[j]
    BY <2>1, <2>3 DEF Good, Trace
  <2>5. SameOwners(s, r)
    BY <2>2, <2>4 DEF SameOwners
  <2>6. s.slots[i].tcb # NULL
    BY <1>3, <2>1, GetTcbProbe DEF Recording, Good
  <2>7. Snapped(s, r)
    BY <2>2, <2>3, <2>4, <2>6 DEF Snapped
  <2> QED
    BY <1>3, <2>1, <2>2, <2>3, <2>4, <2>5, <2>7, Zenon
<1> QED
  BY <1>1, <1>2, <1>3

\* The clock of the probe in slot curr becomes its join with the snapshot in slot prev.
Merges(s, r, curr, prev) ==
  LET p    == s.slots[curr].probe
      snap == s.slots[prev].snapshot
  IN  /\ curr # NoSlot /\ prev # NoSlot
      /\ \A q \in Addr : r.clock[p][q] =
           IF s.clock[p][q] < snap[q] THEN snap[q] ELSE s.clock[p][q]

\* prvTraceMergeSnapshot changes one clock, that of the probe of g_current_tcb, and no
\* probe's count of its own records.
LEMMA MergeEffect ==
  ASSUME NEW s, Good(s), NEW fails, NEW r, r = prvTraceMergeSnapshot(s, fails)
  PROVE  LET curr == get_tcb_probe(s, s.current)
             prev == get_tcb_probe(s, s.prev)
         IN  /\ Books(s, r) /\ r.slots = s.slots /\ r.next = s.next
             /\ r.current = s.current /\ (r.enabled => s.enabled)
             /\ UseTraceAssert => r.fault = s.fault
             /\ \A q \in Addr : r.clock[q][q] = s.clock[q][q]
             /\ \A a, b \in Addr : s.clock[a][b] <= r.clock[a][b]
             /\ UseTraceAssert /\ r.enabled /\ s.current # NULL /\ s.prev # NULL =>
                  Merges(s, r, curr, prev)
             /\ ~Recording(s) \/ s.prev = NULL => r = s
<1> DEFINE curr == get_tcb_probe(s, s.current)
           prev == get_tcb_probe(s, s.prev)
           p    == s.slots[curr].probe
           snap == s.slots[prev].snapshot
<1>0. /\ \A a, b \in Addr : s.clock[a][b] \in Nat
      /\ \A a, b \in Addr : s.clock[a][b] <= s.clock[a][b]
  BY TraceFields DEF Good
<1>1. CASE ~Recording(s) \/ s.prev = NULL
  BY <1>0, <1>1 DEF prvTraceMergeSnapshot, Recording, Books
<1>2. CASE /\ Recording(s) /\ s.prev # NULL
           /\ (curr = NoSlot \/ prev = NoSlot \/ "merge_snapshot" \in fails)
  <2>1. CASE r = AssertFailed(s)
    BY <1>0, <1>2, <2>1, ErrorEffect DEF Good, SameButClocks
  <2>2. CASE ~UseTraceAssert /\ r = [s EXCEPT !.fault = TRUE]
    BY <1>0, <1>2, <2>2 DEF Good, Trace, Books
  <2> QED
    BY <1>2, <2>1, <2>2, Zenon DEF prvTraceMergeSnapshot
<1>3. CASE /\ Recording(s) /\ s.prev # NULL
           /\ ~(curr = NoSlot \/ prev = NoSlot \/ "merge_snapshot" \in fails)
  <2>1. /\ curr \in Slots /\ prev \in Slots /\ p \in Addr
        /\ r = [s EXCEPT !.clock[p] = Join(@, snap)]
    BY <1>3, FoundProbe DEF Recording, prvTraceMergeSnapshot
  <2>2. /\ r.clock = [s.clock EXCEPT ![p] = Join(s.clock[p], snap)]
        /\ Books(s, r) /\ r.slots = s.slots /\ r.next = s.next /\ r.fault = s.fault
        /\ r.current = s.current /\ r.enabled = s.enabled
    BY <2>1 DEF Good, Trace, Books
  <2>3. \A a, b \in Addr :
          r.clock[a][b] = IF a = p /\ s.clock[a][b] < snap[b] THEN snap[b] ELSE s.clock[a][b]
    <3> HIDE DEF p, snap
    <3>1. s.clock \in [Addr -> Clock]
      BY DEF Good, Trace
    <3> QED
      BY <2>1, <2>2, <3>1 DEF Join
  <2>4. \A b \in Addr : snap[b] <= s.clock[b][b] /\ snap[b] \in Nat /\ s.clock[b][b] \in Nat
    BY <2>1, TraceFields DEF Good, Sound
  <2>5. /\ \A q \in Addr : r.clock[q][q] = s.clock[q][q]
        /\ \A a, b \in Addr : s.clock[a][b] <= r.clock[a][b]
    BY <1>0, <2>3, <2>4
  <2> HIDE DEF curr, prev, p, snap
  <2>6. \A q \in Addr : r.clock[p][q] = IF s.clock[p][q] < snap[q] THEN snap[q] ELSE s.clock[p][q]
    BY <2>1, <2>3
  <2>7. Merges(s, r, curr, prev)
    BY <1>3, <2>6 DEF Merges, p, snap
  <2> QED
    BY <1>3, <2>2, <2>5, <2>7, Zenon DEF curr, prev
<1> QED
  BY <1>1, <1>2, <1>3

\* Switching a task in records into the probe of that task's slot only.
LEMMA SwitchInEffect ==
  ASSUME NEW s, Good(s), NEW tcb \in Tasks, NEW fails,
         NEW r, r = traceTASK_SWITCHED_IN(s, tcb, fails)
  PROVE  LET i == get_tcb_probe(s, tcb)
         IN  /\ Books(s, r) /\ r.slots = s.slots /\ r.next = s.next /\ r.current = tcb
             /\ UseTraceAssert => r.fault = s.fault
             /\ r.enabled => s.enabled
             /\ \A q \in Addr : r.clock[q][q] # s.clock[q][q] =>
                  i # NoSlot /\ q = s.slots[i].probe /\ r.clock[q][q] = s.clock[q][q] + 1
             /\ \A a, b \in Addr : s.clock[a][b] <= r.clock[a][b]
<1> DEFINE i == get_tcb_probe(s, tcb)
           w == prvTraceSwitchedTCB(s, tcb)
           m == IF s.current = tcb THEN s ELSE prvTraceMergeSnapshot(w, fails)
           l == prvTraceLogEvent(m, fails)
<1>1. /\ Good(w) /\ Books(s, w) /\ w.slots = s.slots /\ w.next = s.next /\ w.current = tcb
      /\ w.clock = s.clock /\ w.fault = s.fault /\ w.enabled = s.enabled
  <2>1. /\ w \in Trace /\ Books(s, w) /\ w.slots = s.slots /\ w.next = s.next
        /\ w.current = tcb /\ w.clock = s.clock /\ w.fault = s.fault
        /\ w.enabled = s.enabled /\ w.error = s.error
    BY DEF Good, Trace, prvTraceSwitchedTCB, Books
  <2> QED
    BY <2>1, FrameGood DEF Good
<1>2. /\ Good(m) /\ Books(w, m) /\ m.slots = w.slots /\ m.next = w.next /\ m.current = tcb
      /\ UseTraceAssert => m.fault = w.fault
      /\ m.enabled => w.enabled
      /\ \A q \in Addr : m.clock[q][q] = w.clock[q][q]
      /\ \A a, b \in Addr : w.clock[a][b] <= m.clock[a][b]
  <2>1. CASE s.current = tcb
    <3>1. \A a, b \in Addr : s.clock[a][b] <= s.clock[a][b]
      BY TraceFields DEF Good
    <3> QED
      BY <1>1, <2>1, <3>1 DEF prvTraceSwitchedTCB, Books
  <2>2. CASE s.current # tcb
    BY <1>1, <2>2, MergeEffect, MergeGood DEF Keeps
  <2> QED
    BY <2>1, <2>2
<1>3. get_tcb_probe(m, tcb) = i
  <2>1. m.slots = s.slots
    BY <1>1, <1>2
  <2> QED
    BY <2>1 DEF get_tcb_probe
<1>4. r = m \/ r = l
  BY DEF traceTASK_SWITCHED_IN
<1> HIDE DEF w, m
<1>5. /\ SameButClocks(m, l) /\ (l.enabled => m.enabled)
      /\ l.clock = m.clock \/ (i # NoSlot /\ OneMore(m, l, s.slots[i].probe))
  BY <1>1, <1>2, <1>3, LogEffect
<1>6. /\ Books(s, m) /\ Books(s, l)
  BY <1>1, <1>2, <1>5 DEF Books, SameButClocks
<1>7. \A q \in Addr : l.clock[q][q] # s.clock[q][q] =>
        i # NoSlot /\ q = s.slots[i].probe /\ l.clock[q][q] = s.clock[q][q] + 1
  BY <1>1, <1>2, <1>5 DEF OneMore
<1>8. \A a, b \in Addr : s.clock[a][b] <= m.clock[a][b] /\ s.clock[a][b] <= l.clock[a][b]
  <2>1. \A a, b \in Addr : s.clock[a][b] \in Nat /\ m.clock[a][b] \in Nat
    BY <1>2, TraceFields DEF Good
  <2>2. \A a, b \in Addr : l.clock[a][b] \in {m.clock[a][b], m.clock[a][b] + 1}
    BY <1>5 DEF OneMore
  <2> QED
    BY <1>1, <1>2, <2>1, <2>2
<1> QED
  BY <1>1, <1>2, <1>4, <1>5, <1>6, <1>7, <1>8 DEF SameButClocks

\* Switching it out records into the probe of the current task's slot only.
LEMMA SwitchOutEffect ==
  ASSUME NEW s, Good(s), NEW fails, NEW r, r = traceTASK_SWITCHED_OUT(s, fails)
  PROVE  LET i == get_tcb_probe(s, s.current)
         IN  /\ Books(s, r) /\ SameOwners(s, r) /\ r.next = s.next /\ r.current = s.current
             /\ r.fault = s.fault /\ (r.enabled => s.enabled)
             /\ r.clock = s.clock \/ (s.current # NULL /\ i # NoSlot /\ OneMore(s, r, s.slots[i].probe))
             /\ UseTraceAssert /\ r.enabled /\ s.current # NULL =>
                  i # NoSlot /\ r.slots[i].snapshot = r.clock[s.slots[i].probe]
             /\ Snapped(s, r)
<1> DEFINE l == prvTraceLogEvent(s, fails)
<1>1. Good(l)
  BY LogGood DEF Keeps
<1>2. SameButClocks(s, l)
  BY LogEffect
<1>3. r = prvTraceProduceSnapshot(l, fails)
  BY DEF traceTASK_SWITCHED_OUT
<1> HIDE DEF l
<1>4. /\ Books(l, r) /\ SameOwners(l, r) /\ r.clock = l.clock /\ r.next = l.next
      /\ r.current = l.current /\ r.fault = l.fault /\ (r.enabled => l.enabled)
      /\ UseTraceAssert /\ r.enabled /\ l.current # NULL =>
           LET i == get_tcb_probe(l, l.current)
           IN  i # NoSlot /\ r.slots[i].snapshot = l.clock[l.slots[i].probe]
      /\ Snapped(l, r)
  BY <1>1, <1>3, SnapshotEffect
<1>5. Books(s, r) /\ SameOwners(s, r)
  BY <1>2, <1>4 DEF Books, SameOwners, SameButClocks
<1>6. /\ l.enabled => s.enabled
      /\ l.clock = s.clock \/ LET i == get_tcb_probe(s, s.current)
                              IN  s.current # NULL /\ i # NoSlot /\ OneMore(s, l, s.slots[i].probe)
  BY LogEffect DEF l, Recording
<1>7. get_tcb_probe(l, l.current) = get_tcb_probe(s, s.current)
  BY <1>2 DEF SameButClocks, get_tcb_probe
<1>8. r.clock = s.clock \/ LET i == get_tcb_probe(s, s.current)
                          IN  s.current # NULL /\ i # NoSlot /\ OneMore(s, r, s.slots[i].probe)
  <2>1. r.clock = l.clock
    BY <1>4
  <2>2. ASSUME NEW p, OneMore(s, l, p) PROVE OneMore(s, r, p)
    BY <2>1, <2>2 DEF OneMore
  <2> QED
    BY <1>6, <2>1, <2>2
<1>9. l.slots = s.slots /\ l.current = s.current /\ l.next = s.next /\ l.fault = s.fault
  BY <1>2 DEF SameButClocks
<1>10. UseTraceAssert /\ r.enabled /\ s.current # NULL =>
         LET i == get_tcb_probe(s, s.current)
         IN  i # NoSlot /\ r.slots[i].snapshot = r.clock[s.slots[i].probe]
  BY <1>4, <1>7, <1>9
<1>11. Snapped(s, r)
  BY <1>4, <1>9 DEF Snapped
<1> QED
  BY <1>4, <1>5, <1>6, <1>8, <1>9, <1>10, <1>11

--------------------------------------------------------------------------------
\* Registering a task

\* The task takes the first free slot, with the probe, and with its buffers unless that is
\* reported.
Takes(s, r, tcb, p) ==
  \E i \in Slots :
    /\ s.slots[i].tcb = NULL
    /\ \A j \in Slots : s.slots[j].tcb = NULL => i <= j
    /\ r.slots[i].tcb = tcb /\ r.slots[i].probe = p
    /\ r.slots[i].control = ControlPlaneBuffer \/ r.error
    /\ \A j \in Slots : j # i => r.slots[j] = s.slots[j]

\* add_tcb_probe fills one free slot, or reports that it did not.
LEMMA AddEffect ==
  ASSUME NEW s, Good(s), NEW tcb \in Tasks, NEW p \in Addr, NEW fails,
         NEW r, r = add_tcb_probe(s, tcb, p, fails)
  PROVE  /\ Books(s, r) /\ r.clock = s.clock /\ r.next = s.next
         /\ r.current = s.current /\ r.prev = s.prev /\ r.fault = s.fault
         /\ (r.slots = s.slots /\ r.error /\ ~r.enabled) \/ Takes(s, r, tcb, p)
         /\ \A j \in Slots : r.slots[j].snapshot \in {s.slots[j].snapshot, s.clock[p]}
<1> DEFINE i == get_tcb_probe(s, NULL)
           snap == IF "produce_snapshot" \in fails THEN s.slots[i].snapshot ELSE s.clock[p]
           slot == [tcb |-> tcb, probe |-> p, snapshot |-> snap,
                    control |-> ControlPlaneBuffer /\ "control_buffer" \notin fails]
           add  == [s EXCEPT !.slots[i] = slot]
<1>1. CASE r = prvTraceError(s)
  BY <1>1, ErrorEffect DEF Good, SameButClocks
<1>2. CASE i # NoSlot /\ (r = add \/ r = prvTraceError(add))
           /\ (r = prvTraceError(add) \/ ~(ControlPlaneBuffer /\ "control_buffer" \in fails))
  <2>1. /\ i \in Slots /\ s.slots[i].tcb = NULL
        /\ \A j \in Slots : s.slots[j].tcb = NULL => i <= j
    <3> DEFINE free == {j \in Slots : s.slots[j].tcb = NULL}
    <3>1. free # {} /\ i = First(free)
      BY <1>2 DEF get_tcb_probe
    <3>2. free \in SUBSET Nat
      BY SizesAssumption DEF Slots
    <3>3. i \in free /\ \A j \in free : i <= j
      BY <3>1, <3>2, FirstIsLeast
    <3> QED
      BY <3>3
  <2>2. snap \in Clock
    BY <2>1, TraceFields DEF Good, TcbProbe
  <2>3. slot \in TcbProbe
    BY <2>2, FlagsAssumption DEF TcbProbe
  <2>4. /\ add \in Trace /\ add.slots = [s.slots EXCEPT ![i] = slot]
        /\ Books(s, add) /\ add.clock = s.clock /\ add.next = s.next
        /\ add.current = s.current /\ add.prev = s.prev /\ add.fault = s.fault
    BY <2>1, <2>3 DEF Good, Trace, Books
  <2>5. \A j \in Slots : add.slots[j] = IF j = i THEN slot ELSE s.slots[j]
    BY <2>1, <2>4 DEF Good, Trace
  <2>6. /\ slot.tcb = tcb /\ slot.probe = p
        /\ slot.snapshot \in {s.slots[i].snapshot, s.clock[p]}
        /\ slot.control = (ControlPlaneBuffer /\ "control_buffer" \notin fails)
    OBVIOUS
  <2> HIDE DEF add, slot
  <2>7. /\ SameButClocks(add, prvTraceError(add)) /\ prvTraceError(add).clock = add.clock
        /\ prvTraceError(add).error
    BY <2>4, ErrorEffect
  <2>8. /\ r.slots = add.slots /\ Books(s, r) /\ r.clock = s.clock /\ r.next = s.next
        /\ r.current = s.current /\ r.prev = s.prev /\ r.fault = s.fault
    BY <1>2, <2>4, <2>7 DEF SameButClocks, Books
  <2>9. slot.control = ControlPlaneBuffer \/ r.error
    <3>1. CASE r = prvTraceError(add)
      BY <2>7, <3>1
    <3>2. CASE ~(ControlPlaneBuffer /\ "control_buffer" \in fails)
      BY <2>6, <3>2, FlagsAssumption
    <3> QED
      BY <1>2, <3>1, <3>2
  <2>10. \A j \in Slots : r.slots[j].snapshot \in {s.slots[j].snapshot, s.clock[p]}
    BY <2>5, <2>6, <2>8
  <2> QED
    BY <2>1, <2>5, <2>6, <2>8, <2>9, <2>10 DEF Takes
<1> QED
  BY <1>1, <1>2 DEF add_tcb_probe

\* alloc_probe resets at most the clock of the storage it hands out.
LEMMA AllocEffect ==
  ASSUME NEW s, Good(s), NEW id, NEW fails, NEW a, a = alloc_probe(s, id, fails)
  PROVE  LET p == NewProbe(s, id, fails)
         IN  /\ Books(s, a) /\ a.slots = s.slots
             /\ a.current = s.current /\ a.prev = s.prev /\ a.fault = s.fault
             /\ \A b, c \in Addr : a.clock[b][c] = s.clock[b][c] \/ (b = s.next /\ a.clock[b][c] = 0)
             /\ p # NULL => \A c \in Addr : a.clock[p][c] = 0
             /\ id = 0 => p = NULL
<1> DEFINE n == s.next + TaskProbeSize
           b == [s EXCEPT !.next = n]
           c == [b EXCEPT !.clock[s.next] = ZeroClock]
           Same(r) == /\ Books(s, r) /\ r.slots = s.slots
                      /\ r.current = s.current /\ r.prev = s.prev /\ r.fault = s.fault
<1>1. CASE ~StorageLeft(s, fails)
  BY <1>1, ErrorEffect DEF Good, alloc_probe, alloc_storage, NewProbe, SameButClocks
<1>2. CASE StorageLeft(s, fails)
  <2>1. s.next \in Addr /\ n \in 0 .. StorageSize
    BY <1>2, SizesAssumption, TraceFields DEF StorageLeft, Addr, Good
  <2>2. alloc_storage(s, fails) = b
    BY <1>2 DEF alloc_storage
  <2> HIDE DEF n
  <2>3. b \in Trace /\ Same(b) /\ b.clock = s.clock
    BY <2>1 DEF Good, Trace, Books
  <2>4. Same(c) /\ c.clock = [s.clock EXCEPT ![s.next] = ZeroClock]
    BY <2>1, <2>3 DEF Good, Trace, Books
  <2>5. \A x, y \in Addr : c.clock[x][y] = IF x = s.next THEN 0 ELSE s.clock[x][y]
    BY <2>1, <2>4 DEF Good, Trace, ZeroClock
  <2>6. Same(AssertFailed(b)) /\ AssertFailed(b).clock = s.clock
    <3>1. /\ b \in Trace /\ Books(s, b) /\ b.slots = s.slots /\ b.clock = s.clock
          /\ b.current = s.current /\ b.prev = s.prev /\ b.fault = s.fault
      BY <2>3
    <3> HIDE DEF b, c
    <3>2. SameButClocks(b, AssertFailed(b)) /\ AssertFailed(b).clock = b.clock
      BY <3>1, ErrorEffect
    <3>3. Books(s, AssertFailed(b))
      BY <3>1, <3>2 DEF SameButClocks, Books
    <3> QED
      BY <3>1, <3>2, <3>3 DEF SameButClocks
  <2>7. NewProbe(s, id, fails) # NULL => NewProbe(s, id, fails) = s.next /\ a = c
    <3> SUFFICES ASSUME NewProbe(s, id, fails) # NULL
                 PROVE  NewProbe(s, id, fails) = s.next /\ a = c
      OBVIOUS
    <3>1. id # 0 /\ "initialize" \notin fails /\ NewProbe(s, id, fails) = s.next
      BY DEF NewProbe
    <3> HIDE DEF b
    <3> QED
      BY <1>2, <2>2, <3>1 DEF alloc_probe
  <2>8. a = b \/ a = AssertFailed(b) \/ a = c
    BY <1>2, <2>2 DEF alloc_probe
  <2>9. id = 0 => NewProbe(s, id, fails) = NULL
    BY DEF NewProbe
  <2> HIDE DEF b, c, Same
  <2>10. Same(a)
    BY <2>3, <2>4, <2>6, <2>8
  <2>11. a.clock = s.clock \/ a.clock = c.clock
    BY <2>3, <2>6, <2>8
  <2>12. \A x, y \in Addr : a.clock[x][y] = s.clock[x][y] \/ (x = s.next /\ a.clock[x][y] = 0)
    BY <2>5, <2>11
  <2>13. NewProbe(s, id, fails) # NULL => \A y \in Addr : a.clock[NewProbe(s, id, fails)][y] = 0
    BY <2>1, <2>5, <2>7
  <2> QED
    BY <2>9, <2>10, <2>12, <2>13 DEF Same
<1> QED
  BY <1>1, <1>2

\* The hook of xTaskCreate touches no clock of a probe that was handed out before, makes
\* the first record of a new one, and gives a task with a probe a slot or reports that
\* it has none; a task without a probe gets no slot.  The snapshot of a slot that is taken
\* is that of an empty probe, or it stays as it was.
LEMMA RegisterEffect ==
  ASSUME NEW s, Good(s), NEW tcb \in Tasks, NEW name \in Names, NEW fails,
         NEW r, r = prvTraceRegisterTaskProbe(s, tcb, name, fails)
  PROVE  LET p == ProbeFor(s, StoredName[name], fails)
         IN  /\ Books(s, r) /\ r.current = s.current /\ r.prev = s.prev /\ r.fault = s.fault
             /\ \A b, c \in Addr : b # s.next => r.clock[b][c] = s.clock[b][c]
             /\ \A b \in Addr : b = s.next => r.clock[b][b] \in {0, 1}
             /\ p = NULL => r.slots = s.slots
             /\ p # NULL => /\ p = s.next /\ p \in Addr
                            /\ (r.slots = s.slots /\ r.error /\ ~r.enabled) \/ Takes(s, r, tcb, p)
             /\ \A j \in Slots, c \in Addr :
                  r.slots[j].snapshot[c] \in {s.slots[j].snapshot[c], 0}
<1> DEFINE stored == StoredName[name]
           id == probe_id_hash(stored)
           h  == HashChecked(s, stored)
           a  == alloc_probe(h, id, fails)
           p  == ProbeFor(s, stored, fails)
           d  == add_tcb_probe(a, tcb, p, fails)
           e  == record_event(d, p, fails)
<1>1. SameButClocks(s, h) /\ h.clock = s.clock /\ Good(h)
  <2>1. stored \in Names
    BY NamesAssumption
  <2>2. Good(h)
    BY <2>1, HashGood DEF Keeps
  <2>3. SameButClocks(s, s)
    BY DEF SameButClocks, Books
  <2> QED
    BY <2>2, <2>3, ErrorEffect DEF HashChecked, Good
<1>2. p # NULL => p = NewProbe(h, id, fails) /\ ~is_task_excluded(s, id) /\ s.enabled
  BY <1>1 DEF ProbeFor, NewProbe, StorageLeft, SameButClocks
<1> HIDE DEF h
<1>3. Good(a) /\ (p # NULL => p = s.next /\ p \in Addr /\ p + TaskProbeSize <= a.next)
  BY <1>1, <1>2, AllocGood DEF Keeps, SameButClocks
<1>4. /\ Books(s, a) /\ a.slots = s.slots
      /\ a.current = s.current /\ a.prev = s.prev /\ a.fault = s.fault
      /\ \A b, c \in Addr : a.clock[b][c] = s.clock[b][c] \/ (b = s.next /\ a.clock[b][c] = 0)
      /\ p # NULL => \A c \in Addr : a.clock[p][c] = 0
  BY <1>1, <1>2, AllocEffect DEF SameButClocks, Books
<1>5. \A b \in Addr : b = s.next => s.clock[b][b] = 0
  BY TraceFields DEF Good, FreshUnknown
<1> HIDE DEF a, p
<1>6. ASSUME p # NULL
      PROVE  /\ Books(s, e) /\ e.current = s.current /\ e.prev = s.prev /\ e.fault = s.fault
             /\ \A b, c \in Addr : b # s.next => e.clock[b][c] = s.clock[b][c]
             /\ \A b \in Addr : b = s.next => e.clock[b][b] \in {0, 1}
             /\ (e.slots = s.slots /\ e.error /\ ~e.enabled) \/ Takes(s, e, tcb, p)
             /\ \A j \in Slots, c \in Addr :
                  e.slots[j].snapshot[c] \in {s.slots[j].snapshot[c], 0}
  <2>1. \A i \in Slots : a.slots[i].tcb # NULL => a.slots[i].probe + TaskProbeSize <= p
    BY <1>3, <1>4, <1>6 DEF Good, SlotsInside
  <2>2. Good(d) /\ p \in Addr
    BY <1>3, <1>6, <2>1, AddGood DEF Keeps
  <2>3. /\ Books(a, d) /\ d.clock = a.clock
        /\ d.current = a.current /\ d.prev = a.prev /\ d.fault = a.fault
        /\ (d.slots = a.slots /\ d.error /\ ~d.enabled) \/ Takes(a, d, tcb, p)
        /\ \A j \in Slots : d.slots[j].snapshot \in {a.slots[j].snapshot, a.clock[p]}
    BY <1>3, <1>6, AddEffect
  <2> HIDE DEF d
  <2>4. /\ SameButClocks(d, e) /\ (e.enabled => d.enabled)
        /\ e.clock = d.clock \/ OneMore(d, e, p)
    BY <2>2, RecordEffect
  <2>5. Books(s, e) /\ e.current = s.current /\ e.prev = s.prev /\ e.fault = s.fault
    BY <1>4, <2>3, <2>4 DEF Books, SameButClocks
  <2>6. \A b, c \in Addr : b # s.next => e.clock[b][c] = s.clock[b][c]
    BY <1>3, <1>4, <1>6, <2>3, <2>4 DEF OneMore
  <2>7. \A b \in Addr : b = s.next => e.clock[b][b] \in {0, 1}
    BY <1>3, <1>4, <1>6, <2>3, <2>4 DEF OneMore
  <2>8. /\ e.slots = d.slots /\ a.slots = s.slots
        /\ (d.error => e.error) /\ (e.enabled => d.enabled)
    BY <1>4, <2>4 DEF SameButClocks, Books
  <2>9. Takes(a, d, tcb, p) => Takes(s, e, tcb, p)
    BY <2>8 DEF Takes
  <2>10. \A j \in Slots, c \in Addr : e.slots[j].snapshot[c] \in {s.slots[j].snapshot[c], 0}
    BY <1>4, <1>6, <2>3, <2>8
  <2> HIDE DEF e
  <2> QED
    BY <2>3, <2>5, <2>6, <2>7, <2>8, <2>9, <2>10
<1>7. r = s \/ r = h \/ r = a \/ (p # NULL /\ r = e)
  BY DEF prvTraceRegisterTaskProbe, a, h, p
<1>8. Books(s, s) /\ Books(s, h)
  BY <1>1 DEF Books, SameButClocks
<1>9. ASSUME r \in {s, h, a}
      PROVE  /\ Books(s, r) /\ r.current = s.current /\ r.prev = s.prev /\ r.fault = s.fault
             /\ \A b, c \in Addr : b # s.next => r.clock[b][c] = s.clock[b][c]
             /\ \A b \in Addr : b = s.next => r.clock[b][b] \in {0, 1}
             /\ r.slots = s.slots
  BY <1>1, <1>4, <1>5, <1>8, <1>9 DEF SameButClocks
<1>10. p # NULL => r = e
  BY <1>2 DEF prvTraceRegisterTaskProbe, a, h, p
<1> HIDE DEF e
<1> QED
  BY <1>3, <1>6, <1>7, <1>9, <1>10 DEF p

--------------------------------------------------------------------------------
\* The exclusion table

\* The id of every name that was given an exclusion slot is found in the table, unless it
\* is 0, which no probe can have.
Remembered(s) ==
  \A name \in s.requested : probe_id_hash(name) = 0 \/ is_task_excluded(s, probe_id_hash(name))

\* vTraceExcludeTask touches nothing but the exclusion table, and overwrites no id in it.
LEMMA ExcludeEffect ==
  ASSUME NEW s, Good(s), NEW name \in Names, NEW r, r = vTraceExcludeTask(s, name)
  PROVE  /\ r.slots = s.slots /\ r.clock = s.clock /\ r.next = s.next
         /\ r.current = s.current /\ r.prev = s.prev /\ r.fault = s.fault
         /\ (s.error => r.error) /\ (r.enabled => s.enabled)
         /\ Remembered(s) => Remembered(r)
<1> DEFINE free == {i \in ExclusionSlots : s.excluded[i] = 0}
           h == HashChecked(s, name)
           x == [h EXCEPT !.excluded[First(free)] = probe_id_hash(name),
                          !.requested = @ \cup {name}]
<1>1. SameButClocks(s, h) /\ h.clock = s.clock /\ h \in Trace /\ (h.enabled => s.enabled)
  <2>1. Good(h)
    BY HashGood DEF Keeps
  <2>2. SameButClocks(s, s)
    BY DEF SameButClocks, Books
  <2> QED
    BY <2>1, <2>2, ErrorEffect DEF HashChecked, Good
<1> HIDE DEF h
<1>2. CASE free = {}
  <2>1. r = prvTraceError(h)
    BY <1>2 DEF vTraceExcludeTask, h
  <2>2. SameButClocks(h, r) /\ r.clock = h.clock /\ (r.enabled => h.enabled)
    BY <1>1, <2>1, ErrorEffect
  <2> QED
    BY <1>1, <2>2 DEF SameButClocks, Books, Remembered, is_task_excluded
<1>3. CASE free # {}
  <2>1. First(free) \in free
    BY <1>3, FirstIsLeast, SizesAssumption DEF ExclusionSlots
  <2>2. r = x
    BY <1>3 DEF vTraceExcludeTask, h
  <2>3. probe_id_hash(name) \in Nat /\ h.excluded = s.excluded /\ h.requested = s.requested
    BY <1>1, HashGood DEF SameButClocks, Books
  <2> HIDE DEF free
  <2>4. First(free) \in ExclusionSlots /\ s.excluded[First(free)] = 0
    BY <2>1 DEF free
  <2>5. /\ r.excluded = [s.excluded EXCEPT ![First(free)] = probe_id_hash(name)]
        /\ r.requested = s.requested \cup {name}
        /\ r.slots = h.slots /\ r.clock = h.clock /\ r.next = h.next
        /\ r.current = h.current /\ r.prev = h.prev /\ r.fault = h.fault
        /\ r.error = h.error /\ r.enabled = h.enabled
    BY <1>1, <2>2, <2>3 DEF Trace
  <2>6. \A i \in ExclusionSlots :
          r.excluded[i] = IF i = First(free) THEN probe_id_hash(name) ELSE s.excluded[i]
    BY <2>4, <2>5 DEF Good, Trace
  <2>7. ASSUME Remembered(s), NEW n \in r.requested, probe_id_hash(n) # 0
        PROVE  is_task_excluded(r, probe_id_hash(n))
    <3>1. CASE n = name
      BY <2>4, <2>6, <3>1 DEF is_task_excluded
    <3>2. CASE n # name
      <4>1. PICK i \in ExclusionSlots : s.excluded[i] = probe_id_hash(n)
        BY <2>5, <2>7, <3>2 DEF Remembered, is_task_excluded
      <4>2. i # First(free)
        BY <2>4, <2>7, <4>1
      <4> QED
        BY <2>6, <4>1, <4>2 DEF is_task_excluded
    <3> QED
      BY <3>1, <3>2
  <2>8. Remembered(s) => Remembered(r)
    BY <2>7 DEF Remembered
  <2> QED
    BY <1>1, <2>5, <2>8 DEF SameButClocks, Books
<1> QED
  BY <1>2, <1>3

\* vTraceEnable registers nobody: tracing is off when the IO task's creation runs its hook.
LEMMA EnableEffect ==
  ASSUME NEW s, Good(s), ~s.enabled, NEW fails,
         NEW r, r \in {prvTraceError(s), [s EXCEPT !.enabled = TRUE],
                       [CreateIoTask(s, fails) EXCEPT !.enabled = TRUE]}
  PROVE  /\ r.slots = s.slots /\ r.clock = s.clock /\ r.next = s.next
         /\ r.current = s.current /\ r.prev = s.prev /\ r.fault = s.fault
         /\ s.error => r.error
         /\ Remembered(s) => Remembered(r)
<1> DEFINE b == BeforeIoTask(s)
           c == CreateIoTask(s, fails)
           e == [c EXCEPT !.enabled = TRUE]
           Same(q, w) == /\ w.slots = q.slots /\ w.clock = q.clock /\ w.next = q.next
                         /\ w.current = q.current /\ w.prev = q.prev /\ w.fault = q.fault
                         /\ q.error => w.error
                         /\ Remembered(q) => Remembered(w)
<1>1. ASSUME NEW q \in Trace, NEW w, Books(q, w) PROVE Remembered(q) => Remembered(w)
  BY <1>1 DEF Books, Remembered, is_task_excluded
<1>2. Same(s, b) /\ b \in Trace /\ ~b.enabled
  <2>1. Good(b)
    BY ExcludeGood, NamesAssumption DEF BeforeIoTask, Keeps
  <2> QED
    BY <2>1, ExcludeEffect, NamesAssumption DEF BeforeIoTask, Good
<1>3. ASSUME NEW q \in Trace PROVE Same(q, prvTraceError(q)) /\ prvTraceError(q) \in Trace
  <2>1. SameButClocks(q, prvTraceError(q)) /\ prvTraceError(q).clock = q.clock
    BY ErrorEffect
  <2>2. prvTraceError(q) \in Trace
    BY DEF Trace, prvTraceError, Disabled
  <2>3. Remembered(q) => Remembered(prvTraceError(q))
    BY <1>1, <2>1 DEF SameButClocks
  <2> QED
    BY <2>1, <2>2, <2>3 DEF SameButClocks, Books
<1>4. ASSUME NEW q \in Trace PROVE Same(q, [q EXCEPT !.enabled = TRUE])
  <2>1. Books(q, [q EXCEPT !.enabled = TRUE])
    BY DEF Trace, Books
  <2> QED
    BY <1>1, <2>1 DEF Trace
<1>5. ASSUME NEW q \in Trace
      PROVE  Same(q, [q EXCEPT !.io_handle = IoTcb]) /\ [q EXCEPT !.io_handle = IoTcb] \in Trace
  <2>1. Books(q, [q EXCEPT !.io_handle = IoTcb])
    BY DEF Trace, Books
  <2> QED
    BY <1>1, <2>1 DEF Trace
<1> HIDE DEF b
<1>6. c = prvTraceError(b) \/ c = [b EXCEPT !.io_handle = IoTcb]
  BY <1>2 DEF CreateIoTask, prvTraceRegisterTaskProbe, b
<1> HIDE DEF c
<1>7. Same(b, c) /\ c \in Trace
  <2> HIDE DEF Same
  <2>1. b \in Trace
    BY <1>2
  <2>2. CASE c = prvTraceError(b)
    BY <1>3, <2>1, <2>2
  <2>3. CASE c = [b EXCEPT !.io_handle = IoTcb]
    BY <1>5, <2>1, <2>3
  <2> QED
    BY <1>6, <2>2, <2>3
<1>8. Same(c, e)
  BY <1>4, <1>7
<1> HIDE DEF e
<1>9. Same(s, e)
  BY <1>2, <1>7, <1>8
<1>10. Same(s, r)
  <2>1. s \in Trace
    BY DEF Good
  <2>2. r = prvTraceError(s) \/ r = [s EXCEPT !.enabled = TRUE] \/ r = e
    BY DEF c, e
  <2> HIDE DEF Same
  <2> QED
    BY <1>3, <1>4, <1>9, <2>1, <2>2
<1> QED
  BY <1>10

\* A function that leaves the exclusion table alone forgets no name.
LEMMA BooksRemember ==
  ASSUME NEW s, NEW r, Books(s, r), Remembered(s)
  PROVE  Remembered(r)
BY DEF Books, Remembered, is_task_excluded

\* The user-level record in the probe of the application tag.
LEMMA UserRecordEffect ==
  ASSUME IInv, NEW fails, UserRecord(fails)
  PROVE  LET p == task[pxCurrentTCB].tag
         IN  /\ p \in Addr /\ pxCurrentTCB \in Tasks
             /\ SameButClocks(trace, trace') /\ trace'.enabled = trace.enabled
             /\ trace'.clock = trace.clock \/ OneMore(trace, trace', p)
<1> DEFINE p == task[pxCurrentTCB].tag
<1>1. p \in Addr /\ pxCurrentTCB \in Tasks
  BY DEF IInv, UserRecord, TagsInside, KernelTables
<1>2. CASE "record" \in fails
  BY <1>1, <1>2 DEF UserRecord, SameButClocks, Books
<1>3. CASE "record" \notin fails
  BY <1>1, <1>3, CountEffect DEF UserRecord, IInv
<1> QED
  BY <1>1, <1>2, <1>3

--------------------------------------------------------------------------------
\* What the memory of a TCB held

\* vTraceEnable writes no TCB but that of the IO task, which is new and gets no tag.
LEMMA EnableTcbs ==
  ASSUME IInv, NEW fails, vTraceEnable(fails)
  PROVE  /\ \A t \in Tasks : t # IoTcb => task'[t] = task[t]
         /\ task' = task \/ (task'[IoTcb].tag = NULL /\ ~task[IoTcb].live /\ task'[IoTcb].live)
<1> DEFINE new == RegisteredTcb(BeforeIoTask(trace), task[IoTcb], IoName, fails)
<1>1. CASE task' = task
  BY <1>1
<1>2. CASE task' = [task EXCEPT ![IoTcb] = new] /\ trace.io_handle = NULL
  <2>1. IoTcb \in Tasks /\ task[IoTcb] \in Tcb /\ ~task[IoTcb].live
    BY <1>2 DEF Tasks, IInv, KernelTables
  <2>2. ProbeFor(BeforeIoTask(trace), StoredName[IoName], fails) = NULL
    <3>1. Good(trace) /\ ~trace.enabled
      BY DEF IInv, vTraceEnable
    <3> QED
      BY <3>1, EnableGood
  <2>3. task[IoTcb] \in Tcb
    BY <2>1
  <2>4. new.tag = ProbeFor(BeforeIoTask(trace), StoredName[IoName], fails) /\ new.live
    BY <2>3, RegisteredFields
  <2> HIDE DEF new
  <2> QED
    BY <1>2, <2>1, <2>2, <2>4 DEF IInv
<1> QED
  BY <1>1, <1>2 DEF vTraceEnable

\* Where every filter is one the hook wrote: before the scheduler starts, while tracing is on, and
\* always if no task is deleted.  There a task with the filter has a probe; and until a task can
\* be deleted, no filter is left in the memory of a TCB that is not in use.
Written ==
  /\ phase = "main" \/ trace.enabled \/ ~DeleteTasks =>
       \A t \in Tasks : task[t].live /\ task[t].filter => task[t].tag # NULL
  /\ phase = "main" \/ ~DeleteTasks => \A t \in Tasks : ~task[t].live => ~task[t].filter

\* The assert of vTraceEnable is what keeps a filter that is left over from being used: tracing
\* is not switched on again once the kernel could have reused a TCB.
LEMMA NextWritten ==
  ASSUME UseTraceAssert \/ ~DeleteTasks, IInv, IInv', Written, [Next]_vars
  PROVE  Written'
<1>1. phase' = "main" => phase = "main"
  BY DEF Next, vTraceDisable, ExcludeTask, TaskDelete, vTraceEnable, TaskCreate, SwitchOut,
         SwitchIn, KernelHook, UserRecord, vars
<1>2. trace'.enabled => trace.enabled \/ phase = "main" \/ ~DeleteTasks
  BY NextIInv
<1>3. ASSUME task' = task PROVE Written'
  BY <1>1, <1>2, <1>3 DEF Written
<1>4. ASSUME NEW t \in Tcbs, TaskDelete(t) PROVE Written'
  <2>1. PICK freed \in DeletedTcb : task' = [task EXCEPT ![t] = freed]
    BY <1>4 DEF TaskDelete
  <2>2. ~freed.live
    BY DEF DeletedTcb, UnusedTcb
  <2>3. /\ \A u \in Tasks : u # t => task'[u] = task[u]
        /\ t \in Tasks => ~task'[t].live
        /\ DeleteTasks /\ phase' # "main"
    BY <1>4, <2>1, <2>2 DEF IInv, TaskDelete
  <2> QED
    BY <1>2, <2>3 DEF Written
<1>5. ASSUME NEW fails, vTraceEnable(fails) PROVE Written'
  <2>1. ~task'[IoTcb].filter
    BY TasksAssumption DEF IInv, IoTaskUntraced, Traced, Tasks
  <2>2. \A t \in Tasks : t # IoTcb => task'[t] = task[t]
    BY <1>5, EnableTcbs
  <2> QED
    BY <1>1, <1>2, <2>1, <2>2 DEF Written
<1>6. ASSUME NEW fails, NEW t \in Tcbs, NEW name \in AppNames, TaskCreate(t, name, fails)
      PROVE  Written'
  <2> DEFINE p   == ProbeFor(trace, StoredName[name], fails)
             new == RegisteredTcb(trace, task[t], name, fails)
  <2>1. /\ \A u \in Tasks : u # t => task'[u] = task[u]
        /\ t \in Tasks /\ task'[t] = new /\ ~task[t].live
    BY <1>6 DEF TaskCreate, IInv, Tasks
  <2>2. task[t] \in Tcb
    BY <2>1 DEF IInv
  <2>3. /\ new.live /\ new.tag = p
        /\ trace.enabled => (new.filter <=> p # NULL)
        /\ ~trace.enabled => (new.filter <=> task[t].filter)
    BY <2>2, RegisteredFields
  <2> HIDE DEF p, new
  <2>4. ~trace.enabled /\ (phase = "main" \/ ~DeleteTasks) => ~task[t].filter
    BY <2>1 DEF Written
  <2>5. phase = "main" \/ trace.enabled \/ ~DeleteTasks => (task'[t].filter => task'[t].tag # NULL)
    BY <2>1, <2>3, <2>4
  <2> QED
    BY <1>1, <1>2, <2>1, <2>3, <2>5 DEF Written
<1> QED
  BY <1>3, <1>4, <1>5, <1>6
     DEF Next, vTraceDisable, ExcludeTask, SwitchOut, SwitchIn, KernelHook, UserRecord, vars

\* In every reachable state.
LEMMA FiltersAreWritten ==
  ASSUME UseTraceAssert \/ ~DeleteTasks
  PROVE  Spec => []Written
<1>1. Init => Written
  BY DEF Init, Written, UnusedTcb
<1>2. IInv /\ IInv' /\ Written /\ [Next]_vars => Written'
  BY NextWritten
<1> QED
  BY <1>1, <1>2, Invariance, PTL DEF Spec

--------------------------------------------------------------------------------
\* Excluded tasks

\* The kernel keeps every name the application uses: it is no longer than
\* configMAX_TASK_NAME_LEN - 1 characters.
NamesFit == \A name \in AppNames : StoredName[name] = name

\* A task created under an excluded name has no probe.
ExcludedUntagged == \A t \in Tasks : task[t].unwanted => task[t].live /\ task[t].tag = NULL

\* No step forgets an excluded name or gives a task created under one a probe.
LEMMA NextExcluded ==
  ASSUME IInv, NamesFit, Remembered(trace), ExcludedUntagged, [Next]_vars
  PROVE  Remembered(trace') /\ ExcludedUntagged'
<1> DEFINE Goal == Remembered(trace') /\ ExcludedUntagged'
<1>1. ASSUME Books(trace, trace'), task' = task PROVE Goal
  BY <1>1, BooksRemember DEF ExcludedUntagged
<1>2. ASSUME Remembered(trace'), task' = task PROVE Goal
  BY <1>2 DEF ExcludedUntagged
<1>3. CASE vTraceDisable
  BY <1>1, <1>3, ErrorEffect DEF vTraceDisable, IInv, Good, SameButClocks
<1>4. ASSUME NEW name \in AppNames, ExcludeTask(name) PROVE Goal
  BY <1>2, <1>4, ExcludeEffect, NamesAssumption DEF ExcludeTask, IInv
<1>5. ASSUME NEW t \in Tcbs, TaskDelete(t) PROVE Goal
  <2>1. PICK freed \in DeletedTcb : task' = [task EXCEPT ![t] = freed]
    BY <1>5 DEF TaskDelete
  <2>2. ~freed.unwanted
    BY DEF DeletedTcb, UnusedTcb
  <2> QED
    BY <1>5, <2>1, <2>2 DEF TaskDelete, IInv, ExcludedUntagged
<1>6. ASSUME NEW fails, vTraceEnable(fails) PROVE Goal
  <2>1. Remembered(trace')
    BY <1>6, EnableEffect DEF vTraceEnable, IInv
  <2>2. ExcludedUntagged'
    BY <1>6, EnableTcbs DEF ExcludedUntagged
  <2> QED
    BY <2>1, <2>2
<1>7. ASSUME NEW fails, NEW t \in Tcbs, NEW name \in AppNames, TaskCreate(t, name, fails)
      PROVE  Goal
  <2> DEFINE p   == ProbeFor(trace, StoredName[name], fails)
             new == RegisteredTcb(trace, task[t], name, fails)
  <2>1. t \in Tasks /\ name \in Names /\ StoredName[name] = name
    BY NamesAssumption DEF Tasks, NamesFit
  <2>2. Remembered(trace')
    BY <1>7, <2>1, RegisterEffect, BooksRemember DEF TaskCreate, IInv
  <2>3. name \in trace.requested => p = NULL
    BY <2>1 DEF Remembered, ProbeFor, NewProbe
  <2>4. /\ \A u \in Tasks : u # t => task'[u] = task[u]
        /\ task'[t] = new /\ task[t] \in Tcb
    BY <1>7, <2>1 DEF TaskCreate, IInv
  <2>5. new.live /\ new.tag = p /\ (new.unwanted <=> name \in trace.requested)
    BY <2>4, RegisteredFields
  <2> HIDE DEF p, new
  <2>6. ExcludedUntagged'
    BY <2>3, <2>4, <2>5 DEF ExcludedUntagged
  <2> QED
    BY <2>2, <2>6
<1>8. ASSUME NEW fails, SwitchOut(fails) PROVE Goal
  <2>1. Books(trace, trace)
    BY DEF Books
  <2> QED
    BY <1>1, <1>8, <2>1, SwitchOutEffect DEF SwitchOut, IInv
<1>9. ASSUME NEW fails, NEW t \in Tasks, SwitchIn(t, fails) PROVE Goal
  <2>1. Books(trace, trace)
    BY DEF Books
  <2> QED
    BY <1>1, <1>9, <2>1, SwitchInEffect DEF SwitchIn, IInv
<1>10. ASSUME NEW fails, KernelHook(fails) PROVE Goal
  BY <1>1, <1>10, LogEffect DEF KernelHook, IInv, SameButClocks
<1>11. ASSUME NEW fails, UserRecord(fails) PROVE Goal
  BY <1>1, <1>11, UserRecordEffect DEF UserRecord, SameButClocks
<1>12. CASE UNCHANGED vars
  BY <1>1, <1>12 DEF vars, Books
<1> QED
  BY <1>3, <1>4, <1>5, <1>6, <1>7, <1>8, <1>9, <1>10, <1>11, <1>12 DEF Next

\* A task created under an excluded name is not traced while tracing is on, however many other
\* names are excluded before and after it, whatever fails, and whatever filter the last task in
\* its TCB left there: provided the kernel keeps the names whole, which the run on a long name
\* shows to be needed, and, where tasks are deleted, that the assert of vTraceEnable is compiled
\* in; without it tracing can be restarted with the filter still there.
THEOREM ExcludedAreNotTraced ==
  ASSUME NamesFit, UseTraceAssert \/ ~DeleteTasks
  PROVE  Spec => []ExcludedNotTraced
<1> DEFINE EInv == Remembered(trace) /\ ExcludedUntagged
<1>1. Init => EInv
  BY DEF Init, Remembered, ExcludedUntagged, UnusedTcb
<1>2. IInv /\ EInv /\ [Next]_vars => EInv'
  BY NextExcluded
<1>3. EInv /\ Written => ExcludedNotTraced
  BY DEF ExcludedUntagged, Written, ExcludedNotTraced, Traced
<1> QED
  BY <1>1, <1>2, <1>3, Invariance, FiltersAreWritten, PTL DEF Spec

--------------------------------------------------------------------------------
\* Slots of tasks in reused TCBs

\* The slots are taken from the first on, and none is ever free again.
Packed == \A i, j \in Slots : i < j /\ trace.slots[i].tcb = NULL => trace.slots[j].tcb = NULL

\* A step that changes no owner and gives no task a tag.
LEMMA HasSlotKept ==
  ASSUME Packed, TaggedHasSlot, SameOwners(trace, trace'), trace.error => trace'.error,
         \A t \in Tasks : task'[t].tag # NULL => task'[t].tag = task[t].tag
  PROVE  Packed' /\ TaggedHasSlot'
BY DEF Packed, TaggedHasSlot, HasLastSlot, SameOwners

\* A step that does not touch the TCBs either.
LEMMA TasksKept ==
  ASSUME Packed, TaggedHasSlot, task' = task, SameOwners(trace, trace'),
         trace.error => trace'.error
  PROVE  Packed' /\ TaggedHasSlot'
BY HasSlotKept

\* The hook of xTaskCreate takes the first free slot, behind all those of the same TCB.
LEMMA CreateHasSlot ==
  ASSUME IInv, Packed, TaggedHasSlot, NEW t \in Tcbs, NEW name \in AppNames, NEW fails,
         TaskCreate(t, name, fails)
  PROVE  Packed' /\ TaggedHasSlot'
<1> DEFINE p == ProbeFor(trace, StoredName[name], fails)
<1>1. t \in Tasks /\ name \in Names /\ t # NULL
  BY NamesAssumption, TasksAssumption DEF Tasks
<1>2. /\ trace.error => trace'.error
      /\ p = NULL => trace'.slots = trace.slots
      /\ p # NULL => \/ trace'.slots = trace.slots /\ trace'.error
                     \/ Takes(trace, trace', t, p)
  BY <1>1, RegisterEffect DEF TaskCreate, IInv, Books
<1>3. /\ \A u \in Tasks : u # t => task'[u] = task[u]
      /\ task'[t].tag = p
  <2>1. task' = [task EXCEPT ![t] = RegisteredTcb(trace, task[t], name, fails)] /\ task[t] \in Tcb
    BY <1>1 DEF TaskCreate, IInv
  <2>2. RegisteredTcb(trace, task[t], name, fails).tag = p
    BY <2>1, RegisteredFields
  <2> QED
    BY <1>1, <2>1, <2>2 DEF IInv
<1> HIDE DEF p
<1>4. CASE trace'.slots = trace.slots /\ (p = NULL \/ trace'.error)
  <2>1. Packed'
    BY <1>4 DEF Packed
  <2>2. CASE trace'.error
    BY <2>1, <2>2 DEF TaggedHasSlot
  <2>3. CASE p = NULL
    <3>1. \A u \in Tasks : task'[u].tag # NULL => task'[u].tag = task[u].tag
      BY <1>3, <2>3
    <3> QED
      BY <1>2, <1>4, <3>1, HasSlotKept DEF SameOwners
  <2> QED
    BY <1>4, <2>2, <2>3
<1>5. CASE p # NULL /\ Takes(trace, trace', t, p)
  <2>1. PICK i \in Slots :
          /\ trace.slots[i].tcb = NULL
          /\ \A j \in Slots : trace.slots[j].tcb = NULL => i <= j
          /\ trace'.slots[i].tcb = t /\ trace'.slots[i].probe = p
          /\ trace'.slots[i].control = ControlPlaneBuffer \/ trace'.error
          /\ \A j \in Slots : j # i => trace'.slots[j] = trace.slots[j]
    BY <1>5 DEF Takes
  <2>2. Slots \subseteq Int
    BY DEF Slots
  <2>3. Packed'
    <3> SUFFICES ASSUME NEW j \in Slots, NEW k \in Slots, j < k, trace'.slots[j].tcb = NULL
                 PROVE  trace'.slots[k].tcb = NULL
      BY DEF Packed
    <3>1. CASE j = i
      BY <1>1, <2>1, <3>1
    <3>2. CASE j # i /\ k = i
      BY <2>1, <2>2, <3>2
    <3>3. CASE j # i /\ k # i
      BY <2>1, <3>3 DEF Packed
    <3> QED
      BY <3>1, <3>2, <3>3
  <2>4. \A j \in Slots : trace'.slots[j].tcb = t => j <= i
    BY <1>1, <2>1, <2>2 DEF Packed
  <2>5. ASSUME NEW u \in Tasks, u # t, ~trace'.error, task'[u].tag # NULL
        PROVE  \E k \in Slots : /\ trace'.slots[k].tcb = u /\ trace'.slots[k].probe = task'[u].tag
                                /\ trace'.slots[k].control = ControlPlaneBuffer
                                /\ \A j \in Slots : trace'.slots[j].tcb = u => j <= k
    <3>1. ~trace.error /\ task[u].tag # NULL /\ u # NULL
      BY <1>2, <1>3, <2>5, TasksAssumption
    <3>2. PICK k \in Slots : /\ trace.slots[k].tcb = u /\ trace.slots[k].probe = task[u].tag
                             /\ trace.slots[k].control = ControlPlaneBuffer
                             /\ \A j \in Slots : trace.slots[j].tcb = u => j <= k
      BY <3>1 DEF TaggedHasSlot, HasLastSlot
    <3>3. k # i /\ \A j \in Slots : trace'.slots[j].tcb = u => trace.slots[j].tcb = u
      BY <2>1, <2>5, <3>1, <3>2
    <3> QED
      BY <1>3, <2>1, <2>5, <3>2, <3>3
  <2> QED
    BY <2>1, <2>3, <2>4, <2>5, <1>3 DEF TaggedHasSlot, HasLastSlot
<1> QED
  BY <1>2, <1>4, <1>5

\* Every step, deletions included.
LEMMA NextHasSlot ==
  ASSUME IInv, IInv', Packed, TaggedHasSlot, [Next]_vars
  PROVE  Packed' /\ TaggedHasSlot'
<1> DEFINE Goal == Packed' /\ TaggedHasSlot'
<1>1. ASSUME task' = task, trace'.slots = trace.slots, trace.error => trace'.error PROVE Goal
  BY <1>1, TasksKept DEF SameOwners
<1>2. ASSUME task' = task, SameButClocks(trace, trace') PROVE Goal
  BY <1>1, <1>2 DEF SameButClocks, Books
<1>3. CASE vTraceDisable
  BY <1>2, <1>3, ErrorEffect DEF vTraceDisable, IInv, Good
<1>4. ASSUME NEW name \in AppNames, ExcludeTask(name) PROVE Goal
  BY <1>1, <1>4, ExcludeEffect, NamesAssumption DEF ExcludeTask, IInv
<1>5. ASSUME NEW t \in Tcbs, TaskDelete(t) PROVE Goal
  <2>1. PICK freed \in DeletedTcb : task' = [task EXCEPT ![t] = freed]
    BY <1>5 DEF TaskDelete
  <2>2. freed.tag = NULL
    BY DEF DeletedTcb, UnusedTcb
  <2>3. /\ trace' = trace
        /\ \A u \in Tasks : task'[u].tag # NULL => task'[u].tag = task[u].tag
    BY <1>5, <2>1, <2>2 DEF TaskDelete, IInv
  <2> QED
    BY <2>3, HasSlotKept DEF SameOwners
<1>6. ASSUME NEW fails, vTraceEnable(fails) PROVE Goal
  <2>1. /\ trace' \in {prvTraceError(trace), [trace EXCEPT !.enabled = TRUE],
                       [CreateIoTask(trace, fails) EXCEPT !.enabled = TRUE]}
        /\ ~trace.enabled
    BY <1>6 DEF vTraceEnable
  <2>2. trace'.slots = trace.slots /\ (trace.error => trace'.error)
    BY <2>1, EnableEffect DEF IInv
  <2>3. \A u \in Tasks : task'[u].tag # NULL => task'[u].tag = task[u].tag
    BY <1>6, EnableTcbs
  <2> QED
    BY <2>2, <2>3, HasSlotKept DEF SameOwners
<1>7. ASSUME NEW fails, NEW t \in Tcbs, NEW name \in AppNames, TaskCreate(t, name, fails)
      PROVE  Goal
  BY <1>7, CreateHasSlot
<1>8. ASSUME NEW fails, SwitchOut(fails) PROVE Goal
  <2>1. CASE ~Traced(pxCurrentTCB)
    BY <1>1, <1>8, <2>1 DEF SwitchOut
  <2>2. CASE Traced(pxCurrentTCB)
    BY <1>8, <2>2, SwitchOutEffect, TasksKept DEF SwitchOut, IInv, Books
  <2> QED
    BY <2>1, <2>2
<1>9. ASSUME NEW fails, NEW t \in Tasks, SwitchIn(t, fails) PROVE Goal
  BY <1>1, <1>9, SwitchInEffect DEF SwitchIn, IInv, Books
<1>10. ASSUME NEW fails, KernelHook(fails) PROVE Goal
  BY <1>2, <1>10, LogEffect DEF KernelHook, IInv
<1>11. ASSUME NEW fails, UserRecord(fails) PROVE Goal
  BY <1>2, <1>11, UserRecordEffect DEF UserRecord
<1>12. CASE UNCHANGED vars
  BY <1>1, <1>12 DEF vars
<1> QED
  BY <1>3, <1>4, <1>5, <1>6, <1>7, <1>8, <1>9, <1>10, <1>11, <1>12 DEF Next

\* In every reachable state.
LEMMA Slotted == Spec => [](Packed /\ TaggedHasSlot)
<1>1. Init => Packed /\ TaggedHasSlot
  <2> SUFFICES ASSUME Init PROVE Packed /\ TaggedHasSlot
    OBVIOUS
  <2>1. /\ \A i \in Slots : trace.slots[i].tcb = NULL
        /\ \A t \in Tasks : task[t].tag = NULL
    BY DEF Init, FreeTcbProbe, UnusedTcb
  <2> QED
    BY <2>1 DEF Packed, TaggedHasSlot
<1>2. IInv /\ IInv' /\ Packed /\ TaggedHasSlot /\ [Next]_vars => Packed' /\ TaggedHasSlot'
  BY NextHasSlot
<1> QED
  BY <1>1, <1>2, Invariance, PTL DEF Spec

\* With reused TCBs, with and without the asserts, a task that was given a probe has it, with its
\* buffers, in the last slot of its TCB unless an error was reported; that the lookup returns the
\* first one is all that goes wrong with the slots when a TCB is reused.
THEOREM RegistrationSurvivesReuse == Spec => []TaggedHasSlot
BY Slotted, PTL

\* With the asserts, while tracing is on, every task that the hooks let through is one that was
\* given a probe: a filter that vTaskDelete left behind takes no part, although the hook of
\* xTaskCreate does not overwrite it while tracing is off.
THEOREM TracedHaveSlots ==
  ASSUME UseTraceAssert
  PROVE  Spec => []TracedHasSlot
<1>1. TaggedHasSlot /\ Written => TracedHasSlot
  BY DEF TaggedHasSlot, Written, TracedHasSlot, Traced
<1> QED
  BY <1>1, Slotted, FiltersAreWritten, PTL

--------------------------------------------------------------------------------
\* Where records go, whoever was deleted

\* The probe p belongs to the TCB: it is the tag of its task, or in a slot registered for it.
Belongs(p, tcb) ==
  \/ task[tcb].tag = p
  \/ \E i \in Slots : trace.slots[i].tcb = tcb /\ trace.slots[i].probe = p

\* Every record is made by the task to whose TCB the probe belongs, or as the first of a new probe.
OwnTcbRecords ==
  \A p \in Addr : trace'.clock[p][p] > trace.clock[p][p] /\ p < trace.next
                    => pxCurrentTCB' # NULL /\ Belongs(p, pxCurrentTCB')

\* The tracer has no current task before the scheduler starts.
MainIdle == phase = "main" => trace.current = NULL

\* A step that records in one probe only, which belongs to the running task.
LEMMA OneProbe ==
  ASSUME IInv, NEW p \in Addr, pxCurrentTCB' # NULL, Belongs(p, pxCurrentTCB'),
         \A q \in Addr : q # p => trace'.clock[q][q] = trace.clock[q][q]
  PROVE  OwnTcbRecords
<1>1. \A q \in Addr : trace.clock[q][q] \in Nat
  BY TraceFields DEF IInv, Good
<1> QED
  BY <1>1 DEF OwnTcbRecords

\* A step that leaves every probe's count of records alone makes none.
LEMMA NoRecords ==
  ASSUME IInv, \A p \in Addr : trace'.clock[p][p] = trace.clock[p][p]
  PROVE  OwnTcbRecords
<1>1. \A p \in Addr : trace.clock[p][p] \in Nat
  BY TraceFields DEF IInv, Good
<1> QED
  BY <1>1 DEF OwnTcbRecords

\* The slot that is found for a TCB holds a probe that belongs to it.
LEMMA FoundBelongs ==
  ASSUME IInv, NEW t, t # NULL, get_tcb_probe(trace, t) # NoSlot
  PROVE  LET p == trace.slots[get_tcb_probe(trace, t)].probe
         IN  p \in Addr /\ Belongs(p, t)
BY FoundProbe, GetTcbProbe DEF IInv, Good, Belongs

\* A step that records, if at all, in the slot of the current task, which is the running one.
LEMMA CurrentRecords ==
  ASSUME IInv, pxCurrentTCB' = trace.current, trace.current # NULL,
         LET i == get_tcb_probe(trace, trace.current)
         IN  \/ trace'.clock = trace.clock
             \/ i # NoSlot /\ OneMore(trace, trace', trace.slots[i].probe)
  PROVE  OwnTcbRecords
<1> DEFINE i == get_tcb_probe(trace, trace.current)
           p == trace.slots[i].probe
<1>1. CASE trace'.clock = trace.clock
  BY <1>1, NoRecords
<1>2. CASE i # NoSlot /\ OneMore(trace, trace', p)
  <2>1. p \in Addr /\ Belongs(p, trace.current)
    BY <1>2, FoundBelongs
  <2>2. OneMore(trace, trace', p)
    BY <1>2
  <2> HIDE DEF p
  <2>3. \A q \in Addr : q # p => trace'.clock[q][q] = trace.clock[q][q]
    BY <2>2 DEF OneMore
  <2> QED
    BY <2>1, <2>3, OneProbe
<1> QED
  BY <1>1, <1>2

\* Every step records into the probes of the running task's TCB only.
LEMMA NextRecords ==
  ASSUME IInv, MainIdle, [Next]_vars
  PROVE  MainIdle' /\ OwnTcbRecords
<1>1. CASE vTraceDisable
  <2>1. SameButClocks(trace, trace') /\ trace'.clock = trace.clock
    BY <1>1, ErrorEffect DEF vTraceDisable, IInv, Good
  <2> QED
    BY <1>1, <2>1, NoRecords DEF vTraceDisable, SameButClocks, MainIdle
<1>2. ASSUME NEW name \in AppNames, ExcludeTask(name) PROVE MainIdle' /\ OwnTcbRecords
  <2>1. trace'.clock = trace.clock /\ trace'.current = trace.current /\ phase' = phase
    BY <1>2, ExcludeEffect, NamesAssumption DEF ExcludeTask, IInv
  <2> QED
    BY <2>1, NoRecords DEF MainIdle
<1>3. ASSUME NEW t \in Tcbs, TaskDelete(t) PROVE MainIdle' /\ OwnTcbRecords
  BY <1>3, NoRecords DEF TaskDelete, MainIdle
<1>4. ASSUME NEW fails, vTraceEnable(fails) PROVE MainIdle' /\ OwnTcbRecords
  <2>1. /\ trace' \in {prvTraceError(trace), [trace EXCEPT !.enabled = TRUE],
                       [CreateIoTask(trace, fails) EXCEPT !.enabled = TRUE]}
        /\ ~trace.enabled /\ phase' = phase
    BY <1>4 DEF vTraceEnable
  <2>2. trace'.clock = trace.clock /\ trace'.current = trace.current
    BY <2>1, EnableEffect DEF IInv
  <2> QED
    BY <2>1, <2>2, NoRecords DEF MainIdle
<1>5. ASSUME NEW fails, NEW t \in Tcbs, NEW name \in AppNames, TaskCreate(t, name, fails)
      PROVE  MainIdle' /\ OwnTcbRecords
  <2>1. t \in Tasks /\ name \in Names
    BY NamesAssumption DEF Tasks
  <2>2. /\ \A b \in Addr : b # trace.next => trace'.clock[b][b] = trace.clock[b][b]
        /\ trace'.current = trace.current /\ phase' = phase
    BY <1>5, <2>1, RegisterEffect DEF TaskCreate, IInv
  <2>3. \A b \in Addr : b < trace.next => b # trace.next
    BY SizesAssumption, TraceFields DEF Addr, IInv, Good
  <2>4. \A p \in Addr : trace.clock[p][p] \in Nat
    BY TraceFields DEF IInv, Good
  <2> QED
    BY <2>2, <2>3, <2>4 DEF OwnTcbRecords, MainIdle
<1>6. ASSUME NEW fails, SwitchOut(fails) PROVE MainIdle' /\ OwnTcbRecords
  <2>1. MainIdle'
    BY <1>6 DEF SwitchOut, MainIdle
  <2>2. CASE ~Traced(pxCurrentTCB)
    BY <1>6, <2>1, <2>2, NoRecords DEF SwitchOut
  <2>3. CASE Traced(pxCurrentTCB)
    <3>1. trace.current = pxCurrentTCB /\ pxCurrentTCB # NULL /\ pxCurrentTCB' = pxCurrentTCB
      BY <1>6, <2>3 DEF SwitchOut, IInv, Attribution, Traced
    <3>2. LET i == get_tcb_probe(trace, trace.current)
          IN  \/ trace'.clock = trace.clock
              \/ i # NoSlot /\ OneMore(trace, trace', trace.slots[i].probe)
      BY <1>6, <2>3, SwitchOutEffect DEF SwitchOut, IInv
    <3> QED
      BY <2>1, <3>1, <3>2, CurrentRecords
  <2> QED
    BY <2>2, <2>3
<1>7. ASSUME NEW fails, NEW t \in Tasks, SwitchIn(t, fails) PROVE MainIdle' /\ OwnTcbRecords
  <2>1. pxCurrentTCB' = t /\ t # NULL /\ MainIdle'
    BY <1>7, TasksAssumption DEF SwitchIn, MainIdle
  <2>2. CASE ~Traced(t)
    BY <1>7, <2>1, <2>2, NoRecords DEF SwitchIn
  <2>3. CASE Traced(t)
    <3> DEFINE i == get_tcb_probe(trace, t)
               p == trace.slots[i].probe
    <3>1. \A q \in Addr : trace'.clock[q][q] # trace.clock[q][q] => i # NoSlot /\ q = p
      BY <1>7, <2>3, SwitchInEffect DEF SwitchIn, IInv
    <3>2. CASE i = NoSlot
      BY <2>1, <3>1, <3>2, NoRecords
    <3>3. CASE i # NoSlot
      <4>1. p \in Addr /\ Belongs(p, t)
        BY <2>1, <3>3, FoundBelongs
      <4> QED
        BY <2>1, <3>1, <4>1, OneProbe
    <3> QED
      BY <3>2, <3>3
  <2> QED
    BY <2>2, <2>3
<1>8. ASSUME NEW fails, KernelHook(fails) PROVE MainIdle' /\ OwnTcbRecords
  <2> DEFINE i == get_tcb_probe(trace, trace.current)
  <2>1. /\ SameButClocks(trace, trace')
        /\ \/ trace'.clock = trace.clock
           \/ trace.current # NULL /\ i # NoSlot /\ OneMore(trace, trace', trace.slots[i].probe)
    BY <1>8, LogEffect DEF KernelHook, IInv, Recording
  <2>2. MainIdle'
    BY <1>8, <2>1 DEF KernelHook, MainIdle, SameButClocks
  <2>3. CASE trace'.clock = trace.clock
    BY <2>2, <2>3, NoRecords
  <2>4. CASE trace.current # NULL /\ i # NoSlot /\ OneMore(trace, trace', trace.slots[i].probe)
    <3>1. trace.current = pxCurrentTCB /\ pxCurrentTCB' = pxCurrentTCB
      BY <1>8, <2>4 DEF KernelHook, MainIdle, IInv, Attribution
    <3> QED
      BY <2>2, <2>4, <3>1, CurrentRecords
  <2> QED
    BY <2>1, <2>3, <2>4
<1>9. ASSUME NEW fails, UserRecord(fails) PROVE MainIdle' /\ OwnTcbRecords
  <2> DEFINE p == task[pxCurrentTCB].tag
  <2>1. /\ p \in Addr /\ pxCurrentTCB \in Tasks /\ SameButClocks(trace, trace')
        /\ trace'.clock = trace.clock \/ OneMore(trace, trace', p)
    BY <1>9, UserRecordEffect
  <2>2. MainIdle' /\ pxCurrentTCB' = pxCurrentTCB
    BY <1>9, <2>1 DEF UserRecord, MainIdle, SameButClocks
  <2>3. CASE OneMore(trace, trace', p)
    <3>1. \A q \in Addr : q # p => trace'.clock[q][q] = trace.clock[q][q]
      BY <2>3 DEF OneMore
    <3>2. Belongs(p, pxCurrentTCB') /\ pxCurrentTCB' # NULL
      BY <2>1, <2>2, TasksAssumption DEF Belongs
    <3> QED
      BY <2>1, <2>2, <3>1, <3>2, OneProbe
  <2> QED
    BY <2>1, <2>2, <2>3, NoRecords
<1>10. CASE UNCHANGED vars
  BY <1>10, NoRecords DEF vars, MainIdle
<1> QED
  BY <1>1, <1>2, <1>3, <1>4, <1>5, <1>6, <1>7, <1>8, <1>9, <1>10 DEF Next

\* In every reachable state.
LEMMA Idleness == Spec => []MainIdle
<1>1. Init => MainIdle
  BY DEF Init, MainIdle
<1>2. IInv /\ MainIdle /\ [Next]_vars => MainIdle'
  BY NextRecords
<1> QED
  BY <1>1, <1>2, Invariance, PTL DEF Spec

\* Whoever was deleted and whatever failed, hooks and user-level calls record only into probes that
\* belong to the running task's TCB: a reused TCB is mixed up with the one it was, and with no other.
THEOREM RecordsAreAtOwnTcb == Spec => RecordsAtOwnTcb
<1>1. IInv /\ MainIdle /\ [Next]_vars
        => [\A p \in Addr :
              trace'.clock[p][p] > trace.clock[p][p] /\ p < trace.next
                => /\ pxCurrentTCB' # NULL
                   /\ \/ task[pxCurrentTCB'].tag = p
                      \/ \E i \in Slots : /\ trace.slots[i].tcb = pxCurrentTCB'
                                          /\ trace.slots[i].probe = p]_vars
  BY NextRecords DEF OwnTcbRecords, Belongs
<1> QED
  BY <1>1, Invariance, Idleness, PTL DEF Spec, RecordsAtOwnTcb

--------------------------------------------------------------------------------
\* Who owns a slot

\* A slot that is taken belongs to a task that exists, and holds the probe of its tag.
SlotTags ==
  \A i \in Slots : trace.slots[i].tcb # NULL =>
    /\ trace.slots[i].tcb \in Tasks
    /\ task[trace.slots[i].tcb].tag = trace.slots[i].probe

\* The filter lets exactly the tasks with a probe through, and they exist.
Carried ==
  \A t \in Tasks : /\ task[t].filter = (task[t].tag # NULL)
                   /\ task[t].tag # NULL => task[t].live

\* The hooks set the tracer's current task when the scheduler runs, to a traced task.
CurrentTraced ==
  /\ phase = "main" => trace.current = NULL
  /\ trace.current # NULL => trace.current \in Tasks /\ Traced(trace.current)

OInv == SlotTags /\ Carried /\ CurrentTraced /\ TracedIsRegistered

\* What the tracer keeps in the TCBs stays, and no task goes.
SameCarried ==
  \A t \in Tasks : /\ task'[t].tag = task[t].tag /\ task'[t].filter = task[t].filter
                   /\ task[t].live => task'[t].live

\* A step that changes no owner, tag, filter or current task preserves it.
LEMMA OwnersKept ==
  ASSUME OInv, SameOwners(trace, trace'), trace.error => trace'.error, SameCarried,
         trace'.current = trace.current, phase = "main" \/ phase' # "main"
  PROVE  OInv'
<1>1. SlotTags'
  BY DEF OInv, SlotTags, SameOwners, SameCarried
<1>2. Carried' /\ CurrentTraced'
  BY DEF OInv, Carried, CurrentTraced, Traced, SameCarried
<1>3. ASSUME NEW t \in Tasks, ~trace'.error, Traced(t)' PROVE Registered(t)'
  <2>1. Registered(t)
    BY <1>3 DEF OInv, Carried, TracedIsRegistered, Traced, SameCarried
  <2>2. get_tcb_probe(trace', t) = get_tcb_probe(trace, t)
    BY SameLookup DEF SameOwners
  <2>3. get_tcb_probe(trace, t) # NoSlot => get_tcb_probe(trace, t) \in Slots
    <3>1. get_tcb_probe(trace, t) = NoSlot \/ {i \in Slots : trace.slots[i].tcb = t} # {}
      BY DEF get_tcb_probe
    <3>2. {i \in Slots : trace.slots[i].tcb = t} \in SUBSET Nat
      BY SizesAssumption DEF Slots
    <3> QED
      BY <3>1, <3>2, FirstIsLeast DEF get_tcb_probe
  <2> QED
    BY <2>1, <2>2, <2>3 DEF Registered, SameOwners, SameCarried
<1> QED
  BY <1>1, <1>2, <1>3 DEF OInv, TracedIsRegistered

\* The hook of xTaskCreate gives the slot to a task that had none, so the slot that the
\* lookup finds is the new one, and those of the others are the old ones.
LEMMA CreateOwners ==
  ASSUME IInv, IInv', OInv, NEW t \in Tcbs, NEW name \in AppNames, NEW fails,
         TaskCreate(t, name, fails)
  PROVE  OInv'
<1> DEFINE p == ProbeFor(trace, StoredName[name], fails)
           New == RegisteredTcb(trace, task[t], name, fails)
<1>1. t \in Tasks /\ name \in Names /\ t # NULL /\ trace' \in Trace /\ trace \in Trace
  BY NamesAssumption, TasksAssumption DEF Tasks, IInv, Good
<1>2. /\ trace.error => trace'.error
      /\ trace'.current = trace.current /\ phase' = phase
      /\ p = NULL => trace'.slots = trace.slots
      /\ p # NULL => \/ trace'.slots = trace.slots /\ trace'.error
                     \/ Takes(trace, trace', t, p)
  BY <1>1, RegisterEffect DEF TaskCreate, IInv, Books
<1>3. /\ \A u \in Tasks : u # t => task'[u] = task[u]
      /\ task'[t] = New /\ ~task[t].live
  BY <1>1 DEF TaskCreate, IInv
<1>4. (New.filter <=> p # NULL) /\ New \in Tcb /\ New.tag = p /\ New.live
  <2>1. task[t] \in Tcb /\ ~task[t].filter
    BY <1>1, <1>3 DEF IInv, OInv, Carried
  <2>2. task'[t] \in Tcb
    BY <1>1 DEF IInv
  <2>3. /\ New.tag = p /\ New.live
        /\ trace.enabled => (New.filter <=> p # NULL)
        /\ ~trace.enabled => (New.filter <=> task[t].filter) /\ p = NULL
    BY <2>1, RegisteredFields
  <2> HIDE DEF p, New
  <2> QED
    BY <1>3, <2>1, <2>2, <2>3
<1>5. \A i \in Slots : trace.slots[i].tcb # t
  <2>1. task[t].tag = NULL
    BY <1>1, <1>3 DEF OInv, Carried
  <2>2. ASSUME NEW i \in Slots, trace.slots[i].tcb = t PROVE FALSE
    <3>1. trace.slots[i].probe = NULL
      BY <1>1, <2>1, <2>2 DEF OInv, SlotTags
    <3>2. trace.slots[i].probe \in Addr
      BY <1>1, <2>2 DEF IInv, Good, SlotsInside
    <3> QED
      BY <3>1, <3>2, SizesAssumption, TasksAssumption DEF Addr
  <2> QED
    BY <2>2
<1>6. trace'.slots = trace.slots \/ Takes(trace, trace', t, p)
  BY <1>2
<1> HIDE DEF p, New
<1>7. ASSUME NEW u \in Tasks, u # t
      PROVE  /\ get_tcb_probe(trace', u) = get_tcb_probe(trace, u)
             /\ Registered(u) => Registered(u)'
  <2>1. \A i \in Slots : trace'.slots[i] = trace.slots[i]
          \/ (trace.slots[i].tcb = NULL /\ trace'.slots[i].tcb = t)
    BY <1>6 DEF Takes
  <2>2. u # NULL
    BY TasksAssumption
  <2>3. get_tcb_probe(trace', u) = get_tcb_probe(trace, u)
    BY <1>7, <2>1, <2>2, SameLookup
  <2>4. ASSUME Registered(u) PROVE Registered(u)'
    <3>1. /\ get_tcb_probe(trace, u) \in Slots
          /\ trace.slots[get_tcb_probe(trace, u)].tcb = u
      BY <1>1, <2>4, GetTcbProbe DEF Registered
    <3>2. trace'.slots[get_tcb_probe(trace, u)] = trace.slots[get_tcb_probe(trace, u)]
      BY <2>1, <2>2, <3>1
    <3> QED
      BY <1>3, <1>7, <2>3, <2>4, <3>2 DEF Registered
  <2> QED
    BY <2>3, <2>4
<1>8. SlotTags'
  <2>1. ASSUME NEW i \in Slots, trace'.slots[i] = trace.slots[i], trace.slots[i].tcb # NULL
        PROVE  trace.slots[i].tcb \in Tasks /\ task'[trace.slots[i].tcb].tag = trace.slots[i].probe
    BY <1>3, <1>5, <2>1 DEF OInv, SlotTags
  <2>2. CASE trace'.slots = trace.slots
    BY <2>1, <2>2 DEF SlotTags
  <2>3. CASE Takes(trace, trace', t, p)
    BY <1>1, <1>3, <1>4, <2>1, <2>3 DEF SlotTags, Takes
  <2> QED
    BY <1>6, <2>2, <2>3
<1>9. Carried'
  BY <1>3, <1>4 DEF OInv, Carried, Tcb
<1>10. CurrentTraced'
  <2>1. trace.current # NULL => trace.current # t
    BY <1>3 DEF OInv, CurrentTraced, Carried, Traced
  <2> QED
    BY <1>2, <1>3, <2>1 DEF OInv, CurrentTraced, Traced
<1>11. TracedIsRegistered'
  <2>1. ASSUME ~trace'.error, p # NULL PROVE Registered(t)'
    <3>1. PICK i \in Slots :
            /\ trace'.slots[i].tcb = t /\ trace'.slots[i].probe = p
            /\ trace'.slots[i].control = ControlPlaneBuffer
            /\ \A j \in Slots : j # i => trace'.slots[j] = trace.slots[j]
      BY <1>2, <2>1 DEF Takes
    <3>2. get_tcb_probe(trace', t) = i /\ i # NoSlot
      BY <1>1, <1>5, <3>1, GetTcbProbe
    <3> QED
      BY <1>3, <1>4, <3>1, <3>2 DEF Registered
  <2>2. ASSUME NEW u \in Tasks, u # t, ~trace'.error, Traced(u)', task'[u].live
        PROVE  Registered(u)'
    BY <1>2, <1>3, <1>7, <2>2 DEF OInv, TracedIsRegistered, Traced
  <2>3. Traced(t)' => p # NULL
    BY <1>3, <1>4 DEF Traced
  <2> QED
    BY <2>1, <2>2, <2>3 DEF TracedIsRegistered
<1> QED
  BY <1>8, <1>9, <1>10, <1>11 DEF OInv

\* vTraceEnable gives the IO task neither a probe nor a slot.
LEMMA EnableOwners ==
  ASSUME IInv, IInv', OInv, NEW fails, vTraceEnable(fails)
  PROVE  OInv' /\ trace'.clock = trace.clock
<1>1. /\ trace'.slots = trace.slots /\ trace'.current = trace.current
      /\ trace'.clock = trace.clock /\ (trace.error => trace'.error) /\ phase' = phase
  <2>1. /\ trace' \in {prvTraceError(trace), [trace EXCEPT !.enabled = TRUE],
                       [CreateIoTask(trace, fails) EXCEPT !.enabled = TRUE]}
        /\ ~trace.enabled /\ phase' = phase
    BY DEF vTraceEnable
  <2> QED
    BY <2>1, EnableEffect DEF IInv
<1>2. SameCarried
  <2>1. /\ ~task'[IoTcb].filter /\ ~task[IoTcb].filter
        /\ IoTcb \in Tasks
    BY TasksAssumption DEF IInv, IoTaskUntraced, Traced, Tasks
  <2>2. task[IoTcb].tag = NULL
    BY <2>1 DEF OInv, Carried
  <2>3. \A t \in Tasks : task[t] \in Tcb /\ task'[t] \in Tcb
    BY DEF IInv
  <2>4. task[IoTcb].filter = task'[IoTcb].filter
    BY <2>1, <2>3 DEF Tcb
  <2> QED
    BY <2>2, <2>4, EnableTcbs DEF SameCarried
<1>3. OInv'
  BY <1>1, <1>2, OwnersKept DEF SameOwners
<1> QED
  BY <1>1, <1>3

\* The slot that is found for a task holds the probe of its tag.
LEMMA FoundTag ==
  ASSUME IInv, OInv, NEW t, t # NULL, get_tcb_probe(trace, t) # NoSlot
  PROVE  LET i == get_tcb_probe(trace, t)
         IN  i \in Slots /\ t \in Tasks /\ trace.slots[i].probe = task[t].tag
BY GetTcbProbe DEF IInv, Good, OInv, SlotTags

\* As long as no task is deleted, every step keeps the owners of the slots.
LEMMA NextOwners ==
  ASSUME IInv, IInv', OInv, ~DeleteTasks, [Next]_vars
  PROVE  OInv'
<1>1. ASSUME task' = task PROVE SameCarried
  BY <1>1 DEF SameCarried
<1>2. ASSUME trace'.slots = trace.slots PROVE SameOwners(trace, trace')
  BY <1>2 DEF SameOwners
<1>3. CASE vTraceDisable
  <2>1. SameButClocks(trace, trace')
    BY <1>3, ErrorEffect DEF vTraceDisable, IInv, Good
  <2> QED
    BY <1>1, <1>2, <1>3, <2>1, OwnersKept DEF vTraceDisable, SameButClocks, Books
<1>4. ASSUME NEW name \in AppNames, ExcludeTask(name) PROVE OInv'
  BY <1>1, <1>2, <1>4, ExcludeEffect, NamesAssumption, OwnersKept DEF ExcludeTask, IInv
<1>5. ASSUME NEW t \in Tcbs, TaskDelete(t) PROVE FALSE
  BY <1>5 DEF TaskDelete
<1>6. ASSUME NEW fails, vTraceEnable(fails) PROVE OInv'
  BY <1>6, EnableOwners
<1>7. ASSUME NEW fails, NEW t \in Tcbs, NEW name \in AppNames, TaskCreate(t, name, fails)
      PROVE  OInv'
  BY <1>7, CreateOwners
<1>8. ASSUME NEW fails, SwitchOut(fails) PROVE OInv'
  <2>1. CASE ~Traced(pxCurrentTCB)
    BY <1>1, <1>2, <1>8, <2>1, OwnersKept DEF SwitchOut
  <2>2. CASE Traced(pxCurrentTCB)
    <3>1. Books(trace, trace') /\ SameOwners(trace, trace') /\ trace'.current = trace.current
      BY <1>8, <2>2, SwitchOutEffect DEF SwitchOut, IInv
    <3> QED
      BY <1>1, <1>8, <3>1, OwnersKept DEF SwitchOut, Books
  <2> QED
    BY <2>1, <2>2
<1>9. ASSUME NEW fails, NEW t \in Tasks, SwitchIn(t, fails) PROVE OInv'
  <2>1. t # NULL /\ phase' # "main" /\ task' = task
    BY <1>9, TasksAssumption DEF SwitchIn
  <2>2. CASE ~Traced(t)
    BY <1>1, <1>2, <1>9, <2>1, <2>2, OwnersKept DEF SwitchIn
  <2>3. CASE Traced(t)
    <3>1. Books(trace, trace') /\ trace'.slots = trace.slots /\ trace'.current = t
      BY <1>9, <2>3, SwitchInEffect DEF SwitchIn, IInv
    <3>2. SlotTags' /\ Carried'
      BY <2>1, <3>1 DEF OInv, SlotTags, Carried
    <3>3. CurrentTraced'
      BY <2>1, <2>3, <3>1 DEF CurrentTraced, Traced
    <3>4. TracedIsRegistered'
      <4>1. \A u : get_tcb_probe(trace', u) = get_tcb_probe(trace, u)
        BY <3>1 DEF get_tcb_probe
      <4> QED
        BY <2>1, <3>1, <4>1 DEF OInv, TracedIsRegistered, Registered, Traced, Books
    <3> QED
      BY <3>2, <3>3, <3>4 DEF OInv
  <2> QED
    BY <2>2, <2>3
<1>10. ASSUME NEW fails, KernelHook(fails) PROVE OInv'
  <2>1. SameButClocks(trace, trace')
    BY <1>10, LogEffect DEF KernelHook, IInv
  <2> QED
    BY <1>1, <1>2, <1>10, <2>1, OwnersKept DEF KernelHook, SameButClocks, Books
<1>11. ASSUME NEW fails, UserRecord(fails) PROVE OInv'
  <2>1. SameButClocks(trace, trace')
    BY <1>11, UserRecordEffect
  <2> QED
    BY <1>1, <1>2, <1>11, <2>1, OwnersKept DEF UserRecord, SameButClocks, Books
<1>12. CASE UNCHANGED vars
  <2>1. Books(trace, trace') /\ trace'.slots = trace.slots /\ task' = task
    BY <1>12 DEF vars, Books
  <2> QED
    BY <1>1, <1>2, <1>12, <2>1, OwnersKept DEF vars
<1> QED
  BY <1>3, <1>4, <1>5, <1>6, <1>7, <1>8, <1>9, <1>10, <1>11, <1>12 DEF Next

\* In every reachable state of an application that deletes no task.
LEMMA Ownership ==
  ASSUME ~DeleteTasks
  PROVE  Spec => []OInv
<1>1. Init => OInv
  <2> SUFFICES ASSUME Init PROVE OInv
    OBVIOUS
  <2>1. \A i \in Slots : trace.slots[i].tcb = NULL
    BY DEF Init, FreeTcbProbe
  <2>2. \A t \in Tasks : task[t].filter = FALSE /\ task[t].tag = NULL
    BY DEF Init, UnusedTcb
  <2>3. trace.current = NULL
    BY DEF Init
  <2> QED
    BY <2>1, <2>2, <2>3
       DEF OInv, SlotTags, Carried, CurrentTraced, TracedIsRegistered, Traced
<1>2. IInv /\ IInv' /\ OInv /\ [Next]_vars => OInv'
  BY NextOwners
<1> QED
  BY <1>1, <1>2, Invariance, PTL DEF Spec

--------------------------------------------------------------------------------
\* The theorems

\* While no error is reported and no task is deleted, the hooks find for every traced task
\* the slot with the probe of its tag and, when configured, its control-plane buffers:
\* whichever of the allocations of add_tcb_probe fails, with and without the asserts.
THEOREM RegistrationIsComplete ==
  ASSUME ~DeleteTasks
  PROVE  Spec => []TracedIsRegistered
<1>1. OInv => TracedIsRegistered
  BY DEF OInv
<1> QED
  BY <1>1, Ownership, PTL

\* While no task is deleted, the hooks and the user-level calls record into the probe of
\* the task that runs and into no other, also when errors leave tasks without a slot.
THEOREM RecordsAreOwn ==
  ASSUME ~DeleteTasks
  PROVE  Spec => RecordsOnlyOwn
<1>1. ASSUME IInv, MainIdle, OInv, [Next]_vars,
             NEW p \in Addr, trace'.clock[p][p] > trace.clock[p][p], p < trace.next
      PROVE  pxCurrentTCB' # NULL /\ task[pxCurrentTCB'].tag = p
  <2>1. pxCurrentTCB' # NULL /\ Belongs(p, pxCurrentTCB')
    BY <1>1, NextRecords DEF OwnTcbRecords
  <2> QED
    BY <1>1, <2>1 DEF Belongs, OInv, SlotTags
<1>2. IInv /\ MainIdle /\ OInv /\ [Next]_vars
        => [\A p \in Addr :
              trace'.clock[p][p] > trace.clock[p][p] /\ p < trace.next
                => pxCurrentTCB' # NULL /\ task[pxCurrentTCB'].tag = p]_vars
  BY <1>1
<1> QED
  BY <1>2, Invariance, Idleness, Ownership, PTL DEF Spec, RecordsOnlyOwn

================================================================================
