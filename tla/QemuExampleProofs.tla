---------------------------- MODULE QemuExampleProofs ----------------------------
(* Theorems about QemuExample for every period, delay and lateness.            *)
EXTENDS QemuExample, TLAPS

--------------------------------------------------------------------------------
\* The invariant

NetRecord == [event : {"none", "up", "down"}, arp : BOOLEAN, probe : BOOLEAN]

IoRecord ==
  [at : {"read", "write", "delay"}, sender : BOOLEAN, receiver : BOOLEAN, created : 0..2]

TxRecord == [begun : BOOLEAN, wake : -MaxLate..Period]

RxRecord ==
  [at : {"begin", "receive", "expect", "blink"}, value : {0, 1, 100}, delay : 0..Sleep,
   probe : BOOLEAN]

\* A socket is created once, and kept.
SocketsOnce ==
  io.created = (IF io.sender THEN 1 ELSE 0) + (IF io.receiver THEN 1 ELSE 0)

\* Rx sleeps nowhere but in its vTaskDelay, before it blinks.
SleepsOnlyThere == rx.delay > 0 => rx.at = "blink"

XInv ==
  /\ halted \in BOOLEAN /\ tracing \in BOOLEAN /\ error \in BOOLEAN /\ started \in BOOLEAN
  /\ net \in NetRecord /\ io \in IoRecord
  /\ queue \in {<<>>, <<1>>, <<100>>}
  /\ timer \in -MaxLate..Period /\ tx \in TxRecord /\ rx \in RxRecord
  /\ SocketsOnce /\ SleepsOnlyThere /\ TracingSurvives

--------------------------------------------------------------------------------
\* Every step keeps it

\* An element is in a set or is not.
LEMMA MembershipDecided ==
  \A x, S : (x \in S) \in BOOLEAN /\ (x \notin S) \in BOOLEAN
OBVIOUS

\* The steps of the IO task, in trace_io_read and trace_io_write.
LEMMA IoKeeps ==
  ASSUME XInv, IoStep, UNCHANGED appVars
  PROVE  XInv'
<1> USE DEF XInv
<1>1. UNCHANGED <<net, started, queue, timer, tx, rx>>
  BY DEF appVars, IoStep, trace_io_read, trace_io_write, NothingToReport, IoDelay
<1>2. ASSUME NEW fails, NEW received, trace_io_read(fails, received)
      PROVE  /\ halted' \in BOOLEAN /\ tracing' \in BOOLEAN /\ error' \in BOOLEAN
             /\ io' \in IoRecord /\ SocketsOnce' /\ TracingSurvives'
  <2> DEFINE opened == ReceiverOpened(io, fails)
             stop   == ~opened.receiver \/ (~io.receiver /\ {"setsockopt", "bind"} \cap fails # {})
  <2>1. /\ halted' = stop /\ io' = IF stop THEN opened ELSE [opened EXCEPT !.at = "write"]
        /\ tracing' = (tracing /\ (stop \/ ~ReadFailed(received)))
        /\ error' = (error \/ received = "socket_error")
    BY <1>2 DEF trace_io_read
  <2>2. /\ opened \in IoRecord
        /\ opened.created = (IF opened.sender THEN 1 ELSE 0) + (IF opened.receiver THEN 1 ELSE 0)
    <3>1. CASE opened = io
      BY <3>1 DEF SocketsOnce
    <3>2. CASE opened # io
      <4>1. opened = [io EXCEPT !.receiver = TRUE, !.created = @ + 1] /\ ~io.receiver
        BY <3>2 DEF ReceiverOpened
      <4>2. /\ io.created \in 0..1
            /\ io.created + 1 = (IF io.sender THEN 1 ELSE 0) +
                                (IF TRUE THEN 1 ELSE 0)
        BY <4>1 DEF SocketsOnce, IoRecord
      <4> HIDE DEF opened
      <4>3. opened \in IoRecord
        <5> DEFINE more == io.created + 1
        <5>1. more \in 0..2
          BY <4>2
        <5>2. opened.at = io.at /\ opened.created = more /\ opened.sender \in BOOLEAN
              /\ opened.receiver \in BOOLEAN
              /\ opened = [at |-> io.at, sender |-> opened.sender, receiver |-> opened.receiver,
                           created |-> opened.created]
          BY <4>1 DEF IoRecord
        <5> HIDE DEF more
        <5> QED
          BY <5>1, <5>2 DEF IoRecord
      <4>4. opened.created = io.created + 1 /\ opened.sender = io.sender
            /\ opened.receiver = TRUE
        BY <4>1 DEF IoRecord
      <4> QED
        BY <4>2, <4>3, <4>4
    <3> QED
      BY <3>1, <3>2
  <2>3. halted' \in BOOLEAN /\ tracing' \in BOOLEAN /\ error' \in BOOLEAN
    BY <2>1, Zenon
  <2>4. TracingSurvives'
    BY <2>1, Zenon DEF TracingSurvives, ReadFailed
  <2> HIDE DEF opened, stop
  <2>5. io' \in IoRecord /\ SocketsOnce'
    BY <2>1, <2>2 DEF IoRecord, SocketsOnce
  <2> QED
    BY <2>3, <2>4, <2>5
<1>3. ASSUME NEW fails, trace_io_write(fails)
      PROVE  /\ halted' \in BOOLEAN /\ tracing' \in BOOLEAN /\ error' \in BOOLEAN
             /\ io' \in IoRecord /\ SocketsOnce' /\ TracingSurvives'
  <2> DEFINE opened == SenderOpened(io, fails)
             stop   == ~opened.sender
  <2>1. /\ halted' = stop /\ io' = IF stop THEN opened ELSE [opened EXCEPT !.at = "delay"]
        /\ tracing' = (tracing /\ (stop \/ "sendto" \notin fails))
        /\ error' = (error \/ "sendto" \in fails)
    BY <1>3 DEF trace_io_write
  <2>2. /\ opened \in IoRecord
        /\ opened.created = (IF opened.sender THEN 1 ELSE 0) + (IF opened.receiver THEN 1 ELSE 0)
    <3>1. CASE opened = io
      BY <3>1 DEF SocketsOnce
    <3>2. CASE opened # io
      <4>1. opened = [io EXCEPT !.sender = TRUE, !.created = @ + 1] /\ ~io.sender
        BY <3>2 DEF SenderOpened
      <4>2. /\ io.created \in 0..1
            /\ io.created + 1 = (IF TRUE THEN 1 ELSE 0) +
                                (IF io.receiver THEN 1 ELSE 0)
        BY <4>1 DEF SocketsOnce, IoRecord
      <4> HIDE DEF opened
      <4>3. opened \in IoRecord
        <5> DEFINE more == io.created + 1
        <5>1. more \in 0..2
          BY <4>2
        <5>2. opened.at = io.at /\ opened.created = more /\ opened.sender \in BOOLEAN
              /\ opened.receiver \in BOOLEAN
              /\ opened = [at |-> io.at, sender |-> opened.sender, receiver |-> opened.receiver,
                           created |-> opened.created]
          BY <4>1 DEF IoRecord
        <5> HIDE DEF more
        <5> QED
          BY <5>1, <5>2 DEF IoRecord
      <4>4. opened.created = io.created + 1 /\ opened.sender = TRUE
            /\ opened.receiver = io.receiver
        BY <4>1 DEF IoRecord
      <4> QED
        BY <4>2, <4>3, <4>4
    <3> QED
      BY <3>1, <3>2
  <2>3. halted' \in BOOLEAN /\ tracing' \in BOOLEAN /\ error' \in BOOLEAN
    BY <2>1, Zenon
  <2>4. TracingSurvives'
    BY <2>1, Zenon DEF TracingSurvives
  <2> HIDE DEF opened, stop
  <2>5. io' \in IoRecord /\ SocketsOnce'
    BY <2>1, <2>2 DEF IoRecord, SocketsOnce
  <2> QED
    BY <2>3, <2>4, <2>5
<1>4. ASSUME NothingToReport \/ IoDelay
      PROVE  /\ UNCHANGED <<halted, tracing, error>>
             /\ io' \in IoRecord /\ SocketsOnce' /\ TracingSurvives'
  BY <1>4 DEF NothingToReport, IoDelay, IoRecord, SocketsOnce, TracingSurvives
<1> QED
  BY <1>1, <1>2, <1>3, <1>4 DEF IoStep, SleepsOnlyThere

\* The network and its hook.
LEMMA NetworkKeeps ==
  ASSUME XInv, Network \/ NetworkHook
  PROVE  XInv'
<1> USE DEF XInv
<1>1. ASSUME NEW event \in {"up", "down"}, NetworkChanges(event), UNCHANGED appVars PROVE XInv'
  <2>1. net' \in NetRecord
    BY <1>1 DEF NetworkChanges, NetRecord
  <2> QED
    BY <1>1, <2>1
       DEF NetworkChanges, appVars, SocketsOnce, SleepsOnlyThere, TracingSurvives
<1>2. ASSUME NEW fails, vApplicationIPNetworkEventHook(fails), UNCHANGED appVars PROVE XInv'
  <2>1. net' \in NetRecord
    <3> DEFINE a == net.arp \/ (net.probe /\ net.event = "up")
    <3>1. net' = [net EXCEPT !.event = "none", !.arp = a] /\ a \in BOOLEAN
      BY <1>2, Zenon DEF vApplicationIPNetworkEventHook, NetRecord
    <3> HIDE DEF a
    <3> QED
      BY <3>1 DEF NetRecord
  <2>2. halted' \in BOOLEAN
    BY <1>2, Zenon DEF vApplicationIPNetworkEventHook
  <2> QED
    BY <1>2, <2>1, <2>2 DEF vApplicationIPNetworkEventHook, appVars, SocketsOnce,
                            SleepsOnlyThere, TracingSurvives
<1> QED
  BY <1>1, <1>2 DEF Network, NetworkHook

\* The tasks of the application, the timer and the tick.
LEMMA AppKeeps ==
  ASSUME XInv,
         \/ \E fails \in Failures({"malloc"}) : StartScheduler(fails)
         \/ TimerCallback \/ QueueSendTask \/ ReceiveTask \/ Tick \/ Halted
  PROVE  XInv'
<1> USE DEF XInv
<1>1. ASSUME UNCHANGED <<net, io, tracing, error>>
      PROVE  SocketsOnce' /\ TracingSurvives'
  BY <1>1 DEF SocketsOnce, TracingSurvives
<1>2. Sent(1) \in {<<>>, <<1>>, <<100>>} /\ Sent(100) \in {<<>>, <<1>>, <<100>>}
  BY DEF Sent
<1>3. ASSUME NEW fails, StartScheduler(fails) PROVE XInv'
  <2>1. halted' \in BOOLEAN /\ started' \in BOOLEAN
    BY <1>3, MembershipDecided DEF StartScheduler
  <2> QED
    BY <1>1, <1>3, <2>1 DEF StartScheduler, SleepsOnlyThere
<1>4. ASSUME TimerCallback PROVE XInv'
  <2>1. timer <= 0
    BY <1>4 DEF TimerCallback, Runs, Ready
  <2>2. timer' \in -MaxLate..Period
    BY <1>4, <2>1, TimesAssumption DEF TimerCallback
  <2> QED
    BY <1>1, <1>2, <1>4, <2>2 DEF TimerCallback, SleepsOnlyThere
<1>5. ASSUME QueueSendTask PROVE XInv'
  <2>1. tx.wake <= 0 /\ tx.wake \in -MaxLate..Period /\ tx.begun \in BOOLEAN
    BY <1>5 DEF QueueSendTask, Runs, Ready, TxRecord
  <2>2. tx.wake + Period \in -MaxLate..Period /\ Period \in -MaxLate..Period
    BY <2>1, TimesAssumption
  <2>3. tx' \in TxRecord
    BY <1>5, <2>2 DEF QueueSendTask, TxRecord
  <2>4. queue' \in {<<>>, <<1>>, <<100>>}
    BY <1>2, <1>5 DEF QueueSendTask
  <2> QED
    BY <1>1, <1>5, <2>3, <2>4 DEF QueueSendTask, SleepsOnlyThere
<1>6. ASSUME ReceiveTask PROVE XInv'
  <2>1. rx.at # "receive" /\ rx.at # "begin" => rx.delay = 0
    BY <1>6 DEF ReceiveTask, RxBegins, RxReceives, RxExpects, RxBlinks, Runs, Ready, RxRecord
  <2>2. UNCHANGED <<tracing, net, io, error, started, timer, tx>>
    BY <1>6 DEF ReceiveTask, RxBegins, RxReceives, RxExpects, RxBlinks
  <2>3. ASSUME RxBegins PROVE halted' \in BOOLEAN /\ rx' \in RxRecord /\ SleepsOnlyThere'
    <3>1. halted' \in BOOLEAN
      BY <2>3, Zenon DEF RxBegins
    <3> QED
      BY <3>1, <2>3 DEF RxBegins, RxRecord, SleepsOnlyThere
  <2>4. ASSUME RxReceives
        PROVE  halted' \in BOOLEAN /\ rx' \in RxRecord /\ SleepsOnlyThere'
    <3>1. Head(queue) \in {1, 100}
      BY <2>4 DEF RxReceives
    <3> QED
      BY <3>1, <2>4 DEF RxReceives, RxRecord, SleepsOnlyThere
  <2>5. ASSUME NEW fails, RxExpects(fails)
        PROVE  halted' \in BOOLEAN /\ rx' \in RxRecord /\ SleepsOnlyThere'
    <3>1. halted' \in BOOLEAN
      BY <2>5, MembershipDecided DEF RxExpects
    <3>2. rx.delay = 0
      BY <2>1, <2>5 DEF RxExpects
    <3> QED
      <4>1. CASE rx.value = 100
        <5>1. rx' = [rx EXCEPT !.at = "blink", !.delay = Sleep] /\ Sleep \in 0..Sleep
          BY <4>1, <2>5, TimesAssumption DEF RxExpects
        <5> QED
          BY <3>1, <5>1 DEF RxRecord, SleepsOnlyThere
      <4>2. CASE rx.value # 100
        <5>1. rx' = [rx EXCEPT !.at = "receive"]
          BY <4>2, <2>5 DEF RxExpects
        <5> QED
          BY <3>1, <3>2, <5>1 DEF RxRecord, SleepsOnlyThere
      <4> QED
        BY <4>1, <4>2
  <2>6. ASSUME NEW fails, RxBlinks(fails)
        PROVE  halted' \in BOOLEAN /\ rx' \in RxRecord /\ SleepsOnlyThere'
    <3>1. halted' \in BOOLEAN
      BY <2>6, MembershipDecided DEF RxBlinks
    <3>2. rx.delay = 0
      BY <2>1, <2>6 DEF RxBlinks
    <3> QED
      <4>1. rx' = [rx EXCEPT !.at = "receive", !.value = 0]
        BY <2>6 DEF RxBlinks
      <4>2. rx' \in RxRecord
        BY <4>1 DEF RxRecord
      <4>3. rx'.delay = rx.delay
        BY <4>1 DEF RxRecord
      <4> QED
        BY <3>1, <3>2, <4>2, <4>3 DEF SleepsOnlyThere
  <2>7. queue' \in {<<>>, <<1>>, <<100>>}
    BY <1>6 DEF ReceiveTask, RxBegins, RxReceives, RxExpects, RxBlinks
  <2> QED
    BY <1>1, <1>6, <2>2, <2>3, <2>4, <2>5, <2>6, <2>7 DEF ReceiveTask
<1>7. ASSUME Tick PROVE XInv'
  <2>1. timer' \in -MaxLate..Period
    BY <1>7, TimesAssumption DEF Tick
  <2>2. tx' \in TxRecord
    BY <1>7, TimesAssumption DEF Tick, TxRecord
  <2>3. rx' \in RxRecord /\ SleepsOnlyThere'
    BY <1>7, TimesAssumption DEF Tick, RxRecord, SleepsOnlyThere
  <2> QED
    BY <1>1, <1>7, <2>1, <2>2, <2>3 DEF Tick
<1>8. ASSUME Halted PROVE XInv'
  BY <1>8 DEF Halted, vars, SocketsOnce, SleepsOnlyThere, TracingSurvives
<1> QED
  BY <1>3, <1>4, <1>5, <1>6, <1>7, <1>8

--------------------------------------------------------------------------------
\* The theorems

\* The invariant holds throughout.
THEOREM ExampleInvariant == Spec => []XInv
<1>1. Init => XInv
  <2> SUFFICES ASSUME Init PROVE XInv
    OBVIOUS
  <2>1. PICK ip \in BOOLEAN, own \in BOOLEAN :
          /\ IoInit(ip, own)
          /\ rx = [at |-> "begin", value |-> 0, delay |-> 0, probe |-> own]
    <3> DEFINE Created == {<<TRUE, TRUE>>} \cup
          (IF "initialize" \in MayFail THEN {<<FALSE, FALSE>>, <<TRUE, FALSE>>} ELSE {})
    <3>1. PICK created \in Created :
            /\ IoInit(created[1], created[2])
            /\ rx = [at |-> "begin", value |-> 0, delay |-> 0, probe |-> created[2]]
      BY DEF Init
    <3>2. created[1] \in BOOLEAN /\ created[2] \in BOOLEAN
      <4>1. created \in {<<TRUE, TRUE>>, <<FALSE, FALSE>>, <<TRUE, FALSE>>}
        OBVIOUS
      <4>2. CASE created = <<TRUE, TRUE>>
        BY <4>2
      <4>3. CASE created = <<FALSE, FALSE>>
        BY <4>3
      <4>4. CASE created = <<TRUE, FALSE>>
        BY <4>4
      <4> QED
        BY <4>1, <4>2, <4>3, <4>4, Zenon
    <3> HIDE DEF Created
    <3> QED
      BY <3>1, <3>2
  <2>2. halted \in BOOLEAN /\ tracing \in BOOLEAN /\ error \in BOOLEAN /\ TracingSurvives
    BY <2>1, Zenon DEF IoInit, TracingSurvives
  <2>3. net \in NetRecord /\ io \in IoRecord /\ SocketsOnce
    BY <2>1 DEF IoInit, NetRecord, IoRecord, SocketsOnce
  <2>4. rx \in RxRecord /\ SleepsOnlyThere
    BY <2>1, TimesAssumption DEF RxRecord, SleepsOnlyThere
  <2>5. started \in BOOLEAN /\ queue = <<>> /\ timer \in -MaxLate..Period /\ tx \in TxRecord
    <3>1. 0 \in -MaxLate..Period /\ Period \in -MaxLate..Period
      BY TimesAssumption
    <3>2. started = FALSE /\ queue = <<>> /\ timer = Period
          /\ tx = [begun |-> FALSE, wake |-> 0]
      BY DEF Init
    <3>3. tx \in TxRecord
      BY <3>1, <3>2 DEF TxRecord
    <3> QED
      BY <3>1, <3>2, <3>3
  <2> QED
    BY <2>2, <2>3, <2>4, <2>5 DEF XInv
<1>2. XInv /\ [Next]_vars => XInv'
  <2> SUFFICES ASSUME XInv, [Next]_vars PROVE XInv'
    OBVIOUS
  <2>1. CASE Io
    BY <2>1, IoKeeps DEF Io
  <2>2. CASE UNCHANGED vars
    BY <2>2 DEF vars, XInv, SocketsOnce, SleepsOnlyThere, TracingSurvives
  <2> QED
    BY <2>1, <2>2, NetworkKeeps, AppKeeps DEF Next
<1> QED
  BY <1>1, <1>2, PTL DEF Spec

\* The timer and TX are never served later than the bound allows, Rx never waits longer than its
\* vTaskDelay, and no more than the two sockets are ever created.
THEOREM ExampleTypes == Spec => []TypeOK
<1>1. XInv => TypeOK
  BY DEF XInv, TypeOK, NetRecord, IoRecord, TxRecord, RxRecord
<1> QED
  BY <1>1, ExampleInvariant, PTL

\* However long Rx sleeps and however often the timer fills the queue, TX's send, which does not
\* wait, fails only while Rx sleeps: Rx has the higher priority and empties the queue before TX
\* runs.
THEOREM SendFailsInSleep == Spec => []SendFailsOnlyInSleep
<1>1. XInv => SendFailsOnlyInSleep
  <2> SUFFICES ASSUME XInv, Runs("tx"), tx.begun, queue # <<>>
               PROVE  rx.at = "blink" /\ rx.delay > 0
    BY DEF SendFailsOnlyInSleep
  <2>1. "rx" \notin Ready
    BY DEF Runs, Priority
  <2>2. rx.at # "receive" /\ rx.delay # 0
    <3>1. "rx" \in DOMAIN Priority
      BY DEF Priority
    <3> QED
      BY <2>1, <3>1 DEF Ready
  <2>3. rx.delay > 0
    BY <2>2, TimesAssumption DEF XInv, RxRecord
  <2> QED
    BY <2>3 DEF XInv, SleepsOnlyThere
<1> QED
  BY <1>1, ExampleInvariant, PTL

\* Tracing is on until an outside call reported an error that lasts, whatever the network and the
\* sockets do: reads that find nothing or are interrupted do not end it.
THEOREM TracingEndsOnError == Spec => []TracingSurvives
<1>1. XInv => TracingSurvives
  BY DEF XInv
<1> QED
  BY <1>1, ExampleInvariant, PTL

================================================================================
