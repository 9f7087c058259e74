------------------------------- MODULE QemuExample -------------------------------
(***************************************************************************)
(* The QEMU example: the tasks of main_blinky.c over the transport and the *)
(* network hook of QemuIo, scheduled by priority.                          *)
(*                                                                         *)
(* A timer and the task TX both send to a queue of one item, without       *)
(* waiting; the task Rx receives, checks the value, and blinks and sleeps  *)
(* when it is TX's.  Every task runs only while none of higher priority is *)
(* ready, and can be preempted between its steps.                          *)
(*                                                                         *)
(* Time is a tick of some fraction of the sending period; the tick         *)
(* interrupt may come at any point, also while tasks are still busy.       *)
(***************************************************************************)
EXTENDS QemuIo, Sequences

CONSTANTS
  Period,  \* mainQUEUE_SEND_FREQUENCY_MS and mainTIMER_SEND_FREQUENCY_MS, in model ticks
  Sleep,   \* vTaskDelay(1000), in model ticks
  MaxLate  \* bound of the model: how many ticks late the timer or TX may run

ASSUME TimesAssumption == {Period, Sleep} \subseteq Nat \ {0} /\ MaxLate \in Nat

VARIABLES
  started, \* the scheduler runs
  queue,   \* xQueue
  timer,   \* ticks until xTimer expires
  tx,      \* whether TX has begun, ticks until it wakes
  rx       \* the receiving task

vars == <<halted, tracing, net, io, error, started, queue, timer, tx, rx>>
appVars == <<started, queue, timer, tx, rx>>

--------------------------------------------------------------------------------
\* Scheduling

\* Mutant: the receiver has no higher priority than the sender.
PriorityEqual ==
  [timer |-> 9, ip |-> 8, rx |-> 1, tx |-> 1, io |-> 1]

\* configTIMER_TASK_PRIORITY, ipconfigIP_TASK_PRIORITY, mainQUEUE_..._TASK_PRIORITY and
\* MPT_CFG_IO_TASK_PRIORITY
Priority ==
  [timer |-> 9, ip |-> 8, rx |-> 2, tx |-> 1, io |-> 1]

Ready ==
  {t \in DOMAIN Priority :
     CASE t = "timer" -> timer <= 0
       [] t = "ip"    -> net.event # "none"
       [] t = "rx"    -> IF rx.at = "receive" THEN queue # <<>> ELSE rx.delay = 0
       [] t = "tx"    -> tx.wake <= 0
       [] t = "io"    -> io.at # "delay"}

\* The task is among those that the scheduler lets run.
Runs(t) ==
  /\ started /\ ~halted
  /\ t \in Ready /\ \A u \in Ready : Priority[u] <= Priority[t]

\* xQueueSend with no waiting time.
Sent(value) == IF queue = <<>> THEN <<value>> ELSE queue

--------------------------------------------------------------------------------
\* main

\* An exhausted heap stops in vApplicationMallocFailedHook.
StartScheduler(fails) ==
  /\ ~started /\ ~halted
  /\ halted' = ("malloc" \in fails)
  /\ started' = ("malloc" \notin fails)
  /\ UNCHANGED <<tracing, net, io, error, queue, timer, tx, rx>>

\* prvQueueSendTimerCallback, in the timer task; the timer reloads itself.
TimerCallback ==
  /\ Runs("timer")
  /\ queue' = Sent(1)
  /\ timer' = timer + Period
  /\ UNCHANGED <<halted, tracing, net, io, error, started, tx, rx>>

\* prvQueueSendTask: first it takes the time and waits, then it sends and waits.
QueueSendTask ==
  /\ Runs("tx")
  /\ queue' = IF tx.begun THEN Sent(100) ELSE queue
  /\ tx' = [begun |-> TRUE, wake |-> IF tx.begun THEN tx.wake + Period ELSE Period]
  /\ UNCHANGED <<halted, tracing, net, io, error, started, timer, rx>>

\* prvQueueReceiveTask needs its probe.
RxBegins ==
  /\ Runs("rx") /\ rx.at = "begin"
  /\ halted' = ~rx.probe
  /\ rx' = [rx EXCEPT !.at = "receive"]
  /\ UNCHANGED <<tracing, net, io, error, started, queue, timer, tx>>

\* Mutant: the item is looked at and stays in the queue.
RxPeeks ==
  /\ Runs("rx") /\ rx.at = "receive" /\ queue # <<>>
  /\ rx' = [rx EXCEPT !.at = "expect", !.value = Head(queue)]
  /\ UNCHANGED <<halted, tracing, net, io, error, started, queue, timer, tx>>

RxReceives ==
  /\ Runs("rx") /\ rx.at = "receive" /\ queue # <<>>
  /\ rx' = [rx EXCEPT !.at = "expect", !.value = Head(queue)]
  /\ queue' = <<>>
  /\ UNCHANGED <<halted, tracing, net, io, error, started, timer, tx>>

\* MODALITY_PROBE_EXPECT, and vTaskDelay for the expected value.
RxExpects(fails) ==
  /\ Runs("rx") /\ rx.at = "expect"
  /\ halted' = ("record" \in fails)
  /\ rx' = IF rx.value = 100 THEN [rx EXCEPT !.at = "blink", !.delay = Sleep]
           ELSE [rx EXCEPT !.at = "receive"]
  /\ UNCHANGED <<tracing, net, io, error, started, queue, timer, tx>>

\* MODALITY_PROBE_RECORD_W_U32 of BLINKING.
RxBlinks(fails) ==
  /\ Runs("rx") /\ rx.at = "blink"
  /\ halted' = ("record" \in fails)
  /\ rx' = [rx EXCEPT !.at = "receive", !.value = 0]
  /\ UNCHANGED <<tracing, net, io, error, started, queue, timer, tx>>

ReceiveTask ==
  \/ RxBegins
  \/ RxReceives
  \/ \E fails \in Failures({"record"}) : RxExpects(fails) \/ RxBlinks(fails)

\* The tick interrupt.  MaxLate is a bound of the model: the timer and TX are served within so
\* many ticks of their time, as they are on a processor that is not overloaded.
Tick ==
  /\ started /\ ~halted
  /\ timer > -MaxLate /\ tx.wake > -MaxLate
  /\ timer' = timer - 1
  /\ tx' = [tx EXCEPT !.wake = @ - 1]
  /\ rx' = [rx EXCEPT !.delay = IF @ > 0 THEN @ - 1 ELSE 0]
  /\ UNCHANGED <<halted, tracing, net, io, error, started, queue>>

--------------------------------------------------------------------------------
\* The specification

\* The delay elapses by itself, the IO task reads and writes when it runs.
Io == IoStep /\ (io.at = "delay" \/ Runs("io")) /\ started /\ ~halted /\ UNCHANGED appVars

Network ==
  /\ started /\ ~halted
  /\ \E event \in {"up", "down"} : NetworkChanges(event)
  /\ UNCHANGED appVars

NetworkHook ==
  /\ Runs("ip")
  /\ \E fails \in Failures({"record"}) : vApplicationIPNetworkEventHook(fails)
  /\ UNCHANGED appVars

\* vAssertCalled and vApplicationMallocFailedHook loop.
Halted == halted /\ UNCHANGED vars

\* main: vTraceEnable, then the IP task and Rx are created.  The first failed initialization of a
\* probe disables the tracing, and a task created after that has none.
Init ==
  /\ \E created \in {<<TRUE, TRUE>>} \cup
        (IF "initialize" \in MayFail THEN {<<FALSE, FALSE>>, <<TRUE, FALSE>>} ELSE {}) :
       /\ IoInit(created[1], created[2])
       /\ rx = [at |-> "begin", value |-> 0, delay |-> 0, probe |-> created[2]]
  /\ started = FALSE
  /\ queue = <<>>
  /\ timer = Period
  /\ tx = [begun |-> FALSE, wake |-> 0]

Next ==
  \/ \E fails \in Failures({"malloc"}) : StartScheduler(fails)
  \/ TimerCallback \/ QueueSendTask \/ ReceiveTask
  \/ Tick \/ Io \/ Network \/ NetworkHook \/ Halted

\* The tick and the tasks of the kernel that nothing can hold back are weakly fair.  A task of
\* the application that gets to run again and again does run: it is the one of highest
\* priority, or takes turns with those of its own (configUSE_TIME_SLICING).
Fairness ==
  /\ WF_vars(\E fails \in Failures({"malloc"}) : StartScheduler(fails))
  /\ WF_vars(Tick)
  /\ WF_vars(TimerCallback)
  /\ WF_vars(NetworkHook)
  /\ WF_vars(Io /\ io.at = "delay")
  /\ SF_vars(Io /\ io.at # "delay")
  /\ SF_vars(QueueSendTask)
  /\ SF_vars(ReceiveTask)

Spec == Init /\ [][Next]_vars /\ Fairness

--------------------------------------------------------------------------------
\* Properties

\* The type of every variable; the wake-up times stay within the bounds.
TypeOK ==
  /\ halted \in BOOLEAN /\ tracing \in BOOLEAN /\ error \in BOOLEAN /\ started \in BOOLEAN
  /\ net \in [event : {"none", "up", "down"}, arp : BOOLEAN, probe : BOOLEAN]
  /\ io \in [at : {"read", "write", "delay"}, sender : BOOLEAN, receiver : BOOLEAN, created : 0..2]
  /\ queue \in {<<>>, <<1>>, <<100>>}
  /\ timer \in -MaxLate..Period
  /\ tx \in [begun : BOOLEAN, wake : -MaxLate..Period]
  /\ rx \in [at : {"begin", "receive", "expect", "blink"}, value : {0, 1, 100},
             delay : 0..Sleep, probe : BOOLEAN]

\* TX's send, which does not wait, fails only while Rx sleeps (main_blinky.c:118-122 says it
\* never fails): priority, not the queue's length, is what leaves room for it.
SendFailsOnlyInSleep ==
  Runs("tx") /\ tx.begun /\ queue # <<>> => rx.at = "blink" /\ rx.delay > 0

\* However often the network goes up and down, reports fail or sockets are missing, the tracing
\* ends only after a call outside reported an error that lasts: a read that finds nothing, or is
\* interrupted, must not end it (modality_probe_io.c:107-115).
TracingSurvives == ~tracing => error

\* Unless the application halts Rx blinks again and again: the timer's item that fills the queue
\* while Rx sleeps does not keep TX's from arriving for ever (main_blinky.c:140-172).
BlinksAgain == (<>halted) \/ ([]<>(rx.at = "blink"))

\* Unless the application halts the IO task gets to its reports again and again, whatever it
\* receives and however little its priority leaves it (modality_probe_io.c:90-147).
IoAgain == (<>halted) \/ ([]<>(io.at = "write"))

================================================================================
