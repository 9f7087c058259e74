--------------------------------- MODULE QemuIo ----------------------------------
(***************************************************************************)
(* The UDP transport of the QEMU example, modality_probe_io.c, as the IO   *)
(* task drives it, and the network event hook of main.c.                   *)
(*                                                                         *)
(* Both sockets are created by the first call that needs them.  A failed   *)
(* configASSERT ends in vAssertCalled, which masks interrupts and loops:   *)
(* the whole application stops.  So does the hook for an exhausted heap.   *)
(*                                                                         *)
(* External: FreeRTOS+TCP.  A socket may not be created, configured or     *)
(* bound; a datagram may be there to receive or not, whatever was sent; a  *)
(* read may be interrupted; a write may find no network buffer.  IoTask    *)
(* has the loop in detail: here it is a read, one write and the delay.     *)
(***************************************************************************)
EXTENDS Integers

CONSTANT MayFail \* the outside calls that can fail, a subset of Calls

\* "record", "initialize": modality-probe; "malloc": the heap; the others: FreeRTOS+TCP.
Calls == {"socket", "setsockopt", "bind", "recvfrom", "sendto", "record", "initialize", "malloc"}

ASSUME CallsAssumption == MayFail \subseteq Calls

VARIABLES
  halted,  \* in vAssertCalled or vApplicationMallocFailedHook, which never return
  tracing, \* g_is_enabled
  net,     \* the event the IP task has to report, xTraceIoInitialized, its probe
  io,      \* the IO task: where it is, the sockets it has, how many were created
  error    \* history: an outside call reported a lasting error

\* The outside calls among these that fail in one step.
Failures(calls) == SUBSET (calls \cap MayFail)

--------------------------------------------------------------------------------
\* modality_probe_io.c

\* Mutant: a new socket for every report.
SenderAnew(s, fails) ==
  IF "socket" \in fails THEN s ELSE [s EXCEPT !.sender = TRUE, !.created = @ + 1]

\* init_sender
SenderOpened(s, fails) ==
  IF s.sender \/ "socket" \in fails THEN s ELSE [s EXCEPT !.sender = TRUE, !.created = @ + 1]

\* init_recvr; a socket that could not be bound is kept.
ReceiverOpened(s, fails) ==
  IF s.receiver \/ "socket" \in fails THEN s ELSE [s EXCEPT !.receiver = TRUE, !.created = @ + 1]

\* What FreeRTOS_recvfrom returns on a socket with no waiting time: a datagram's size, nothing,
\* -EWOULDBLOCK, -EINTR, or FREERTOS_SOCKET_ERROR.
Received == {"datagram", "nothing", "would_block", "interrupted"} \cup
            (IF "recvfrom" \in MayFail THEN {"socket_error"} ELSE {})

\* Mutant: every negative result is an error.
ReadStatusOfNegative(received) == received \notin {"datagram", "nothing"}

\* Only FREERTOS_SOCKET_ERROR is an error, other negative results are returned as sizes.
ReadFailed(received) == received = "socket_error"

\* trace_io_read, its asserts, and what the IO task does with the status.
trace_io_read(fails, received) ==
  /\ io.at = "read"
  /\ LET opened == ReceiverOpened(io, fails)
         stop   == ~opened.receiver \/ (~io.receiver /\ {"setsockopt", "bind"} \cap fails # {})
     IN  /\ halted' = stop
         /\ io' = IF stop THEN opened ELSE [opened EXCEPT !.at = "write"]
         /\ tracing' = (tracing /\ (stop \/ ~ReadFailed(received)))
         /\ error' = (error \/ received = "socket_error")
  /\ UNCHANGED net

\* trace_io_write: a negative result is an error, a short or empty write is not.
trace_io_write(fails) ==
  /\ io.at = "write"
  /\ LET opened == SenderOpened(io, fails)
         stop   == ~opened.sender
     IN  /\ halted' = stop
         /\ io' = IF stop THEN opened ELSE [opened EXCEPT !.at = "delay"]
         /\ tracing' = (tracing /\ (stop \/ "sendto" \notin fails))
         /\ error' = (error \/ "sendto" \in fails)
  /\ UNCHANGED net

\* vTaskDelay has elapsed.
IoDelay ==
  /\ io.at = "delay"
  /\ io' = [io EXCEPT !.at = "read"]
  /\ UNCHANGED <<halted, tracing, net, error>>

\* The turn of the loop ends without a report to write.
NothingToReport ==
  /\ io.at = "write"
  /\ io' = [io EXCEPT !.at = "delay"]
  /\ UNCHANGED <<halted, tracing, net, error>>

IoStep ==
  \/ \E fails \in Failures({"socket", "setsockopt", "bind"}), received \in Received :
       trace_io_read(fails, received)
  \/ \E fails \in Failures({"socket", "sendto"}) : trace_io_write(fails)
  \/ NothingToReport
  \/ IoDelay

--------------------------------------------------------------------------------
\* The network

\* The IP task learns of the network's state.
NetworkChanges(event) ==
  /\ net.event = "none"
  /\ net' = [net EXCEPT !.event = event]
  /\ UNCHANGED <<halted, tracing, io, error>>

\* vApplicationIPNetworkEventHook: an ARP request for the collector on the first network-up
\* only, and a record in the IP task's probe.
vApplicationIPNetworkEventHook(fails) ==
  /\ net.event # "none"
  /\ halted' = (~net.probe \/ "record" \in fails)
  /\ net' = [net EXCEPT !.event = "none", !.arp = @ \/ (net.probe /\ net.event = "up")]
  /\ UNCHANGED <<tracing, io, error>>

\* The IP task has its probe, every task has.
IoInit(probe, all) ==
  /\ halted = FALSE
  /\ tracing = all
  /\ net = [event |-> "none", arp |-> FALSE, probe |-> probe]
  /\ io = [at |-> "read", sender |-> FALSE, receiver |-> FALSE, created |-> 0]
  /\ error = ~all

================================================================================
