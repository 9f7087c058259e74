----------------------------- MODULE ControlDelivery -----------------------------
(***************************************************************************)
(* What the control plane promises a task, whatever carries the messages:  *)
(* it accepts messages addressed to the task in the order they came in,    *)
(* never one twice, and the task processes them in that order.  Messages   *)
(* that are not accepted are lost; an accepted one is not.                 *)
(***************************************************************************)
EXTENDS Naturals, Sequences

CONSTANTS
  Receivers,        \* the tasks
  Message,          \* records with fields number and to
  AddressedTo(_, _) \* a message is for a task

VARIABLES
  accepted, \* accepted[t]: the messages accepted for t, oldest first
  done      \* done[t]: how many of them t has processed

vars == <<accepted, done>>

Init ==
  /\ accepted = [t \in Receivers |-> <<>>]
  /\ done = [t \in Receivers |-> 0]

Newer(m, t) == \A i \in DOMAIN accepted[t] : accepted[t][i].number < m.number

Accept(t) ==
  /\ \E m \in Message :
       /\ AddressedTo(m, t) /\ Newer(m, t)
       /\ accepted' = [accepted EXCEPT ![t] = Append(@, m)]
  /\ UNCHANGED done

Process(t) ==
  /\ done[t] < Len(accepted[t])
  /\ done' = [done EXCEPT ![t] = @ + 1]
  /\ UNCHANGED accepted

Next == \E t \in Receivers : Accept(t) \/ Process(t)

Spec == Init /\ [][Next]_vars

================================================================================
