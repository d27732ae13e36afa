----------------------------- MODULE FifoMutex -----------------------------
(***************************************************************************)
(* What device-mutex.ts promises: one task at a time on a phone, in the    *)
(* order in which they asked; a task that is tired of waiting goes away    *)
(* and changes nothing for the others.  DeviceTasks is shown to implement  *)
(* this module.                                                            *)
(***************************************************************************)
EXTENDS Naturals

CONSTANTS Tasks, Phones, PhoneOf

VARIABLES
  ticket,    \* ticket[t]: the order of arrival at the phone of t, 0 before it asks
  asked,     \* asked[p]: tickets handed out at phone p
  waiting,   \* tasks that wait
  inside     \* tasks that have their phone

vars == <<ticket, asked, waiting, inside>>

Init ==
  /\ ticket = [t \in Tasks |-> 0]
  /\ asked = [p \in Phones |-> 0]
  /\ waiting = {}
  /\ inside = {}

\* acquire() is called: the last place of the phone's queue.
Ask(t) ==
  /\ ticket[t] = 0
  /\ ticket' = [ticket EXCEPT ![t] = asked[PhoneOf[t]] + 1]
  /\ asked' = [asked EXCEPT ![PhoneOf[t]] = ticket'[t]]
  /\ waiting' = waiting \union {t}
  /\ UNCHANGED inside

\* acquire() returns: nobody is on the phone, nobody has waited longer.
Enter(t) ==
  /\ t \in waiting
  /\ \A u \in inside : PhoneOf[u] # PhoneOf[t]
  /\ \A u \in waiting : PhoneOf[u] = PhoneOf[t] => ticket[t] <= ticket[u]
  /\ waiting' = waiting \ {t}
  /\ inside' = inside \union {t}
  /\ UNCHANGED <<ticket, asked>>

\* acquire() throws DeviceBusyError.
GiveUp(t) ==
  /\ t \in waiting
  /\ waiting' = waiting \ {t}
  /\ UNCHANGED <<ticket, asked, inside>>

\* The release function is called.
Leave(t) ==
  /\ t \in inside
  /\ inside' = inside \ {t}
  /\ UNCHANGED <<ticket, asked, waiting>>

Next == \E t \in Tasks : Ask(t) \/ Enter(t) \/ GiveUp(t) \/ Leave(t)

Spec == Init /\ [][Next]_vars
=============================================================================
