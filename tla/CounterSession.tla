-------------------------- MODULE CounterSession ---------------------------
(***************************************************************************)
(* What the measuring library promises for one counter: a stopwatch that   *)
(* counts events only while it runs, is read only while it stands still,   *)
(* and whose readings are the numbers it showed.                           *)
(***************************************************************************)
EXTENDS Naturals, Sequences

VARIABLES
  running,   \* the counter counts
  events,    \* what it shows
  readings   \* what has been recorded in this session

vars == <<running, events, readings>>

Init == running = FALSE /\ events = 0 /\ readings = <<>>

\* A new session: earlier readings are forgotten.
Begin == readings' = <<>> /\ UNCHANGED <<running, events>>

Start == ~ running /\ running' = TRUE /\ UNCHANGED <<events, readings>>

Count == running /\ events' = events + 1 /\ UNCHANGED <<running, readings>>

Halt == running /\ running' = FALSE /\ UNCHANGED <<events, readings>>

\* Only a counter that stands still is set back.
Zero == ~ running /\ events' = 0 /\ UNCHANGED <<running, readings>>

\* Only a counter that stands still is recorded.
Record ==
  /\ ~ running
  /\ readings' = Append(readings, events)
  /\ UNCHANGED <<running, events>>

Next == Begin \/ Start \/ Count \/ Halt \/ Zero \/ Record

Spec == Init /\ [][Next]_vars
=============================================================================
