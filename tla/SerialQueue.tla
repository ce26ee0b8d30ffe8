----------------------------- MODULE SerialQueue -----------------------------
(***************************************************************************)
(* What AddToProcessQueue promises its clients (scheduler.h): "callbacks   *)
(* can behave as if they are executed in order by a single thread".        *)
(* Callbacks are numbered in the order in which they are added.            *)
(***************************************************************************)
EXTENDS Naturals

VARIABLES
  added,     \* how many callbacks have been added
  started,   \* how many of them, the first ones, have been called
  busy       \* the last one called has not returned

vars == <<added, started, busy>>

Init == added = 0 /\ started = 0 /\ busy = FALSE

Add == added' = added + 1 /\ UNCHANGED <<started, busy>>

Call == ~busy /\ started < added /\ started' = started + 1 /\ busy' = TRUE /\ UNCHANGED added

Return == busy /\ busy' = FALSE /\ UNCHANGED <<added, started>>

Next == Add \/ Call \/ Return

Spec == Init /\ [][Next]_vars
==============================================================================
