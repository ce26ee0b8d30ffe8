----------------------------- MODULE CheckQueue -----------------------------
(***************************************************************************)
(* CCheckQueue, the queue of script checks: the master (the thread in      *)
(* ConnectBlock) opens a CCheckQueueControl, adds checks and joins the     *)
(* workers in Loop until none is left.  A critical section under the mutex *)
(* is one action; the checks themselves run outside of it.  At shutdown    *)
(* the boost threads are interrupted, which throws out of a wait.          *)
(***************************************************************************)
EXTENDS Naturals, FiniteSets

CONSTANTS
  Worker, Master,
  Interruptible,  \* threads of threadGroup: the workers, and ThreadImport if it is the master
  Check,          \* the checks a block may have
  BatchSize,      \* nBatchSize
  MaxBlocks       \* bound: blocks connected

ASSUME QueueAssumption ==
  /\ IsFiniteSet(Worker) /\ Master \notin Worker
  /\ Interruptible \subseteq Worker \cup {Master}
  /\ IsFiniteSet(Check)
  /\ BatchSize \in Nat \ {0} /\ MaxBlocks \in Nat

Thread == Worker \cup {Master}

VARIABLES
  queue, nIdle, nTotal, fAllOk, nTodo,
  pc,       \* "out" of Loop, at "work" on a batch, in "wait", "woken" from it, "gone"
  vChecks,  \* each thread's batch
  fOk,      \* fAllOk when the batch was taken
  request,  \* interruption requests: "none" yet, "made", or "taken" by a throw
  control,  \* the CCheckQueueControl: "none", "open", in its "wait" or its destructor ("drop");
            \* "dead" when the process has ended
  added,    \* the checks of this block
  good,     \* those that succeed
  result,   \* what Wait() returned for this block
  blocks

counters == <<nIdle, nTotal, nTodo, fAllOk>>
block == <<added, good, blocks>>
vars == <<queue, nIdle, nTotal, fAllOk, nTodo, pc, vChecks, fOk, request, control, added, good,
          result, blocks>>

TypeOK ==
  /\ queue \in SUBSET Check /\ nIdle \in Nat /\ nTotal \in Nat /\ nTodo \in Nat
  /\ fAllOk \in BOOLEAN
  /\ pc \in [Thread -> {"out", "work", "wait", "woken", "gone"}]
  /\ vChecks \in [Thread -> SUBSET Check] /\ fOk \in [Thread -> BOOLEAN]
  /\ request \in [Thread -> {"none", "made", "taken"}]
  /\ control \in {"none", "open", "wait", "drop", "dead"}
  /\ added \in SUBSET Check /\ good \in SUBSET Check
  /\ result \in {"none", "ok", "bad"}
  /\ blocks \in 0 .. MaxBlocks

IsIdle == nTotal = nIdle /\ nTodo = 0 /\ fAllOk

-----------------------------------------------------------------------------
(* Loop. *)

Least(a, b) == IF a < b THEN a ELSE b

\* How many checks to take, with idle and total as they are now.
Share(idle, total) ==
  LET n == Least(BatchSize, Cardinality(queue) \div (total + idle + 1)) IN IF n < 1 THEN 1 ELSE n

\* Mutant: the verdict on this block is left for the next one.
ReturnKeepsAllOk(idle, total, allOk) ==
  /\ nIdle' = idle /\ nTotal' = total - 1
  /\ fAllOk' = allOk
  /\ result' = IF control = "drop" THEN "none" ELSE IF allOk THEN "ok" ELSE "bad"
  /\ control' = "none"
  /\ pc' = [pc EXCEPT ![Master] = "out"]
  /\ vChecks' = [vChecks EXCEPT ![Master] = {}]
  /\ UNCHANGED <<queue, request, fOk>>

\* Mutant: the master stays counted.
ReturnStaysCounted(idle, total, allOk) ==
  /\ nIdle' = idle /\ nTotal' = total
  /\ fAllOk' = TRUE
  /\ result' = IF control = "drop" THEN "none" ELSE IF allOk THEN "ok" ELSE "bad"
  /\ control' = "none"
  /\ pc' = [pc EXCEPT ![Master] = "out"]
  /\ vChecks' = [vChecks EXCEPT ![Master] = {}]
  /\ UNCHANGED <<queue, request, fOk>>

\* The master leaves Loop; Wait() hands its answer to ConnectBlock, the destructor
\* does not.
Return(idle, total, allOk) ==
  /\ nIdle' = idle /\ nTotal' = total - 1
  /\ fAllOk' = TRUE
  /\ result' = IF control = "drop" THEN "none" ELSE IF allOk THEN "ok" ELSE "bad"
  /\ control' = "none"
  /\ pc' = [pc EXCEPT ![Master] = "out"]
  /\ vChecks' = [vChecks EXCEPT ![Master] = {}]
  /\ UNCHANGED <<queue, request, fOk>>

\* An interrupted wait throws with nIdle and nTotal as they are.  A worker's thread
\* ends.  Out of Wait(), the destructor of the control has the master enter Loop
\* again; out of the destructor, the exception ends the process.
Throw(t, p) ==
  /\ request' = [request EXCEPT ![t] = "taken"]
  /\ pc' = [p EXCEPT ![t] = IF t = Master THEN "out" ELSE "gone"]
  /\ control' = IF t # Master THEN control ELSE IF control = "drop" THEN "dead" ELSE "drop"

\* cond.wait.
Sleep(t, idle, total, allOk, p) ==
  /\ nIdle' = idle + 1 /\ nTotal' = total
  /\ fAllOk' = allOk
  /\ IF request[t] = "made"
     THEN Throw(t, p)
     ELSE pc' = [p EXCEPT ![t] = "wait"] /\ UNCHANGED <<request, control>>
  /\ vChecks' = [vChecks EXCEPT ![t] = {}]
  /\ UNCHANGED <<queue, fOk, result>>

\* A batch from the queue.  The code takes it from the back, but no check depends
\* on another.
Take(t, idle, total, allOk, p) ==
  /\ nIdle' = idle /\ nTotal' = total
  /\ fAllOk' = allOk
  /\ \E batch \in SUBSET queue :
       /\ Cardinality(batch) = Share(idle, total)
       /\ queue' = queue \ batch
       /\ vChecks' = [vChecks EXCEPT ![t] = batch]
  /\ fOk' = [fOk EXCEPT ![t] = allOk]
  /\ pc' = [p EXCEPT ![t] = "work"]
  /\ UNCHANGED <<request, control, result>>

\* The inner loop of a section, from the values it has so far; p is pc with the
\* threads it notified.  fQuit is never set.
Inner(t, idle, total, todo, allOk, p) ==
  /\ nTodo' = todo
  /\ \/ queue = {} /\ t = Master /\ todo = 0 /\ Return(idle, total, allOk)
     \/ queue = {} /\ ~(t = Master /\ todo = 0) /\ Sleep(t, idle, total, allOk, p)
     \/ queue # {} /\ Take(t, idle, total, allOk, p)
  /\ UNCHANGED block

\* The first iteration.
EnterLoop(t) ==
  /\ pc[t] = "out" /\ control # "dead"
  /\ t = Master => control \in {"wait", "drop"}
  /\ Inner(t, nIdle, nTotal + 1, nTodo, fAllOk, pc)

\* Mutant: the master is not told.
FinishBatchSilent(t) ==
  /\ pc[t] = "work" /\ control # "dead"
  /\ LET ok == fOk[t] /\ vChecks[t] \subseteq good
         todo == nTodo - Cardinality(vChecks[t])
     IN  Inner(t, nIdle, nTotal, todo, fAllOk /\ ok, pc)

\* The batch has been run up to its first failure, or not at all when the block has
\* failed already; the section starts with the clean-up.
FinishBatch(t) ==
  /\ pc[t] = "work" /\ control # "dead"
  /\ LET ok == fOk[t] /\ vChecks[t] \subseteq good
         todo == nTodo - Cardinality(vChecks[t])
         notify == todo = 0 /\ t # Master /\ pc[Master] = "wait"
     IN  Inner(t, nIdle, nTotal, todo, fAllOk /\ ok,
               IF notify THEN [pc EXCEPT ![Master] = "woken"] ELSE pc)

\* cond.wait returns.
Wake(t) ==
  /\ pc[t] = "woken" /\ request[t] # "made" /\ control # "dead"
  /\ Inner(t, nIdle - 1, nTotal, nTodo, fAllOk, pc)

\* cond.wait throws.
Interrupted(t) ==
  /\ pc[t] \in {"wait", "woken"} /\ request[t] = "made" /\ control # "dead"
  /\ Throw(t, pc)
  /\ UNCHANGED <<queue, counters, vChecks, fOk, result, block>>

\* A wait may also return without a notification.
SpuriousWake(t) ==
  /\ pc[t] = "wait" /\ control # "dead"
  /\ pc' = [pc EXCEPT ![t] = "woken"]
  /\ UNCHANGED <<queue, counters, vChecks, fOk, request, control, result, block>>

-----------------------------------------------------------------------------
(* The master's side, and shutdown. *)

\* The constructor of CCheckQueueControl; its assert is the property IdleWhenOpened.
OpenControl ==
  /\ control = "none" /\ blocks < MaxBlocks
  /\ control' = "open"
  /\ blocks' = blocks + 1
  /\ added' = {} /\ good' \in SUBSET Check
  /\ result' = "none"
  /\ UNCHANGED <<queue, counters, pc, vChecks, fOk, request>>

\* One check wakes one worker, several wake all of them.
Notified(S) ==
  LET asleep == {w \in Worker : pc[w] = "wait"} IN
  IF S = {} THEN {{}}
  ELSE IF Cardinality(S) = 1 THEN {{w} : w \in asleep} \cup ({{}} \cap {asleep})
  ELSE {asleep}

Add(S) ==
  /\ control = "open"
  /\ S \cap added = {}
  /\ added' = added \cup S
  /\ queue' = queue \cup S
  /\ nTodo' = nTodo + Cardinality(S)
  /\ \E woken \in Notified(S) : pc' = [t \in Thread |-> IF t \in woken THEN "woken" ELSE pc[t]]
  /\ UNCHANGED <<nIdle, nTotal, fAllOk, vChecks, fOk, request, control, good, result, blocks>>

\* ConnectBlock calls Wait(), or returns early and leaves it to the destructor.
CloseControl ==
  /\ control = "open"
  /\ control' \in {"wait", "drop"}
  /\ UNCHANGED <<queue, counters, pc, vChecks, fOk, request, result, block>>

\* interrupt_all reaches a thread of the group.
Interrupt(t) ==
  /\ t \in Interruptible /\ request[t] = "none" /\ control # "dead"
  /\ request' = [request EXCEPT ![t] = "made"]
  /\ UNCHANGED <<queue, counters, pc, vChecks, fOk, control, result, block>>

-----------------------------------------------------------------------------
Init ==
  /\ queue = {} /\ nIdle = 0 /\ nTotal = 0 /\ nTodo = 0 /\ fAllOk = TRUE
  /\ pc = [t \in Thread |-> "out"]
  /\ vChecks = [t \in Thread |-> {}] /\ fOk = [t \in Thread |-> TRUE]
  /\ request = [t \in Thread |-> "none"]
  /\ control = "none" /\ added = {} /\ good = {} /\ result = "none" /\ blocks = 0

Next ==
  \/ \E t \in Thread :
       \/ EnterLoop(t) \/ FinishBatch(t) \/ Wake(t) \/ Interrupted(t) \/ SpuriousWake(t)
       \/ Interrupt(t)
  \/ OpenControl \/ CloseControl
  \/ \E S \in SUBSET Check : Add(S)

Spec == Init /\ [][Next]_vars

\* Threads run when they can; workers need not ever start.
FairSpec ==
  /\ Spec
  /\ WF_vars(EnterLoop(Master))
  /\ \A t \in Thread : WF_vars(FinishBatch(t) \/ Wake(t) \/ Interrupted(t))

-----------------------------------------------------------------------------
(* Properties. *)

\* Checks that have been added and not accounted for.
Outstanding == queue \cup UNION {vChecks[t] : t \in Thread}

\* Wait() answers for this block and no other: true exactly when every check that
\* was added since the control was opened succeeds.
AnswerIsRight == result # "none" => (result = "ok" <=> added \subseteq good)

\* The assert of CCheckQueueControl's constructor: "passed queue is supposed to be
\* unused".
IdleWhenOpened == control = "none" => IsIdle

\* nTodo: "Number of verifications that haven't completed yet", those in the queue and
\* those in the threads' batches, none of them twice.
TodoExact ==
  /\ nTodo = Cardinality(Outstanding)
  /\ \A t \in Thread : vChecks[t] \cap queue = {}
  /\ \A t, u \in Thread : t # u => vChecks[t] \cap vChecks[u] = {}

\* The destructor "guarantees the passed queue is finished before continuing": the
\* master always leaves Loop, with workers busy, asleep, not yet started or gone, unless
\* the process ends first.
WaitReturns == control \in {"wait", "drop"} ~> control \in {"none", "dead"}
=============================================================================
