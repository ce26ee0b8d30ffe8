----------------------------- MODULE Scheduler -----------------------------
(***************************************************************************)
(* CScheduler: threads in serviceQueue run tasks at or after their time.   *)
(* newTaskMutex is held except while a thread waits or runs a task, so a   *)
(* section under it is one action.  The condition variable keeps no memory *)
(* of a notification: only threads already waiting are woken.              *)
(***************************************************************************)
EXTENDS Naturals, FiniteSets, SequencesExt

CONSTANTS
  Thread,
  Task,
  Repeating,  \* the tasks given to scheduleEvery
  Delta,      \* their deltaMilliSeconds
  Horizon     \* bound: the last instant of the clock

ASSUME SchedulerAssumption ==
  /\ IsFiniteSet(Thread) /\ Repeating \subseteq Task
  /\ Delta \in Nat \ {0} /\ Horizon \in Nat

VARIABLES
  clock,
  taskQueue,  \* entries in the order of the multimap: by time, then by insertion
  nThreadsServicingQueue, stopRequested, stopWhenEmpty,
  interrupted,
  pc,         \* "new", "ready" for newTaskMutex, in "sleep" or a "timed" wait, "timeout" when
              \* that wait has timed out, to "run" a task, "gone"
  until,      \* the time of a timed wait
  job,        \* the entry being run
  fresh       \* the tasks not scheduled so far

flags == <<stopRequested, stopWhenEmpty, interrupted>>
vars == <<clock, taskQueue, nThreadsServicingQueue, stopRequested, stopWhenEmpty, interrupted, pc,
          until, job, fresh>>

Time == 0 .. Horizon
Entry == [at : Time, task : Task]
NoJob == [at |-> 0, task |-> "none"]

TypeOK ==
  /\ clock \in Time /\ taskQueue \in Seq(Entry)
  /\ nThreadsServicingQueue \in Nat
  /\ stopRequested \in BOOLEAN /\ stopWhenEmpty \in BOOLEAN /\ interrupted \in BOOLEAN
  /\ pc \in [Thread -> {"new", "ready", "sleep", "timed", "timeout", "run", "gone"}]
  /\ until \in [Thread -> Time]
  /\ job \in [Thread -> Entry \cup {NoJob}]
  /\ fresh \in SUBSET Task

Empty == taskQueue = <<>>
shouldStop == stopRequested \/ (stopWhenEmpty /\ Empty)
Waiting == {t \in Thread : pc[t] \in {"sleep", "timed"}}

Woken(places, S) == [t \in Thread |-> IF t \in S THEN "ready" ELSE places[t]]

\* Mutants: nobody is told.
NotifyNobody(places) == pc' = places

NotifyOne(places) ==
  IF Waiting = {} THEN pc' = places ELSE \E t \in Waiting : pc' = Woken(places, {t})

NotifyAll(places) == pc' = Woken(places, Waiting)

-----------------------------------------------------------------------------
(* Scheduling. *)

Emplaced(e) ==
  LET n == Cardinality({i \in DOMAIN taskQueue : taskQueue[i].at <= e.at})
  IN  InsertAt(taskQueue, n + 1, e)

schedule(k) ==
  /\ k \in fresh
  /\ fresh' = fresh \ {k}
  /\ \E at \in (IF k \in Repeating THEN {clock + Delta} ELSE clock .. Horizon) :
       at \in Time /\ taskQueue' = Emplaced([at |-> at, task |-> k])
  /\ NotifyOne(pc)
  /\ UNCHANGED <<clock, nThreadsServicingQueue, flags, until, job>>

stop(drain) ==
  /\ IF drain THEN stopWhenEmpty' = TRUE /\ UNCHANGED stopRequested
              ELSE stopRequested' = TRUE /\ UNCHANGED stopWhenEmpty
  /\ NotifyAll(pc)
  /\ UNCHANGED <<clock, taskQueue, nThreadsServicingQueue, interrupted, until, job, fresh>>

\* threadGroup.interrupt_all(): a thread that waits, or comes to wait, throws.
InterruptAll ==
  /\ ~interrupted /\ interrupted' = TRUE
  /\ UNCHANGED <<clock, taskQueue, nThreadsServicingQueue, stopRequested, stopWhenEmpty, pc, until,
                 job, fresh>>

-----------------------------------------------------------------------------
(* serviceQueue. *)

Enter(t) ==
  /\ pc[t] = "new" /\ pc' = [pc EXCEPT ![t] = "ready"]
  /\ nThreadsServicingQueue' = nThreadsServicingQueue + 1
  /\ UNCHANGED <<clock, taskQueue, flags, until, job, fresh>>

Leave(t) ==
  /\ pc[t] = "ready" /\ shouldStop
  /\ nThreadsServicingQueue' = nThreadsServicingQueue - 1
  /\ NotifyOne([pc EXCEPT ![t] = "gone"])
  /\ UNCHANGED <<clock, taskQueue, flags, until, job, fresh>>

\* An interruption thrown out of either wait.
Throw(t) ==
  /\ interrupted /\ (pc[t] = "ready" => ~shouldStop) /\ pc[t] \in {"ready", "sleep", "timed"}
  /\ pc' = [pc EXCEPT ![t] = "gone"]
  /\ nThreadsServicingQueue' = nThreadsServicingQueue - 1
  /\ UNCHANGED <<clock, taskQueue, flags, until, job, fresh>>

Wait(t) ==
  /\ pc[t] = "ready" /\ ~shouldStop /\ ~interrupted
  /\ IF Empty
     THEN pc' = [pc EXCEPT ![t] = "sleep"] /\ UNCHANGED until
     ELSE pc' = [pc EXCEPT ![t] = "timed"] /\ until' = [until EXCEPT ![t] = Head(taskQueue).at]
  /\ UNCHANGED <<clock, taskQueue, nThreadsServicingQueue, flags, job, fresh>>

Timeout(t) ==
  /\ pc[t] = "timed" /\ until[t] <= clock
  /\ pc' = [pc EXCEPT ![t] = "timeout"]
  /\ UNCHANGED <<clock, taskQueue, nThreadsServicingQueue, flags, until, job, fresh>>

SpuriousWake(t) ==
  /\ pc[t] \in {"sleep", "timed"} /\ pc' = [pc EXCEPT ![t] = "ready"]
  /\ UNCHANGED <<clock, taskQueue, nThreadsServicingQueue, flags, until, job, fresh>>

\* The first task of the queue as it is now, which need not be the one waited for.
Take(t) ==
  /\ pc[t] = "timeout"
  /\ IF shouldStop \/ Empty
     THEN pc' = [pc EXCEPT ![t] = "ready"] /\ UNCHANGED <<taskQueue, job>>
     ELSE /\ pc' = [pc EXCEPT ![t] = "run"]
          /\ job' = [job EXCEPT ![t] = Head(taskQueue)]
          /\ taskQueue' = Tail(taskQueue)
  /\ UNCHANGED <<clock, nThreadsServicingQueue, flags, until, fresh>>

\* f() returns.  Repeat schedules the task again; past the horizon it is dropped.
Finish(t) ==
  /\ pc[t] = "run"
  /\ job' = [job EXCEPT ![t] = NoJob]
  /\ IF job[t].task \in Repeating /\ clock + Delta \in Time
     THEN /\ taskQueue' = Emplaced([at |-> clock + Delta, task |-> job[t].task])
          /\ NotifyOne([pc EXCEPT ![t] = "ready"])
     ELSE pc' = [pc EXCEPT ![t] = "ready"] /\ UNCHANGED taskQueue
  /\ UNCHANGED <<clock, nThreadsServicingQueue, flags, until, fresh>>

Tick ==
  /\ clock < Horizon /\ clock' = clock + 1
  /\ UNCHANGED <<taskQueue, nThreadsServicingQueue, flags, pc, until, job, fresh>>

Service(t) ==
  \/ Enter(t)
  \/ Leave(t)
  \/ Throw(t)
  \/ Wait(t)
  \/ Timeout(t)
  \/ Take(t)
  \/ Finish(t)

Init ==
  /\ clock = 0 /\ taskQueue = <<>> /\ nThreadsServicingQueue = 0
  /\ stopRequested = FALSE /\ stopWhenEmpty = FALSE /\ interrupted = FALSE
  /\ pc = [t \in Thread |-> "new"] /\ until = [t \in Thread |-> 0]
  /\ job = [t \in Thread |-> NoJob]
  /\ fresh = Task

Next ==
  \/ \E t \in Thread : Service(t) \/ SpuriousWake(t)
  \/ \E k \in Task : schedule(k)
  \/ \E drain \in BOOLEAN : stop(drain)
  \/ InterruptAll
  \/ Tick

Spec == Init /\ [][Next]_vars

\* Threads keep running, time passes, tasks return, and a wait whose time has come is not woken
\* early for ever.
FairSpec ==
  Spec /\ WF_vars(Tick) /\ \A t \in Thread : WF_vars(Service(t)) /\ SF_vars(Timeout(t))

-----------------------------------------------------------------------------
(* Properties. *)

Servicing == {t \in Thread : pc[t] \notin {"new", "gone"}}

Queued(k) == \E i \in DOMAIN taskQueue : taskQueue[i].task = k
Running(k) == \E t \in Thread : job[t].task = k

\* No wakeup is lost: while a thread is in serviceQueue a queued task is run, unless the scheduler
\* is told to stop without draining.
QueuedRuns ==
  \A k \in Task :
    (Queued(k) /\ Servicing # {}) ~> (Running(k) \/ stopRequested \/ interrupted)

\* stop and interrupt_all end serviceQueue in every thread, however the threads were waiting.
StopEnds == (stopRequested \/ interrupted) ~> (Servicing = {})
=============================================================================
