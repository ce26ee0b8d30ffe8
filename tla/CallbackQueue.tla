---------------------------- MODULE CallbackQueue ----------------------------
(***************************************************************************)
(* The queue of validation callbacks: SingleThreadedSchedulerClient on top *)
(* of CScheduler (a task given to it is run once by some thread, module    *)
(* Scheduler), the callers that wait on the queue, and PrepareShutdown,    *)
(* which stops the threads and then empties the queue itself.              *)
(*                                                                         *)
(* A section under m_cs_callbacks_pending is one action; AddToProcessQueue *)
(* and ProcessQueue take several, and schedule outside of the lock.        *)
(***************************************************************************)
EXTENDS Naturals, Sequences, FiniteSets

CONSTANTS
  Thread,    \* threads in serviceQueue
  Net,       \* callers of ActivateBestChain that CConnman::Stop joins
  Group,     \* callers of ActivateBestChain in threadGroup: ThreadImport, ThreadStakeMinter
  Rpc,       \* HTTP workers, in sendrawtransaction or a call that synchronises
  Shut,      \* the thread in PrepareShutdown
  Limit,     \* the pending callbacks ActivateBestChain tolerates: 10
  Resends,   \* whether sendrawtransaction is called for a transaction that is in the mempool
  MaxCalls   \* bound: calls made by Net, Group and Rpc

Caller == Net \cup Group \cup Rpc
Proc == Thread \cup Caller \cup {Shut}

ASSUME CallbackAssumption ==
  /\ Thread \cap Caller = {} /\ Shut \notin Thread \cup Caller
  /\ Group \cap (Net \cup Rpc) = {}
  /\ "free" \notin Proc
  /\ Limit \in Nat /\ MaxCalls \in Nat /\ Resends \in BOOLEAN

VARIABLES
  m_callbacks_pending, m_are_callbacks_running,
  tasks,     \* ProcessQueue tasks in the scheduler
  added,     \* callbacks added so far; they are numbered
  called,    \* the callbacks called, in order
  done,      \* those that have returned
  pc, ret,   \* where a process is, and where it goes after MaybeScheduleProcessQueue
  cs_main,
  call,      \* what a caller is in: "none", "sync" or "send"
  mark,      \* the callbacks there were when it called
  promise,   \* the callback that will set its promise, 0 if none will
  tx,        \* the transaction being sent: "unknown", in "mempool", in "chain"
  phase, calls

queue == <<m_callbacks_pending, m_are_callbacks_running, added, called, done>>
caller == <<call, mark, promise, tx, calls>>
vars == <<m_callbacks_pending, m_are_callbacks_running, tasks, added, called, done, pc, ret, cs_main,
          call, mark, promise, tx, phase, calls>>

Place == {"serve", "process", "callback", "maybe", "sched", "gone",
          "idle", "sync", "emit", "add", "wait", "returned", "check"}
Phase == {"run", "http", "net", "join", "flush", "empty", "end", "late", "down"}

TypeOK ==
  /\ m_callbacks_pending \in Seq(Nat) /\ m_are_callbacks_running \in BOOLEAN
  /\ tasks \in Nat /\ added \in Nat /\ called \in Seq(Nat) /\ done \in SUBSET Nat
  /\ pc \in [Proc -> Place] /\ ret \in [Proc -> Place]
  /\ cs_main \in Proc \cup {"free"}
  /\ call \in [Caller -> {"none", "sync", "send"}]
  /\ mark \in [Caller -> Nat] /\ promise \in [Caller -> Nat]
  /\ tx \in {"unknown", "mempool", "chain"} /\ phase \in Phase /\ calls \in 0 .. MaxCalls

Empty == m_callbacks_pending = <<>>
Goto(p, place) == pc' = [pc EXCEPT ![p] = place]

-----------------------------------------------------------------------------
(* SingleThreadedSchedulerClient. *)

\* Mutant: new callbacks overtake the pending ones.
EmplaceFront == <<added + 1>> \o m_callbacks_pending

Emplaced == Append(m_callbacks_pending, added + 1)

\* The section of AddToProcessQueue; MaybeScheduleProcessQueue follows.
Emplace(p, next) ==
  /\ m_callbacks_pending' = Emplaced
  /\ added' = added + 1
  /\ Goto(p, "maybe") /\ ret' = [ret EXCEPT ![p] = next]
  /\ UNCHANGED <<m_are_callbacks_running, called, done, tasks>>

\* Mutant: sendrawtransaction waits for its promise in the scope of cs_main.
UnlockedLate(p) == IF cs_main = p /\ ret[p] \notin {"add", "wait"} THEN "free" ELSE cs_main

\* MaybeScheduleProcessQueue is over.  A caller leaves the scope of cs_main, unless it has
\* another callback to add there.
Unlocked(p) == IF cs_main = p /\ ret[p] # "add" THEN "free" ELSE cs_main

Resume(p) == Goto(p, ret[p]) /\ cs_main' = Unlocked(p)

MaybeScheduleProcessQueue(p) ==
  /\ pc[p] = "maybe"
  /\ IF m_are_callbacks_running \/ Empty
     THEN Resume(p)
     ELSE Goto(p, "sched") /\ UNCHANGED cs_main
  /\ UNCHANGED <<queue, tasks, ret, caller, phase>>

Schedule(p) ==
  /\ pc[p] = "sched"
  /\ tasks' = tasks + 1 /\ Resume(p)
  /\ UNCHANGED <<queue, ret, caller, phase>>

Home(p) == IF p = Shut THEN "check" ELSE "serve"

\* Mutant: the flag is not looked at.
ProcessQueueBlind(p) ==
  /\ pc[p] = "process"
  /\ IF Empty
     THEN Goto(p, Home(p)) /\ UNCHANGED queue
     ELSE /\ m_are_callbacks_running' = TRUE
          /\ m_callbacks_pending' = Tail(m_callbacks_pending)
          /\ called' = Append(called, Head(m_callbacks_pending))
          /\ Goto(p, "callback")
          /\ UNCHANGED <<added, done>>
  /\ UNCHANGED <<tasks, ret, cs_main, caller, phase>>

ProcessQueue(p) ==
  /\ pc[p] = "process"
  /\ IF m_are_callbacks_running \/ Empty
     THEN Goto(p, Home(p)) /\ UNCHANGED queue
     ELSE /\ m_are_callbacks_running' = TRUE
          /\ m_callbacks_pending' = Tail(m_callbacks_pending)
          /\ called' = Append(called, Head(m_callbacks_pending))
          /\ Goto(p, "callback")
          /\ UNCHANGED <<added, done>>
  /\ UNCHANGED <<tasks, ret, cs_main, caller, phase>>

\* A callback that is no caller's promise is a validation event: its clients take cs_main.
IsEvent(id) == \A c \in Caller : promise[c] # id

\* Mutant: the destructor does not look for more work.
CallbackReturnsIdle(p) ==
  /\ pc[p] = "callback"
  /\ IsEvent(called[Len(called)]) => cs_main = "free"
  /\ m_are_callbacks_running' = FALSE
  /\ done' = done \cup {called[Len(called)]}
  /\ Goto(p, Home(p)) /\ ret' = [ret EXCEPT ![p] = Home(p)]
  /\ UNCHANGED <<m_callbacks_pending, added, called, tasks, cs_main, caller, phase>>

\* callback() returns; ~RAIICallbacksRunning.
CallbackReturns(p) ==
  /\ pc[p] = "callback"
  /\ IsEvent(called[Len(called)]) => cs_main = "free"
  /\ m_are_callbacks_running' = FALSE
  /\ done' = done \cup {called[Len(called)]}
  /\ Goto(p, "maybe") /\ ret' = [ret EXCEPT ![p] = Home(p)]
  /\ UNCHANGED <<m_callbacks_pending, added, called, tasks, cs_main, caller, phase>>

-----------------------------------------------------------------------------
(* The scheduler's threads. *)

RunTask(t) ==
  /\ pc[t] = "serve" /\ tasks > 0
  /\ tasks' = tasks - 1 /\ Goto(t, "process")
  /\ UNCHANGED <<queue, ret, cs_main, caller, phase>>

\* interrupt_all: the thread throws out of its next wait, whatever is queued.
ThreadExits(t) ==
  /\ pc[t] = "serve" /\ phase = "join"
  /\ Goto(t, "gone")
  /\ UNCHANGED <<queue, tasks, ret, cs_main, caller, phase>>

-----------------------------------------------------------------------------
(* The callers. *)

Begin(c, what) ==
  /\ pc[c] = "idle" /\ calls < MaxCalls
  /\ IF c \in Group THEN phase \in {"run", "http", "net"} ELSE phase = "run"
  /\ calls' = calls + 1 /\ call' = [call EXCEPT ![c] = what]

\* One turn of ActivateBestChain's loop up to its lock on cs_main.
ActivateBestChain(c) ==
  /\ c \in Net \cup Group
  /\ IF Len(m_callbacks_pending) > Limit
     THEN Begin(c, "sync") /\ Goto(c, "sync") /\ mark' = [mark EXCEPT ![c] = added]
     ELSE Begin(c, "none") /\ Goto(c, "emit") /\ UNCHANGED mark
  /\ UNCHANGED <<queue, tasks, ret, cs_main, promise, tx, phase>>

\* BlockConnected, or TransactionAddedToMempool from a peer, signalled in the scope of cs_main.
Emit(c) ==
  /\ pc[c] = "emit" /\ cs_main = "free"
  /\ cs_main' = c /\ Emplace(c, "idle")
  /\ tx' \in {tx, "chain"} \cup (IF tx = "unknown" THEN {"mempool"} ELSE {})
  /\ UNCHANGED <<call, mark, promise, calls, phase>>

\* BlockUntilSyncedToCurrentChain, or the call syncwithvalidationinterfacequeue.
RpcSync(c) ==
  /\ c \in Rpc /\ Begin(c, "sync") /\ Goto(c, "sync") /\ mark' = [mark EXCEPT ![c] = added]
  /\ UNCHANGED <<queue, tasks, ret, cs_main, promise, tx, phase>>

SyncWithValidationInterfaceQueue(c) ==
  /\ pc[c] = "sync"
  /\ Goto(c, IF Empty THEN "returned" ELSE "add")
  /\ UNCHANGED <<queue, tasks, ret, cs_main, caller, phase>>

\* CallFunctionInValidationInterfaceQueue with the function that sets the promise.
CallFunction(c) ==
  /\ pc[c] = "add" /\ Emplace(c, "wait")
  /\ promise' = [promise EXCEPT ![c] = added + 1]
  /\ UNCHANGED <<call, mark, tx, calls, cs_main, phase>>

PromiseSet(c) ==
  /\ pc[c] = "wait" /\ promise[c] # 0 /\ promise[c] \in done
  /\ Goto(c, "returned")
  /\ UNCHANGED <<queue, tasks, ret, cs_main, caller, phase>>

Returned(c) ==
  /\ pc[c] = "returned"
  /\ Goto(c, IF c \in Rpc THEN "idle" ELSE "emit")
  /\ call' = [call EXCEPT ![c] = "none"] /\ mark' = [mark EXCEPT ![c] = 0]
  /\ promise' = [promise EXCEPT ![c] = 0]
  /\ UNCHANGED <<queue, tasks, ret, cs_main, tx, calls, phase>>

\* AcceptToMemoryPool takes the transaction: its TransactionAddedToMempool is added, and in the
\* same scope of cs_main the function that sets the promise.  (One it rejects, or that is in the
\* chain, ends the call with an error.)
SendNew(c) ==
  /\ c \in Rpc /\ tx = "unknown" /\ cs_main = "free"
  /\ Begin(c, "send") /\ tx' = "mempool" /\ cs_main' = c
  /\ Emplace(c, "add") /\ mark' = [mark EXCEPT ![c] = added + 1]
  /\ UNCHANGED <<promise, phase>>

\* In the mempool already: nothing is added, and the promise is waited for.
SendKnown(c) ==
  /\ c \in Rpc /\ Resends /\ tx = "mempool" /\ cs_main = "free"
  /\ Begin(c, "send") /\ Goto(c, "wait") /\ mark' = [mark EXCEPT ![c] = added]
  /\ UNCHANGED <<queue, tasks, ret, cs_main, promise, tx, phase>>

-----------------------------------------------------------------------------
(* PrepareShutdown. *)

Enter(next) == phase' = next /\ UNCHANGED <<queue, tasks, pc, ret, cs_main, caller>>
AllIdle(S) == \A c \in S : pc[c] = "idle"

RequestShutdown == phase = "run" /\ Enter("http")

\* StopHTTPServer joins the workers.
StopHTTPServer == phase = "http" /\ AllIdle(Rpc) /\ Enter("net")

\* CConnman::Stop joins the message handler; then interrupt_all.
StopConnman == phase = "net" /\ AllIdle(Net) /\ Enter("join")

JoinAll ==
  phase = "join" /\ AllIdle(Group) /\ (\A t \in Thread : pc[t] = "gone") /\ Enter("flush")

\* FlushStateToDisk signals SetBestChain, before EmptyQueue and once more after it.
FlushStateToDisk ==
  /\ phase \in {"flush", "end"} /\ pc[Shut] = "idle"
  /\ Emplace(Shut, IF phase = "flush" THEN "process" ELSE "idle")
  /\ phase' = IF phase = "flush" THEN "empty" ELSE "late"
  /\ UNCHANGED <<cs_main, caller>>

\* Mutant: EmptyQueue makes one turn.
EmptyQueueOnce ==
  /\ phase = "empty" /\ pc[Shut] = "check"
  /\ Goto(Shut, "idle") /\ phase' = "end"
  /\ UNCHANGED <<queue, tasks, ret, cs_main, caller>>

\* The end of a turn of EmptyQueue's loop around ProcessQueue.
EmptyQueue ==
  /\ phase = "empty" /\ pc[Shut] = "check"
  /\ IF Empty THEN Goto(Shut, "idle") /\ phase' = "end" ELSE Goto(Shut, "process") /\ UNCHANGED phase
  /\ UNCHANGED <<queue, tasks, ret, cs_main, caller>>

UnregisterBackgroundSignalScheduler == phase = "late" /\ pc[Shut] = "idle" /\ Enter("down")

-----------------------------------------------------------------------------
Client(p) ==
  \/ MaybeScheduleProcessQueue(p)
  \/ Schedule(p)
  \/ ProcessQueue(p)
  \/ CallbackReturns(p)

Continue(c) ==
  \/ Emit(c)
  \/ SyncWithValidationInterfaceQueue(c)
  \/ CallFunction(c)
  \/ PromiseSet(c)
  \/ Returned(c)

Shutdown ==
  \/ StopHTTPServer
  \/ StopConnman
  \/ JoinAll
  \/ FlushStateToDisk
  \/ EmptyQueue
  \/ UnregisterBackgroundSignalScheduler

Init ==
  /\ m_callbacks_pending = <<>> /\ m_are_callbacks_running = FALSE /\ tasks = 0
  /\ added = 0 /\ called = <<>> /\ done = {}
  /\ pc = [p \in Proc |-> IF p \in Thread THEN "serve" ELSE "idle"]
  /\ ret = [p \in Proc |-> "idle"]
  /\ cs_main = "free"
  /\ call = [c \in Caller |-> "none"] /\ mark = [c \in Caller |-> 0]
  /\ promise = [c \in Caller |-> 0]
  /\ tx = "unknown" /\ phase = "run" /\ calls = 0

Next ==
  \/ \E p \in Proc : Client(p)
  \/ \E t \in Thread : RunTask(t) \/ ThreadExits(t)
  \/ \E c \in Caller : \/ ActivateBestChain(c)
                       \/ RpcSync(c)
                       \/ SendNew(c)
                       \/ SendKnown(c)
                       \/ Continue(c)
  \/ RequestShutdown
  \/ Shutdown

Spec == Init /\ [][Next]_vars

\* Every thread that can go on does.  New calls and the request to shut down need not come.
FairSpec ==
  /\ Spec
  /\ \A t \in Thread : WF_vars(Client(t) \/ RunTask(t) \/ ThreadExits(t))
  /\ \A c \in Caller : WF_vars(Client(c) \/ Continue(c))
  /\ WF_vars(Client(Shut) \/ Shutdown)

-----------------------------------------------------------------------------
(* Properties. *)

\* AddToProcessQueue: whatever threads run them, callbacks are called one at a time and in the
\* order in which they were added.
Serial ==
  INSTANCE SerialQueue WITH started <- Len(called), busy <- m_are_callbacks_running

SerialSpec == Serial!Spec

\* Callbacks are called in the order of their numbers, and each of them once.
InOrder == \A i \in 1 .. Len(called) : called[i] = i

\* "no two jobs will be executed at the same time" (scheduler.h).
OneAtATime == \A p, q \in Proc : pc[p] = "callback" /\ pc[q] = "callback" => p = q

\* MaybeScheduleProcessQueue schedules nothing when a callback is running, and outside of the lock:
\* even so, pending callbacks always have a task or a process that will see to them.
NoneStranded ==
  ~Empty /\ ~m_are_callbacks_running =>
    tasks > 0 \/ \E p \in Proc : pc[p] \in {"maybe", "sched", "process", "check"}

CaughtUp(c) == 1 .. mark[c] \subseteq done

\* sendrawtransaction: "ensure that the wallet has been made aware of the new transaction prior to
\* returning".
SendCaughtUp == \A c \in Caller : pc[c] = "returned" /\ call[c] = "send" => CaughtUp(c)

\* SyncWithValidationInterfaceQueue: every callback generated before the call has been called.  It
\* need not be finished: CallbacksPending, and so the early return, does not count the one running.
SyncCalled == \A c \in Caller : pc[c] = "returned" => mark[c] <= Len(called)

\* EmptyQueue runs callbacks on the shutdown thread and asserts that no scheduler thread is left.
EmptyQueueAlone == phase = "empty" => \A t \in Thread : pc[t] = "gone"

\* FlushBackgroundCallbacks leaves no callback behind, the SetBestChain of the flush before it
\* included: the wallet has caught up when the databases are closed.
AllDelivered == phase = "end" => done = 1 .. added

\* Every callback is delivered in the end; only the last flush, after EmptyQueue, is dropped.
Delivered == (done # 1 .. added) ~> (done = 1 .. added \/ phase \in {"late", "down"})

\* sendrawtransaction waits for a promise that no callback will set.
Forgotten(c) == pc[c] = "wait" /\ promise[c] = 0

\* A call that waits for the queue returns, if it did queue the function it waits for.
CallsReturn ==
  \A c \in Caller :
    (pc[c] \in {"sync", "wait"} /\ ~Forgotten(c)) ~> (pc[c] \notin {"sync", "wait"})

\* sendrawtransaction returns the hash of the transaction.
SendReturns == \A c \in Rpc : (call[c] = "send") ~> (call[c] = "none")

\* Shutdown gets to the flush of the callbacks, unless it waits for a forgotten caller.
FlushReached == (phase = "http") ~> (phase = "end" \/ \E c \in Caller : Forgotten(c))
==============================================================================
