------------------------- MODULE CallbackQueueProofs -------------------------
(***************************************************************************)
(* Proofs about CallbackQueue for any sets of threads and callers.  The    *)
(* invariant comes in layers, each proved from the ones below: types; who  *)
(* is calling a callback; the numbers of the callbacks called, pending and *)
(* done; what a waiting caller knows; how far the shutdown is.             *)
(***************************************************************************)
EXTENDS CallbackQueue, Integers, TLAPS

Back == {"idle", "add", "wait", "process", "serve", "check"}

Types == TypeOK /\ \A p \in Proc : ret[p] \in Back

\* A process in a callback is in one that has been called.
InCallback == \A p \in Proc : pc[p] = "callback" => called # <<>>

Typing == Types /\ InCallback

\* The flag tells whether some process, then only one, is in a callback.
Turn ==
  /\ \A p \in Proc : pc[p] = "callback" => m_are_callbacks_running
  /\ m_are_callbacks_running => \E p \in Proc : pc[p] = "callback"
  /\ OneAtATime

\* The callbacks called and the pending ones are all the callbacks, in order.
Numbers ==
  /\ Len(called) + Len(m_callbacks_pending) = added
  /\ InOrder
  /\ \A i \in 1 .. Len(m_callbacks_pending) : m_callbacks_pending[i] = Len(called) + i

\* Those that have been called have returned, but for the one that is running.
Returns ==
  /\ ~m_are_callbacks_running => done = 1 .. Len(called)
  /\ m_are_callbacks_running => Len(called) > 0 /\ done = 1 .. (Len(called) - 1)

\* A promise comes after everything its caller has to see.
Holding(c) == pc[c] \in {"maybe", "sched", "wait", "returned"} /\ ret[c] = "wait"

Knows(c) ==
  /\ mark[c] <= added
  /\ promise[c] # 0 => mark[c] < promise[c] /\ Holding(c)
  /\ pc[c] = "sync" => call[c] = "sync"
  /\ pc[c] = "returned" => mark[c] <= Len(called)
  /\ pc[c] = "returned" /\ call[c] = "send" => promise[c] # 0 /\ promise[c] \in done

Promises == \A c \in Caller : Knows(c)

-----------------------------------------------------------------------------
\* The order on the callbacks' numbers.
LEMMA Order ==
  /\ \A a \in Nat : a <= a /\ 0 <= a /\ a <= a + 1 /\ a \in Int /\ a - 1 \in Int
  /\ \A a, b, c \in Nat : a <= b /\ b <= c => a <= c
OBVIOUS

LEMMA TypingInit == Init => Typing
<1> SUFFICES ASSUME Init PROVE Typing
  BY Zenon
<1>1. pc \in [Proc -> Place] /\ \A p \in Proc : ret[p] \in Back /\ pc[p] # "callback"
  BY Zenon DEF Init, Place, Back
<1>2. ret \in [Proc -> Place]
  BY Zenon DEF Init, Place
<1>3. m_callbacks_pending \in Seq(Nat) /\ called \in Seq(Nat) /\ done \in SUBSET Nat
  BY DEF Init
<1>4. calls \in 0 .. MaxCalls
  BY CallbackAssumption DEF CallbackAssumption, Init
<1> QED
  BY Zenon, <1>1, <1>2, <1>3, <1>4 DEF Init, Typing, Types, InCallback, TypeOK, Phase

LEMMA BeginTypes ==
  ASSUME TypeOK, NEW c \in Caller, NEW what \in {"none", "sync", "send"}, Begin(c, what)
  PROVE  calls' \in 0 .. MaxCalls /\ call' \in [Caller -> {"none", "sync", "send"}]
<1>1. calls' \in 0 .. MaxCalls
  BY CallbackAssumption DEF CallbackAssumption, Begin, TypeOK
<1>2. call' \in [Caller -> {"none", "sync", "send"}]
  BY Zenon DEF Begin, TypeOK
<1> QED
  BY Zenon, <1>1, <1>2

LEMMA TypesNext == Typing /\ [Next]_vars => Types'
<1> SUFFICES ASSUME Typing, [Next]_vars PROVE Types'
  BY Zenon
<1> Types
  BY Zenon DEF Typing
<1> USE CallbackAssumption DEF CallbackAssumption, Types, TypeOK, Place, Phase, Back, Goto, queue,
        caller
<1>1. ASSUME NEW p \in Proc, MaybeScheduleProcessQueue(p) PROVE Types'
  <2>1. pc' \in [Proc -> Place] /\ cs_main' \in Proc \cup {"free"}
    BY Zenon, <1>1 DEF MaybeScheduleProcessQueue, Resume, Unlocked
  <2>2. UNCHANGED <<queue, tasks, ret, caller, phase>>
    BY Zenon, <1>1 DEF MaybeScheduleProcessQueue
  <2> QED
    BY Zenon, <2>1, <2>2
<1>2. ASSUME NEW p \in Proc, Schedule(p) PROVE Types'
  <2>1. pc' \in [Proc -> Place] /\ cs_main' \in Proc \cup {"free"}
    BY Zenon, <1>2 DEF Schedule, Resume, Unlocked
  <2>2. tasks' \in Nat /\ UNCHANGED <<queue, ret, caller, phase>>
    BY <1>2 DEF Schedule
  <2> QED
    BY Zenon, <2>1, <2>2
<1>3. ASSUME NEW p \in Proc, ProcessQueue(p) PROVE Types'
  <2>1. pc' \in [Proc -> Place] /\ m_are_callbacks_running' \in BOOLEAN
    BY Zenon, <1>3 DEF ProcessQueue, Home
  <2>2. m_callbacks_pending' \in Seq(Nat) /\ called' \in Seq(Nat)
    <3>1. CASE UNCHANGED queue
      BY Zenon, <3>1
    <3>2. CASE ~Empty /\ m_callbacks_pending' = Tail(m_callbacks_pending)
               /\ called' = Append(called, Head(m_callbacks_pending))
      BY <3>2 DEF Empty
    <3> QED
      BY Zenon, <1>3, <3>1, <3>2 DEF ProcessQueue
  <2>3. UNCHANGED <<added, done, tasks, ret, cs_main, caller, phase>>
    BY Zenon, <1>3 DEF ProcessQueue
  <2> QED
    BY Zenon, <2>1, <2>2, <2>3
<1>4. ASSUME NEW p \in Proc, CallbackReturns(p) PROVE Types'
  <2>1. pc' \in [Proc -> Place] /\ ret' \in [Proc -> Place] /\ \A q \in Proc : ret'[q] \in Back
    BY Zenon, <1>4 DEF CallbackReturns, Home
  <2>2. m_are_callbacks_running' \in BOOLEAN /\ done' \in SUBSET Nat
    <3>1. called[Len(called)] \in Nat
      BY <1>4 DEF CallbackReturns, Typing, InCallback
    <3> QED
      BY Zenon, <1>4, <3>1 DEF CallbackReturns
  <2>3. UNCHANGED <<m_callbacks_pending, added, called, tasks, cs_main, caller, phase>>
    BY Zenon, <1>4 DEF CallbackReturns
  <2> QED
    BY Zenon, <2>1, <2>2, <2>3
<1>5. ASSUME NEW t \in Thread, RunTask(t) \/ ThreadExits(t) PROVE Types'
  <2>1. t \in Proc
    BY Zenon DEF Proc
  <2>2. tasks' \in Nat /\ pc' \in [Proc -> Place]
    <3>1. CASE RunTask(t)
      BY <2>1, <3>1 DEF RunTask
    <3>2. CASE ThreadExits(t)
      BY Zenon, <2>1, <3>2 DEF ThreadExits
    <3> QED
      BY Zenon, <1>5, <3>1, <3>2
  <2>3. UNCHANGED <<queue, ret, cs_main, caller, phase>>
    BY Zenon, <1>5 DEF RunTask, ThreadExits
  <2> QED
    BY Zenon, <2>2, <2>3
<1>6. ASSUME NEW c \in Caller, ActivateBestChain(c) \/ RpcSync(c) \/ SendKnown(c) PROVE Types'
  <2>1. c \in Proc
    BY Zenon DEF Proc
  <2>2. pc' \in [Proc -> Place] /\ mark' \in [Caller -> Nat]
    <3>1. \E place \in Place : pc' = [pc EXCEPT ![c] = place]
      BY Zenon, <1>6 DEF ActivateBestChain, RpcSync, SendKnown
    <3>2. mark' = mark \/ mark' = [mark EXCEPT ![c] = added]
      BY Zenon, <1>6 DEF ActivateBestChain, RpcSync, SendKnown
    <3>3. pc' \in [Proc -> Place]
      BY Zenon, <2>1, <3>1
    <3>4. mark' \in [Caller -> Nat]
      BY Zenon, <3>2
    <3> QED
      BY Zenon, <3>3, <3>4
  <2>3. calls' \in 0 .. MaxCalls /\ call' \in [Caller -> {"none", "sync", "send"}]
    <3>1. Begin(c, "none") \/ Begin(c, "sync") \/ Begin(c, "send")
      BY Zenon, <1>6 DEF ActivateBestChain, RpcSync, SendKnown
    <3> QED
      BY Zenon, <3>1, BeginTypes
  <2>4. UNCHANGED <<queue, tasks, ret, cs_main, promise, tx, phase>>
    BY Zenon, <1>6 DEF ActivateBestChain, RpcSync, SendKnown
  <2> QED
    BY Zenon, <2>2, <2>3, <2>4
<1>7. ASSUME NEW c \in Caller, SendNew(c) PROVE Types'
  BY <1>7 DEF SendNew, Begin, Emplace, Emplaced, Proc
<1>8. ASSUME NEW c \in Caller, Emit(c) PROVE Types'
  BY <1>8 DEF Emit, Emplace, Emplaced, Proc
<1>9. ASSUME NEW c \in Caller, CallFunction(c) PROVE Types'
  BY <1>9 DEF CallFunction, Emplace, Emplaced, Proc
<1>10. ASSUME NEW c \in Caller,
              SyncWithValidationInterfaceQueue(c) \/ PromiseSet(c) \/ Returned(c)
       PROVE Types'
  <2>1. CASE SyncWithValidationInterfaceQueue(c) \/ PromiseSet(c)
    <3>1. \E place \in Place : pc' = [pc EXCEPT ![c] = place]
      BY Zenon, <2>1 DEF SyncWithValidationInterfaceQueue, PromiseSet
    <3>2. pc' \in [Proc -> Place]
      BY Zenon, <3>1 DEF Proc
    <3>3. UNCHANGED <<queue, tasks, ret, cs_main, caller, phase>>
      BY Zenon, <2>1 DEF SyncWithValidationInterfaceQueue, PromiseSet
    <3> QED
      BY Zenon, <3>2, <3>3
  <2>2. CASE Returned(c)
    BY Zenon, <2>2 DEF Returned, Proc
  <2> QED
    BY Zenon, <1>10, <2>1, <2>2
<1>11. CASE RequestShutdown \/ StopHTTPServer \/ StopConnman \/ JoinAll
            \/ UnregisterBackgroundSignalScheduler
  BY Zenon, <1>11 DEF RequestShutdown, StopHTTPServer, StopConnman, JoinAll,
               UnregisterBackgroundSignalScheduler, Enter
<1>12. CASE FlushStateToDisk
  BY <1>12 DEF FlushStateToDisk, Emplace, Emplaced, Proc
<1>13. CASE EmptyQueue
  BY Zenon, <1>13 DEF EmptyQueue, Proc
<1>14. CASE UNCHANGED vars
  BY Zenon, <1>14 DEF vars
<1> QED
  BY Zenon, <1>1, <1>2, <1>3, <1>4, <1>5, <1>6, <1>7, <1>8, <1>9, <1>10, <1>11, <1>12, <1>13, <1>14
  DEF Next, Client, Continue, Shutdown

\* Only ProcessQueue takes a process into a callback.
LEMMA EntersCallback ==
  ASSUME Types, [Next]_vars, NEW q \in Proc, pc'[q] = "callback"
  PROVE  pc[q] = "callback" \/ ProcessQueue(q)
<1> USE CallbackAssumption DEF CallbackAssumption, Types, TypeOK, Back, Goto
<1>1. ASSUME NEW p \in Proc, Client(p) PROVE pc[q] = "callback" \/ ProcessQueue(q)
  BY Zenon, <1>1 DEF Client, MaybeScheduleProcessQueue, Schedule, Resume, ProcessQueue, CallbackReturns, Home
<1>2. ASSUME NEW t \in Thread, RunTask(t) \/ ThreadExits(t) PROVE pc[q] = "callback"
  BY Zenon, <1>2 DEF RunTask, ThreadExits, Proc
<1>3. ASSUME NEW c \in Caller, ActivateBestChain(c) \/ RpcSync(c) \/ SendKnown(c) \/ SendNew(c)
      PROVE  pc[q] = "callback"
  BY Zenon, <1>3 DEF ActivateBestChain, RpcSync, SendKnown, SendNew, Emplace, Proc
<1>4. ASSUME NEW c \in Caller, Continue(c) PROVE pc[q] = "callback"
  BY Zenon, <1>4 DEF Continue, Emit, SyncWithValidationInterfaceQueue, CallFunction, PromiseSet, Returned,
              Emplace, Proc
<1>5. CASE RequestShutdown \/ Shutdown
  BY Zenon, <1>5 DEF RequestShutdown, Shutdown, StopHTTPServer, StopConnman, JoinAll, FlushStateToDisk,
              EmptyQueue, UnregisterBackgroundSignalScheduler, Enter, Emplace, Proc
<1>6. CASE UNCHANGED vars
  BY Zenon, <1>6 DEF vars
<1> QED
  BY Zenon, <1>1, <1>2, <1>3, <1>4, <1>5, <1>6 DEF Next

\* A callback is added, and its process goes on to MaybeScheduleProcessQueue.
Adds(p) ==
  /\ m_callbacks_pending' = Append(m_callbacks_pending, added + 1) /\ added' = added + 1
  /\ pc'[p] = "maybe"
  /\ UNCHANGED <<m_are_callbacks_running, called, done>>

\* The steps that change the queue.
LEMMA QueueSteps ==
  ASSUME Types, [Next]_vars
  PROVE  \/ UNCHANGED queue
         \/ \E p \in Proc : Adds(p)
         \/ \E p \in Proc : ProcessQueue(p)
         \/ \E p \in Proc : CallbackReturns(p)
<1> USE DEF queue
<1>1. ASSUME NEW p \in Proc, Client(p)
      PROVE  UNCHANGED queue \/ ProcessQueue(p) \/ CallbackReturns(p)
  BY Zenon, <1>1 DEF Client, MaybeScheduleProcessQueue, Schedule
<1>2. ASSUME NEW t \in Thread, RunTask(t) \/ ThreadExits(t) PROVE UNCHANGED queue
  BY Zenon, <1>2 DEF RunTask, ThreadExits
<1>3. ASSUME NEW c \in Caller, ActivateBestChain(c) \/ RpcSync(c) \/ SendKnown(c)
      PROVE  UNCHANGED queue
  BY Zenon, <1>3 DEF ActivateBestChain, RpcSync, SendKnown
<1>4. ASSUME NEW p \in Proc, NEW next, Emplace(p, next) PROVE Adds(p)
  BY Zenon, <1>4 DEF Emplace, Emplaced, Goto, Adds, Types, TypeOK
<1>5. ASSUME NEW c \in Caller, SendNew(c) PROVE \E p \in Proc : Adds(p)
  BY Zenon, <1>4, <1>5 DEF SendNew, Proc
<1>6. ASSUME NEW c \in Caller, Continue(c) PROVE UNCHANGED queue \/ \E p \in Proc : Adds(p)
  BY Zenon, <1>4, <1>6 DEF Continue, Emit, SyncWithValidationInterfaceQueue, CallFunction, PromiseSet,
                    Returned, Proc
<1>7. CASE RequestShutdown \/ Shutdown
  BY Zenon, <1>4, <1>7 DEF RequestShutdown, Shutdown, StopHTTPServer, StopConnman, JoinAll,
                    FlushStateToDisk, EmptyQueue, UnregisterBackgroundSignalScheduler, Enter, Proc
<1>8. CASE UNCHANGED vars
  BY Zenon, <1>8 DEF vars
<1> QED
  BY Zenon, <1>1, <1>2, <1>3, <1>5, <1>6, <1>7, <1>8 DEF Next

\* The callbacks called are only added to, by ProcessQueue.
LEMMA CalledGrows ==
  ASSUME Types, [Next]_vars
  PROVE  UNCHANGED called \/ \E p \in Proc : ProcessQueue(p)
BY Zenon, QueueSteps DEF queue, Adds, CallbackReturns

LEMMA TypingNext == Typing /\ [Next]_vars => Typing'
<1> SUFFICES ASSUME Typing, [Next]_vars PROVE InCallback'
  BY Zenon, TypesNext DEF Typing
<1>1. ASSUME NEW q \in Proc, pc'[q] = "callback" PROVE called' # <<>>
  <2>1. CASE \E p \in Proc : ProcessQueue(p)
    <3>1. PICK p \in Proc : ProcessQueue(p)
      BY Zenon, <2>1
    <3>2. called \in Seq(Nat) /\ m_callbacks_pending \in Seq(Nat)
      BY Zenon DEF Typing, Types, TypeOK
    <3>3. CASE m_are_callbacks_running \/ Empty
      <4>1. pc[q] = "callback" /\ called' = called
        BY Zenon, <1>1, <3>1, <3>3 DEF ProcessQueue, Goto, Home, queue, Typing, Types, TypeOK
      <4> QED
        BY Zenon, <4>1 DEF Typing, InCallback
    <3>4. CASE ~(m_are_callbacks_running \/ Empty)
      <4>1. called' = Append(called, Head(m_callbacks_pending)) /\ m_callbacks_pending # <<>>
        BY Zenon, <3>1, <3>4 DEF ProcessQueue, Empty
      <4> QED
        BY <3>2, <4>1
    <3> QED
      BY Zenon, <3>3, <3>4
  <2>2. CASE ~(\E p \in Proc : ProcessQueue(p))
    <3>1. pc[q] = "callback" /\ called' = called
      BY Zenon, <1>1, <2>2, EntersCallback, CalledGrows DEF Typing
    <3> QED
      BY Zenon, <3>1 DEF Typing, InCallback
  <2> QED
    BY Zenon, <2>1, <2>2
<1> QED
  BY Zenon, <1>1 DEF InCallback

\* Every state has the types the code's variables have.
THEOREM TypeCorrect == Spec => []TypeOK
<1>1. Typing => TypeOK
  BY Zenon DEF Typing, Types
<1> QED
  BY <1>1, TypingInit, TypingNext, PTL DEF Spec

-----------------------------------------------------------------------------
(* Who is in a callback. *)

\* Only the return of the callback takes a process out of it.
LEMMA LeavesCallback ==
  ASSUME Types, [Next]_vars, NEW q \in Proc, pc[q] = "callback"
  PROVE  pc'[q] = "callback" \/ CallbackReturns(q)
<1> USE CallbackAssumption DEF CallbackAssumption, Types, TypeOK, Back, Goto
<1>1. ASSUME NEW p \in Proc, Client(p) PROVE pc'[q] = "callback" \/ CallbackReturns(q)
  BY Zenon, <1>1 DEF Client, MaybeScheduleProcessQueue, Schedule, Resume, ProcessQueue, CallbackReturns, Home
<1>2. ASSUME NEW t \in Thread, RunTask(t) \/ ThreadExits(t) PROVE pc'[q] = "callback"
  BY Zenon, <1>2 DEF RunTask, ThreadExits, Proc
<1>3. ASSUME NEW c \in Caller, ActivateBestChain(c) \/ RpcSync(c) \/ SendKnown(c) \/ SendNew(c)
      PROVE  pc'[q] = "callback"
  BY Zenon, <1>3 DEF ActivateBestChain, RpcSync, SendKnown, SendNew, Begin, Emplace, Proc
<1>4. ASSUME NEW c \in Caller, Continue(c) PROVE pc'[q] = "callback"
  BY Zenon, <1>4 DEF Continue, Emit, SyncWithValidationInterfaceQueue, CallFunction, PromiseSet, Returned,
              Emplace, Proc
<1>5. CASE RequestShutdown \/ Shutdown
  BY Zenon, <1>5 DEF RequestShutdown, Shutdown, StopHTTPServer, StopConnman, JoinAll, FlushStateToDisk,
              EmptyQueue, UnregisterBackgroundSignalScheduler, Enter, Emplace, Proc
<1>6. CASE UNCHANGED vars
  BY Zenon, <1>6 DEF vars
<1> QED
  BY Zenon, <1>1, <1>2, <1>3, <1>4, <1>5, <1>6 DEF Next

LEMMA TurnNext ==
  ASSUME Typing, Turn, [Next]_vars
  PROVE  Turn'
<1> Types
  BY Zenon DEF Typing
<1>1. CASE UNCHANGED m_are_callbacks_running
           /\ \A q \in Proc : pc'[q] = "callback" <=> pc[q] = "callback"
  BY Zenon, <1>1 DEF Turn, OneAtATime
<1>2. ASSUME NEW p \in Proc, ProcessQueue(p) PROVE Turn'
  <2>1. CASE m_are_callbacks_running \/ Empty
    <3>1. \A q \in Proc : pc'[q] = "callback" <=> pc[q] = "callback"
      BY Zenon, <1>2, <2>1 DEF ProcessQueue, Goto, Home, Types, TypeOK
    <3> QED
      BY Zenon, <1>1, <1>2, <2>1, <3>1 DEF ProcessQueue, queue
  <2>2. CASE ~(m_are_callbacks_running \/ Empty)
    <3>1. \A q \in Proc : pc[q] # "callback"
      BY Zenon, <2>2 DEF Turn
    <3>2. \A q \in Proc : pc'[q] = "callback" <=> q = p
      BY Zenon, <1>2, <2>2, <3>1 DEF ProcessQueue, Goto, Types, TypeOK
    <3> QED
      BY Zenon, <1>2, <2>2, <3>2 DEF ProcessQueue, Turn, OneAtATime
  <2> QED
    BY Zenon, <2>1, <2>2
<1>3. ASSUME NEW p \in Proc, CallbackReturns(p) PROVE Turn'
  <2>1. \A q \in Proc : pc'[q] # "callback"
    BY Zenon, <1>3 DEF CallbackReturns, Goto, Turn, OneAtATime, Types, TypeOK
  <2> QED
    BY Zenon, <1>3, <2>1 DEF CallbackReturns, Turn, OneAtATime
<1>4. CASE ~(\E p \in Proc : ProcessQueue(p) \/ CallbackReturns(p))
  <2>1. UNCHANGED m_are_callbacks_running
    BY Zenon, <1>4, QueueSteps DEF queue, Adds
  <2>2. \A q \in Proc : pc'[q] = "callback" <=> pc[q] = "callback"
    BY Zenon, <1>4, EntersCallback, LeavesCallback
  <2> QED
    BY Zenon, <1>1, <2>1, <2>2
<1> QED
  BY Zenon, <1>2, <1>3, <1>4

-----------------------------------------------------------------------------
(* The callbacks called, pending and done. *)

LEMMA NumbersNext ==
  ASSUME Typing, Turn, Numbers, Returns, [Next]_vars
  PROVE  Numbers' /\ Returns'
<1> Types
  BY Zenon DEF Typing
<1> USE DEF Numbers, Returns, InOrder
<1>0. /\ m_callbacks_pending \in Seq(Nat) /\ called \in Seq(Nat) /\ added \in Nat
      /\ m_are_callbacks_running \in BOOLEAN
  BY Zenon DEF Types, TypeOK
<1>1. CASE UNCHANGED queue
  BY Zenon, <1>1 DEF queue
<1>2. ASSUME NEW p \in Proc, Adds(p) PROVE Numbers' /\ Returns'
  <2>1. Len(m_callbacks_pending') = Len(m_callbacks_pending) + 1 /\ added' = added + 1
    BY <1>0, <1>2 DEF Adds
  <2>2. \A i \in 1 .. Len(m_callbacks_pending') : m_callbacks_pending'[i] = Len(called) + i
    BY <1>0, <1>2, <2>1 DEF Adds
  <2>3. UNCHANGED <<called, done, m_are_callbacks_running>>
    BY Zenon, <1>2 DEF Adds
  <2> QED
    BY <1>0, <2>1, <2>2, <2>3
<1>3. ASSUME NEW p \in Proc, ProcessQueue(p) PROVE Numbers' /\ Returns'
  <2>1. CASE m_are_callbacks_running \/ Empty
    BY Zenon, <1>1, <1>3, <2>1 DEF ProcessQueue
  <2>2. CASE ~(m_are_callbacks_running \/ Empty)
    <3>1. m_callbacks_pending # <<>> /\ ~m_are_callbacks_running
      BY Zenon, <2>2 DEF Empty
    <3>2. /\ m_are_callbacks_running' = TRUE
          /\ m_callbacks_pending' = Tail(m_callbacks_pending)
          /\ called' = Append(called, Head(m_callbacks_pending))
          /\ UNCHANGED <<added, done>>
      BY Zenon, <1>3, <2>2 DEF ProcessQueue
    <3>3. Head(m_callbacks_pending) = Len(called) + 1 /\ Len(m_callbacks_pending) > 0
      BY <1>0, <3>1
    <3>4. /\ Len(called') = Len(called) + 1
          /\ Len(m_callbacks_pending') = Len(m_callbacks_pending) - 1
      BY <1>0, <3>1, <3>2
    <3>5. \A i \in 1 .. Len(called') : called'[i] = i
      BY <1>0, <3>2, <3>3, <3>4
    <3>6. \A i \in 1 .. Len(m_callbacks_pending') : m_callbacks_pending'[i] = Len(called') + i
      <4>1. \A i \in 1 .. Len(m_callbacks_pending') :
              m_callbacks_pending'[i] = m_callbacks_pending[i + 1]
        BY <1>0, <3>1, <3>2, <3>4
      <4>2. \A i \in 1 .. Len(m_callbacks_pending') :
              i + 1 \in 1 .. Len(m_callbacks_pending)
        BY <1>0, <3>4
      <4> QED
        BY <1>0, <3>4, <4>1, <4>2
    <3>7. Returns'
      <4>1. done = 1 .. Len(called) /\ Len(called) = Len(called') - 1 /\ Len(called') > 0
        BY <1>0, <3>1, <3>4
      <4> QED
        BY Zenon, <3>2, <4>1
    <3>8. Len(called') + Len(m_callbacks_pending') = added'
      <4>1. Len(called) \in Nat /\ Len(m_callbacks_pending) \in Nat /\ added' = added
        BY <1>0, <3>2
      <4>2. Len(called) + Len(m_callbacks_pending) = added
        BY Zenon
      <4> HIDE DEF Numbers, Returns, InOrder
      <4> QED
        BY <3>4, <4>1, <4>2
    <3> HIDE DEF Returns
    <3> QED
      BY Zenon, <3>5, <3>6, <3>7, <3>8
  <2> QED
    BY Zenon, <2>1, <2>2
<1>4. ASSUME NEW p \in Proc, CallbackReturns(p) PROVE Numbers' /\ Returns'
  <2>1. m_are_callbacks_running /\ Len(called) > 0 /\ done = 1 .. (Len(called) - 1)
    BY Zenon, <1>4 DEF CallbackReturns, Turn
  <2>2. /\ m_are_callbacks_running' = FALSE /\ done' = done \cup {called[Len(called)]}
        /\ UNCHANGED <<m_callbacks_pending, added, called>>
    BY Zenon, <1>4 DEF CallbackReturns
  <2>3. called[Len(called)] = Len(called)
    BY <1>0, <2>1
  <2>4. done' = 1 .. Len(called)
    BY <1>0, <2>1, <2>2, <2>3
  <2> QED
    BY Zenon, <2>2, <2>4
<1> QED
  BY Zenon, <1>1, <1>2, <1>3, <1>4, QueueSteps

-----------------------------------------------------------------------------
(* Pending callbacks are seen to. *)

LEMMA StrandedNext ==
  ASSUME Typing, NoneStranded, [Next]_vars
  PROVE  NoneStranded'
<1> Types
  BY Zenon DEF Typing
<1> DEFINE Sees(q) == pc[q] \in {"maybe", "sched", "process", "check"}
<1> USE DEF NoneStranded, Types, TypeOK, Goto, Empty, queue
<1>1. ASSUME NEW p \in Proc, MaybeScheduleProcessQueue(p) PROVE NoneStranded'
  BY Zenon, <1>1 DEF MaybeScheduleProcessQueue
<1>2. ASSUME NEW p \in Proc, Schedule(p) PROVE NoneStranded'
  BY <1>2 DEF Schedule
<1>3. ASSUME NEW p \in Proc, ProcessQueue(p) PROVE NoneStranded'
  BY Zenon, <1>3 DEF ProcessQueue
<1>4. ASSUME NEW p \in Proc, CallbackReturns(p) PROVE NoneStranded'
  <2>1. pc'[p] = "maybe"
    BY Zenon, <1>4 DEF CallbackReturns
  <2> QED
    BY Zenon, <2>1
<1>5. ASSUME NEW p \in Proc, Adds(p) PROVE NoneStranded'
  BY Zenon, <1>5 DEF Adds
<1>6. ASSUME NEW t \in Thread, RunTask(t) PROVE NoneStranded'
  <2>1. t \in Proc /\ pc'[t] = "process"
    BY Zenon, <1>6 DEF RunTask, Proc
  <2> QED
    BY Zenon, <2>1
<1>7. CASE /\ UNCHANGED queue
           /\ tasks' = tasks
           /\ \A q \in Proc : Sees(q) => Sees(q)'
  BY Zenon, <1>7
<1>8. ASSUME NEW t \in Thread, ThreadExits(t) PROVE NoneStranded'
  <2>1. \A q \in Proc : Sees(q) => Sees(q)'
    BY Zenon, <1>8 DEF ThreadExits, Proc
  <2> QED
    BY Zenon, <1>7, <1>8, <2>1 DEF ThreadExits
<1>9. ASSUME NEW c \in Caller,
             \/ ActivateBestChain(c) \/ RpcSync(c) \/ SendKnown(c)
             \/ SyncWithValidationInterfaceQueue(c) \/ PromiseSet(c) \/ Returned(c)
      PROVE  NoneStranded'
  <2>1. \A q \in Proc : Sees(q) => Sees(q)'
    BY Zenon, <1>9 DEF ActivateBestChain, RpcSync, SendKnown, Begin, SyncWithValidationInterfaceQueue,
                PromiseSet, Returned, Proc
  <2>2. UNCHANGED queue /\ tasks' = tasks
    BY Zenon, <1>9 DEF ActivateBestChain, RpcSync, SendKnown, SyncWithValidationInterfaceQueue, PromiseSet,
                Returned
  <2> QED
    BY Zenon, <1>7, <2>1, <2>2
<1>10. ASSUME NEW p \in Proc, NEW next, Emplace(p, next) PROVE NoneStranded'
  BY Zenon, <1>5, <1>10 DEF Emplace, Emplaced, Adds
<1>11. CASE EmptyQueue
  <2>1. Shut \in Proc
    BY Zenon DEF Proc
  <2>2. CASE Empty
    BY Zenon, <1>11, <2>2 DEF EmptyQueue
  <2>3. CASE ~Empty
    <3>1. pc'[Shut] = "process"
      BY Zenon, <1>11, <2>1, <2>3 DEF EmptyQueue
    <3> QED
      BY Zenon, <2>1, <3>1
  <2> QED
    BY Zenon, <2>2, <2>3
<1>12. CASE RequestShutdown \/ StopHTTPServer \/ StopConnman \/ JoinAll
            \/ UnregisterBackgroundSignalScheduler
  BY Zenon, <1>12 DEF RequestShutdown, StopHTTPServer, StopConnman, JoinAll,
               UnregisterBackgroundSignalScheduler, Enter
<1>13. CASE UNCHANGED vars
  BY Zenon, <1>13 DEF vars
<1> HIDE DEF NoneStranded, Types, TypeOK, Goto, Empty, queue
<1>14. ASSUME NEW c \in Caller, SendNew(c) \/ Emit(c) \/ CallFunction(c) PROVE NoneStranded'
  BY Zenon, <1>10, <1>14 DEF SendNew, Emit, CallFunction, Proc
<1>15. CASE FlushStateToDisk
  BY Zenon, <1>10, <1>15 DEF FlushStateToDisk, Proc
<1> QED
  BY Zenon, <1>1, <1>2, <1>3, <1>4, <1>6, <1>8, <1>9, <1>11, <1>12, <1>13, <1>14, <1>15
  DEF Next, Client, Continue, Shutdown

-----------------------------------------------------------------------------
(* What a caller that waits for its promise knows. *)

\* What is called or done stays so.
LEMMA Monotone ==
  ASSUME Typing, Turn, Numbers, Returns, [Next]_vars
  PROVE  /\ added <= added' /\ Len(called) <= Len(called') /\ done \subseteq done'
         /\ Len(called) \in Nat /\ Len(called)' \in Nat /\ added \in Nat /\ added' \in Nat
<1>0. /\ m_callbacks_pending \in Seq(Nat) /\ called \in Seq(Nat) /\ added \in Nat
      /\ called' \in Seq(Nat) /\ added' \in Nat
  BY Zenon, TypesNext DEF Typing, Types, TypeOK
<1>1. CASE UNCHANGED queue
  BY <1>0, <1>1 DEF queue
<1>2. ASSUME NEW p \in Proc, Adds(p)
      PROVE  added <= added' /\ Len(called) <= Len(called') /\ done \subseteq done'
  BY <1>0, <1>2 DEF Adds
<1>3. ASSUME NEW p \in Proc, ProcessQueue(p)
      PROVE  added <= added' /\ Len(called) <= Len(called') /\ done \subseteq done'
  <2>1. CASE m_are_callbacks_running \/ Empty
    BY Zenon, <1>1, <1>3, <2>1 DEF ProcessQueue
  <2>2. CASE ~(m_are_callbacks_running \/ Empty)
    <3>1. /\ called' = Append(called, Head(m_callbacks_pending)) /\ UNCHANGED <<added, done>>
          /\ Head(m_callbacks_pending) \in Nat
      BY <1>0, <1>3, <2>2 DEF ProcessQueue, Empty
    <3> QED
      BY <1>0, <3>1
  <2> QED
    BY Zenon, <2>1, <2>2
<1>4. ASSUME NEW p \in Proc, CallbackReturns(p)
      PROVE  added <= added' /\ Len(called) <= Len(called') /\ done \subseteq done'
  BY <1>0, <1>4 DEF CallbackReturns
<1>5. Len(called) \in Nat /\ Len(called)' \in Nat
  BY <1>0
<1> QED
  BY Zenon, <1>0, <1>1, <1>2, <1>3, <1>4, <1>5, QueueSteps DEF Typing

LEMMA PromisesNext ==
  ASSUME Typing, Turn, Numbers, Returns, Promises, [Next]_vars
  PROVE  Promises'
<1> Types
  BY Zenon DEF Typing
<1> USE CallbackAssumption DEF CallbackAssumption, Promises, Types, TypeOK, Goto
<1>0. /\ added <= added' /\ Len(called) <= Len(called') /\ done \subseteq done'
      /\ Len(called) \in Nat /\ Len(called)' \in Nat /\ added \in Nat /\ added' \in Nat
  BY Zenon, Monotone
<1>1. ASSUME NEW d \in Caller,
             call'[d] = call[d] /\ mark'[d] = mark[d] /\ promise'[d] = promise[d],
             pc'[d] \in {"sync", "returned"} => pc'[d] = pc[d],
             Holding(d) => Holding(d)'
      PROVE  Knows(d)'
  <2>1. mark[d] \in Nat /\ Knows(d)
    BY Zenon
  <2> HIDE DEF Holding, Promises, Types, TypeOK, Goto
  <2>2. mark[d] <= added => mark'[d] <= added'
    BY Zenon, <1>0, <1>1, <2>1, Order
  <2>3. mark[d] <= Len(called) => mark'[d] <= Len(called')
    BY Zenon, <1>0, <1>1, <2>1, Order
  <2> QED
    BY Zenon, <1>0, <1>1, <2>1, <2>2, <2>3 DEF Knows
<1>2. ASSUME NEW p \in Proc, Client(p) PROVE Promises'
  <2>1. UNCHANGED <<call, mark, promise>>
    BY Zenon, <1>2 DEF Client, MaybeScheduleProcessQueue, Schedule, ProcessQueue, CallbackReturns, caller
  <2>2. \A d \in Caller : pc'[d] \in {"sync", "returned"} => pc'[d] = pc[d]
    <3>0. ret[p] \in Back
      BY Zenon, <1>2 DEF Typing
    <3>1. \E place \in Place \ {"sync", "returned"} : pc' = [pc EXCEPT ![p] = place]
      <4>1. CASE MaybeScheduleProcessQueue(p)
        BY Zenon, <3>0, <4>1 DEF MaybeScheduleProcessQueue, Resume, Back, Place
      <4>2. CASE Schedule(p)
        BY Zenon, <3>0, <4>2 DEF Schedule, Resume, Back, Place
      <4>3. CASE ProcessQueue(p)
        BY Zenon, <4>3 DEF ProcessQueue, Home, Place
      <4>4. CASE CallbackReturns(p)
        BY Zenon, <4>4 DEF CallbackReturns, Place
      <4> QED
        BY Zenon, <1>2, <4>1, <4>2, <4>3, <4>4 DEF Client
    <3> QED
      BY Zenon, <3>1 DEF Proc
  <2>3. \A d \in Caller : Holding(d) => Holding(d)'
    BY Zenon, <1>2 DEF Client, MaybeScheduleProcessQueue, Schedule, Resume, ProcessQueue, CallbackReturns,
                Home, Holding, Proc
  <2> QED
    BY Zenon, <1>1, <2>1, <2>2, <2>3
<1>3. ASSUME NEW t \in Thread, RunTask(t) \/ ThreadExits(t) PROVE Promises'
  <2>1. UNCHANGED <<call, mark, promise>>
    BY Zenon, <1>3 DEF RunTask, ThreadExits, caller
  <2>2. \A d \in Caller : pc'[d] \in {"sync", "returned"} => pc'[d] = pc[d]
    BY Zenon, <1>3 DEF RunTask, ThreadExits, Proc
  <2>3. \A d \in Caller : Holding(d) => Holding(d)'
    BY Zenon, <1>3 DEF RunTask, ThreadExits, Holding, Proc
  <2> QED
    BY Zenon, <1>1, <2>1, <2>2, <2>3
<1>4. ASSUME NEW c \in Caller, NEW place, pc' = [pc EXCEPT ![c] = place],
             \A d \in Caller \ {c} : /\ call'[d] = call[d] /\ mark'[d] = mark[d]
                                     /\ promise'[d] = promise[d] /\ ret'[d] = ret[d],
             Knows(c)'
      PROVE  Promises'
  <2>1. ASSUME NEW d \in Caller \ {c} PROVE Knows(d)'
    <3>1. pc'[d] = pc[d]
      BY Zenon, <1>4 DEF Proc
    <3> QED
      BY Zenon, <1>1, <1>4, <3>1 DEF Holding
  <2> QED
    BY Zenon, <1>4, <2>1
<1>5. ASSUME NEW c \in Caller, ActivateBestChain(c) \/ RpcSync(c) \/ SendKnown(c)
      PROVE  Promises'
  <2>0. pc[c] = "idle" /\ promise[c] = 0
    <3>1. pc[c] = "idle"
      BY Zenon, <1>5 DEF ActivateBestChain, RpcSync, SendKnown, Begin
    <3> QED
      BY Zenon, <3>1 DEF Knows, Holding
  <2>1. PICK place \in {"sync", "emit", "wait"} : pc' = [pc EXCEPT ![c] = place]
    BY Zenon, <1>5 DEF ActivateBestChain, RpcSync, SendKnown
  <2>2. /\ promise' = promise /\ added' = added /\ ret' = ret
        /\ (mark' = mark \/ mark' = [mark EXCEPT ![c] = added])
    BY Zenon, <1>5 DEF ActivateBestChain, RpcSync, SendKnown, queue
  <2>3. PICK what : call' = [call EXCEPT ![c] = what]
    BY Zenon, <1>5 DEF ActivateBestChain, RpcSync, SendKnown, Begin
  <2>4. place = "sync" => what = "sync"
    <3>1. pc'[c] = place /\ call'[c] = what
      BY Zenon, <2>1, <2>3 DEF Proc
    <3>2. pc'[c] = "sync" => call'[c] = "sync"
      BY Zenon, <1>5 DEF ActivateBestChain, RpcSync, SendKnown, Begin, Proc
    <3> QED
      BY Zenon, <3>1, <3>2
  <2>5. pc'[c] = place /\ call'[c] = what /\ promise'[c] = 0
    BY Zenon, <2>0, <2>1, <2>2, <2>3 DEF Proc
  <2>6. mark'[c] <= added'
    BY Zenon, <1>0, <2>2 DEF Knows
  <2>7. Knows(c)'
    BY Zenon, <2>4, <2>5, <2>6 DEF Knows
  <2> QED
    BY Zenon, <1>4, <2>1, <2>2, <2>3, <2>7
<1>6. ASSUME NEW c \in Caller, SendNew(c) PROVE Promises'
  <2>0. pc[c] = "idle" /\ promise[c] = 0
    <3>1. pc[c] = "idle"
      BY Zenon, <1>6 DEF SendNew, Begin
    <3> QED
      BY Zenon, <3>1 DEF Knows, Holding
  <2>1. /\ pc' = [pc EXCEPT ![c] = "maybe"] /\ ret' = [ret EXCEPT ![c] = "add"]
        /\ added' = added + 1 /\ mark' = [mark EXCEPT ![c] = added + 1]
        /\ call' = [call EXCEPT ![c] = "send"] /\ promise' = promise
    BY Zenon, <1>6 DEF SendNew, Begin, Emplace
  <2>2. pc'[c] = "maybe" /\ mark'[c] = added' /\ promise'[c] = 0
    <3>1. c \in DOMAIN pc /\ c \in DOMAIN mark
      BY Zenon DEF Proc
    <3> QED
      BY Zenon, <2>0, <2>1, <3>1
  <2>3. Knows(c)'
    <3> HIDE DEF Promises, Types, TypeOK, Goto
    <3>0. added' <= added'
      BY Zenon, <1>0, Order
    <3>1. mark'[c] <= added'
      BY Zenon, <2>2, <3>0
    <3> QED
      BY Zenon, <2>2, <3>1 DEF Knows
  <2>4. \A d \in Caller \ {c} : /\ call'[d] = call[d] /\ mark'[d] = mark[d]
                                /\ promise'[d] = promise[d] /\ ret'[d] = ret[d]
    BY Zenon, <2>1 DEF Proc
  <2> QED
    BY Zenon, <1>4, <2>1, <2>3, <2>4
<1>7. ASSUME NEW c \in Caller, Emit(c) PROVE Promises'
  <2>0. pc[c] = "emit" /\ promise[c] = 0
    BY Zenon, <1>7 DEF Emit, Knows, Holding
  <2>1. /\ pc' = [pc EXCEPT ![c] = "maybe"] /\ ret' = [ret EXCEPT ![c] = "idle"]
        /\ UNCHANGED <<call, mark, promise>>
    BY Zenon, <1>7 DEF Emit, Emplace
  <2>2. pc'[c] = "maybe" /\ mark'[c] <= added' /\ promise'[c] = 0
    <3>1. mark[c] <= added /\ mark[c] \in Nat
      BY Zenon DEF Knows
    <3>2. mark[c] <= added'
      BY Zenon, <1>0, <3>1, Order
    <3> QED
      BY Zenon, <2>0, <2>1, <3>2 DEF Proc
  <2>3. Knows(c)'
    BY Zenon, <2>2 DEF Knows
  <2>4. \A d \in Caller \ {c} : /\ call'[d] = call[d] /\ mark'[d] = mark[d]
                                /\ promise'[d] = promise[d] /\ ret'[d] = ret[d]
    BY Zenon, <2>1 DEF Proc
  <2> QED
    BY Zenon, <1>4, <2>1, <2>3, <2>4
<1>8. ASSUME NEW c \in Caller, CallFunction(c) PROVE Promises'
  <2>1. /\ pc' = [pc EXCEPT ![c] = "maybe"] /\ ret' = [ret EXCEPT ![c] = "wait"]
        /\ added' = added + 1 /\ promise' = [promise EXCEPT ![c] = added + 1]
        /\ UNCHANGED <<call, mark>>
    BY Zenon, <1>8 DEF CallFunction, Emplace
  <2>2. pc'[c] = "maybe" /\ ret'[c] = "wait" /\ promise'[c] = added + 1 /\ mark'[c] = mark[c]
    BY Zenon, <2>1 DEF Proc
  <2>3. mark[c] <= added /\ mark[c] \in Nat
    BY Zenon DEF Knows
  <2>4. Knows(c)'
    <3> HIDE DEF Promises, Types, TypeOK, Goto
    <3>1. mark'[c] <= added' /\ mark'[c] < promise'[c]
      BY <1>0, <2>1, <2>2, <2>3
    <3>2. Holding(c)'
      BY Zenon, <2>2 DEF Holding
    <3> QED
      BY Zenon, <2>2, <3>1, <3>2 DEF Knows
  <2>5. \A d \in Caller \ {c} : /\ call'[d] = call[d] /\ mark'[d] = mark[d]
                                /\ promise'[d] = promise[d] /\ ret'[d] = ret[d]
    BY Zenon, <2>1 DEF Proc
  <2> QED
    BY Zenon, <1>4, <2>1, <2>4, <2>5
<1>9. ASSUME NEW c \in Caller, SyncWithValidationInterfaceQueue(c) PROVE Promises'
  <2>0. pc[c] = "sync" /\ promise[c] = 0 /\ call[c] = "sync" /\ mark[c] <= added
    BY Zenon, <1>9 DEF SyncWithValidationInterfaceQueue, Knows, Holding
  <2>1. UNCHANGED <<call, mark, promise, ret, added, called, m_callbacks_pending>>
    BY Zenon, <1>9 DEF SyncWithValidationInterfaceQueue, caller, queue
  <2>2. CASE Empty
    <3>1. pc' = [pc EXCEPT ![c] = "returned"]
      BY Zenon, <1>9, <2>2 DEF SyncWithValidationInterfaceQueue
    <3>2. Len(called) = added
      BY <1>0, <2>2 DEF Numbers, Empty
    <3>3. Knows(c)'
      BY Zenon, <2>0, <2>1, <3>2 DEF Knows
    <3> QED
      BY Zenon, <1>4, <2>1, <3>1, <3>3
  <2>3. CASE ~Empty
    <3>1. pc' = [pc EXCEPT ![c] = "add"]
      BY Zenon, <1>9, <2>3 DEF SyncWithValidationInterfaceQueue
    <3>2. pc'[c] = "add"
      BY Zenon, <3>1 DEF Proc
    <3>3. Knows(c)'
      BY Zenon, <2>0, <2>1, <3>2 DEF Knows
    <3> QED
      BY Zenon, <1>4, <2>1, <3>1, <3>3
  <2> QED
    BY Zenon, <2>2, <2>3
<1>10. ASSUME NEW c \in Caller, PromiseSet(c) PROVE Promises'
  <2>1. /\ pc' = [pc EXCEPT ![c] = "returned"] /\ promise[c] # 0 /\ promise[c] \in done
        /\ UNCHANGED <<call, mark, promise, ret, added, called, done>>
    BY Zenon, <1>10 DEF PromiseSet, caller, queue
  <2>2. pc'[c] = "returned" /\ ret[c] = "wait" /\ mark[c] < promise[c] /\ mark[c] <= added
    BY Zenon, <2>1 DEF Proc, Knows, Holding
  <2>3. promise[c] <= Len(called) /\ promise[c] \in Nat /\ mark[c] \in Nat
    BY <1>0, <2>1 DEF Returns
  <2>4. mark[c] <= Len(called)
    <3>1. mark[c] <= promise[c]
      BY <2>2, <2>3
    <3> QED
      BY Zenon, <1>0, <2>3, <3>1, Order
  <2>5. Knows(c)'
    BY Zenon, <2>1, <2>2, <2>4 DEF Knows, Holding
  <2> QED
    BY Zenon, <1>4, <2>1, <2>5
<1>11. ASSUME NEW c \in Caller, Returned(c) PROVE Promises'
  <2>1. PICK place \in {"idle", "emit"} : pc' = [pc EXCEPT ![c] = place]
    BY Zenon, <1>11 DEF Returned
  <2>2. /\ call' = [call EXCEPT ![c] = "none"] /\ mark' = [mark EXCEPT ![c] = 0]
        /\ promise' = [promise EXCEPT ![c] = 0] /\ UNCHANGED ret
    BY Zenon, <1>11 DEF Returned
  <2>3. pc'[c] \notin {"sync", "returned"} /\ mark'[c] <= added' /\ promise'[c] = 0
    <3>1. pc'[c] = place /\ mark'[c] = 0 /\ promise'[c] = 0
      BY Zenon, <2>1, <2>2 DEF Proc
    <3>2. 0 <= added'
      BY Zenon, <1>0, Order
    <3> QED
      BY Zenon, <3>1, <3>2
  <2>4. Knows(c)'
    <3> HIDE DEF Promises, Types, TypeOK, Goto
    <3> QED
      BY Zenon, <2>3 DEF Knows
  <2> QED
    BY Zenon, <1>4, <2>1, <2>2, <2>4
<1>12. CASE RequestShutdown \/ Shutdown
  <2>1. UNCHANGED <<call, mark, promise>>
    BY Zenon, <1>12 DEF RequestShutdown, Shutdown, StopHTTPServer, StopConnman, JoinAll, FlushStateToDisk,
                 EmptyQueue, UnregisterBackgroundSignalScheduler, Enter, caller
  <2>2. \A d \in Caller : pc'[d] = pc[d] /\ ret'[d] = ret[d]
    BY Zenon, <1>12 DEF RequestShutdown, Shutdown, StopHTTPServer, StopConnman, JoinAll, FlushStateToDisk,
                 EmptyQueue, UnregisterBackgroundSignalScheduler, Enter, Emplace, Proc
  <2> QED
    BY Zenon, <1>1, <2>1, <2>2 DEF Holding
<1>13. CASE UNCHANGED vars
  BY Zenon, <1>1, <1>13 DEF vars, Holding
<1> HIDE DEF Promises, Types, TypeOK, Goto
<1> QED
  BY Zenon, <1>2, <1>3, <1>5, <1>6, <1>7, <1>8, <1>9, <1>10, <1>11, <1>12, <1>13 DEF Next, Continue

-----------------------------------------------------------------------------
(* How far the shutdown is. *)

Later == {"empty", "end", "late", "down"}

Stage ==
  /\ phase \in {"net", "join", "flush"} \cup Later => AllIdle(Rpc)
  /\ phase \in {"join", "flush"} \cup Later => AllIdle(Net)
  /\ phase \in {"flush"} \cup Later => AllIdle(Group) /\ \A t \in Thread : pc[t] = "gone"
  /\ phase \notin {"empty", "late"} => pc[Shut] = "idle"

\* A process that is gone, or a caller that is idle once its threads are being joined, does
\* nothing more.
LEMMA AtRest ==
  ASSUME Types, [Next]_vars, NEW q \in Proc,
         \/ pc[q] = "gone"
         \/ q \in Caller /\ pc[q] = "idle" /\ phase \notin {"run", "http", "net"}
         \/ q \in Net \cup Rpc /\ pc[q] = "idle" /\ phase # "run"
  PROVE  pc'[q] = pc[q]
<1> USE CallbackAssumption DEF CallbackAssumption, Types, TypeOK, Back, Goto
<1>1. ASSUME NEW p \in Proc, Client(p) PROVE pc'[q] = pc[q]
  BY Zenon, <1>1 DEF Client, MaybeScheduleProcessQueue, Schedule, Resume, ProcessQueue, CallbackReturns
<1>2. ASSUME NEW t \in Thread, RunTask(t) \/ ThreadExits(t) PROVE pc'[q] = pc[q]
  BY Zenon, <1>2 DEF RunTask, ThreadExits, Proc
<1>3. ASSUME NEW c \in Caller, ActivateBestChain(c) \/ RpcSync(c) \/ SendKnown(c) \/ SendNew(c)
      PROVE  pc'[q] = pc[q]
  <2>1. PICK place : pc' = [pc EXCEPT ![c] = place]
    BY Zenon, <1>3 DEF ActivateBestChain, RpcSync, SendKnown, SendNew, Emplace
  <2>2. pc[c] = "idle" /\ (IF c \in Group THEN phase \in {"run", "http", "net"} ELSE phase = "run")
    BY Zenon, <1>3 DEF ActivateBestChain, RpcSync, SendKnown, SendNew, Begin
  <2>3. q # c
    BY Zenon, <2>2 DEF Caller
  <2> QED
    BY Zenon, <2>1, <2>3
<1>4. ASSUME NEW c \in Caller, Continue(c) PROVE pc'[q] = pc[q]
  BY Zenon, <1>4 DEF Continue, Emit, SyncWithValidationInterfaceQueue, CallFunction, PromiseSet, Returned,
              Emplace, Proc
<1>5. CASE RequestShutdown \/ Shutdown
  <2>1. pc' = pc \/ (pc[Shut] \in {"idle", "check"} /\ \E place : pc' = [pc EXCEPT ![Shut] = place])
    BY Zenon, <1>5 DEF RequestShutdown, Shutdown, StopHTTPServer, StopConnman, JoinAll, FlushStateToDisk,
                EmptyQueue, UnregisterBackgroundSignalScheduler, Enter, Emplace
  <2>2. q # Shut \/ pc[q] = "gone"
    BY Zenon DEF Caller
  <2> QED
    BY Zenon, <2>1, <2>2
<1>6. CASE UNCHANGED vars
  BY Zenon, <1>6 DEF vars
<1> QED
  BY Zenon, <1>1, <1>2, <1>3, <1>4, <1>5, <1>6 DEF Next

\* The other threads leave PrepareShutdown where it is.
LEMMA PhaseKept ==
  ASSUME Types, [Next]_vars, ~(RequestShutdown \/ Shutdown)
  PROVE  phase' = phase /\ (pc[Shut] = "idle" => pc'[Shut] = "idle")
<1> USE CallbackAssumption DEF CallbackAssumption
<1>0. pc \in [Proc -> Place] /\ Shut \in Proc /\ Thread \subseteq Proc /\ Caller \subseteq Proc
  BY Zenon DEF Types, TypeOK, Proc
<1>1. phase' = phase
  BY Zenon DEF Next, vars, Client, MaybeScheduleProcessQueue, Schedule, ProcessQueue, CallbackReturns,
         RunTask, ThreadExits, ActivateBestChain, RpcSync, SendNew, SendKnown, Continue, Emit,
         SyncWithValidationInterfaceQueue, CallFunction, PromiseSet, Returned
<1>2. ASSUME NEW p \in Proc, Client(p), pc[Shut] = "idle" PROVE pc'[Shut] = "idle"
  BY Zenon, <1>0, <1>2 DEF Client, MaybeScheduleProcessQueue, Schedule, Resume, ProcessQueue,
                    CallbackReturns, Goto
<1>3. ASSUME NEW t \in Thread, RunTask(t) \/ ThreadExits(t) PROVE pc'[Shut] = pc[Shut]
  BY Zenon, <1>0, <1>3 DEF RunTask, ThreadExits, Goto
<1>4. ASSUME NEW c \in Caller,
             \/ ActivateBestChain(c) \/ RpcSync(c) \/ SendKnown(c) \/ SendNew(c) \/ Continue(c)
      PROVE  pc'[Shut] = pc[Shut]
  BY Zenon, <1>0, <1>4 DEF ActivateBestChain, RpcSync, SendKnown, SendNew, Continue, Emit,
                    SyncWithValidationInterfaceQueue, CallFunction, PromiseSet, Returned, Emplace, Goto
<1> QED
  BY Zenon, <1>1, <1>2, <1>3, <1>4 DEF Next, vars

LEMMA StageNext ==
  ASSUME Types, Stage, [Next]_vars
  PROVE  Stage'
<1> USE CallbackAssumption DEF CallbackAssumption, Later, AllIdle
<1>0. phase \in Phase /\ pc \in [Proc -> Place] /\ Shut \in Proc /\ Thread \subseteq Proc
      /\ Caller \subseteq Proc /\ Net \subseteq Caller /\ Rpc \subseteq Caller /\ Group \subseteq Caller
  BY Zenon DEF Types, TypeOK, Proc, Caller
<1>1. /\ phase \in {"net", "join", "flush"} \cup Later => AllIdle(Rpc)'
      /\ phase \in {"join", "flush"} \cup Later => AllIdle(Net)'
      /\ phase \in {"flush"} \cup Later => AllIdle(Group)' /\ \A t \in Thread : pc'[t] = "gone"
  <2>1. ASSUME phase \in {"net", "join", "flush"} \cup Later PROVE AllIdle(Rpc)'
    BY Zenon, <1>0, <2>1, AtRest DEF Stage
  <2>2. ASSUME phase \in {"join", "flush"} \cup Later PROVE AllIdle(Net)'
    BY Zenon, <1>0, <2>2, AtRest DEF Stage
  <2>3. ASSUME phase \in {"flush"} \cup Later
        PROVE  AllIdle(Group)' /\ \A t \in Thread : pc'[t] = "gone"
    <3>1. AllIdle(Group)'
      BY Zenon, <1>0, <2>3, AtRest DEF Stage
    <3>2. \A t \in Thread : pc'[t] = "gone"
      BY Zenon, <1>0, <2>3, AtRest DEF Stage
    <3> QED
      BY Zenon, <3>1, <3>2
  <2> QED
    BY Zenon, <2>1, <2>2, <2>3
<1>2. CASE ~(RequestShutdown \/ Shutdown)
  <2>1. phase' = phase /\ (pc[Shut] = "idle" => pc'[Shut] = "idle")
    BY Zenon, <1>2, PhaseKept
  <2> QED
    BY Zenon, <1>1, <2>1 DEF Stage
<1>3. CASE RequestShutdown \/ StopHTTPServer \/ StopConnman \/ JoinAll
           \/ UnregisterBackgroundSignalScheduler
  BY Zenon, <1>0, <1>1, <1>3 DEF RequestShutdown, StopHTTPServer, StopConnman, JoinAll,
                          UnregisterBackgroundSignalScheduler, Enter, Stage
<1>4. CASE FlushStateToDisk
  BY Zenon, <1>0, <1>1, <1>4 DEF FlushStateToDisk, Emplace, Goto, Stage
<1>5. CASE EmptyQueue
  BY Zenon, <1>0, <1>1, <1>5 DEF EmptyQueue, Goto, Stage
<1> QED
  BY Zenon, <1>2, <1>3, <1>4, <1>5 DEF Shutdown

LEMMA DeliveredNext ==
  ASSUME Typing, Turn, Numbers, Returns, Stage, AllDelivered, [Next]_vars
  PROVE  AllDelivered'
<1> Types
  BY Zenon DEF Typing
<1> SUFFICES ASSUME phase' = "end" PROVE done' = 1 .. added'
  BY Zenon DEF AllDelivered
<1>0. pc \in [Proc -> Place] /\ m_are_callbacks_running \in BOOLEAN
  BY Zenon DEF Types, TypeOK
<1>1. CASE EmptyQueue /\ phase = "empty"
  <2>1. Empty /\ pc[Shut] = "check" /\ UNCHANGED <<done, added>>
    BY Zenon, <1>1 DEF EmptyQueue, queue
  <2>2. ~m_are_callbacks_running
    BY Zenon, <1>1, <2>1 DEF Turn, Stage, Later, AllIdle, Proc, Caller
  <2>3. Len(called) = added
    <3>1. Len(m_callbacks_pending) = 0
      BY Zenon, <2>1 DEF Empty
    <3>2. Len(called) \in Nat
      BY DEF Types, TypeOK
    <3> QED
      BY <3>1, <3>2 DEF Numbers
  <2> QED
    BY Zenon, <2>1, <2>2, <2>3 DEF Returns
<1>2. CASE phase = "end"
  <2>1. \A q \in Proc : pc[q] \in {"idle", "gone"}
    BY Zenon, <1>2 DEF Stage, Later, AllIdle, Proc, Caller
  <2>2. \A q \in Proc : ~ProcessQueue(q) /\ ~CallbackReturns(q)
    BY Zenon, <2>1 DEF ProcessQueue, CallbackReturns
  <2>3. \A q \in Proc : pc'[q] # "maybe"
    <3>1. \A q \in Proc : q # Shut => pc'[q] = pc[q]
      BY Zenon, <1>2, <2>1, AtRest DEF Stage, Later, AllIdle, Proc, Caller
    <3>2. ~(RequestShutdown \/ Shutdown)
      BY Zenon, <1>2 DEF RequestShutdown, Shutdown, StopHTTPServer, StopConnman, JoinAll, FlushStateToDisk,
                  EmptyQueue, UnregisterBackgroundSignalScheduler
    <3>3. pc'[Shut] = "idle"
      BY Zenon, <1>2, <3>2, PhaseKept DEF Stage
    <3> QED
      BY Zenon, <2>1, <3>1, <3>3
  <2>4. UNCHANGED queue
    BY Zenon, <2>2, <2>3, QueueSteps DEF Adds
  <2> QED
    BY Zenon, <1>2, <2>4 DEF queue, AllDelivered
<1>3. phase = "end" \/ (EmptyQueue /\ phase = "empty")
  <2>1. CASE RequestShutdown \/ Shutdown
    BY Zenon, <2>1 DEF RequestShutdown, Shutdown, StopHTTPServer, StopConnman, JoinAll, FlushStateToDisk,
                EmptyQueue, UnregisterBackgroundSignalScheduler, Enter
  <2>2. CASE ~(RequestShutdown \/ Shutdown)
    BY Zenon, <2>2, PhaseKept
  <2> QED
    BY Zenon, <2>1, <2>2
<1> QED
  BY Zenon, <1>1, <1>2, <1>3

-----------------------------------------------------------------------------
(* The theorems. *)

Inv ==
  Typing /\ Turn /\ Numbers /\ Returns /\ NoneStranded /\ Promises /\ Stage /\ AllDelivered

\* The inductive invariant of the callback queue: one callback runs at a time, they are called in
\* the order of AddToProcessQueue, none is stranded, a promise comes after what its caller has to
\* see, and the shutdown has joined whom it says it has.
THEOREM QueueInvariant == Spec => []Inv
<1>1. Init => Inv
  <2> SUFFICES ASSUME Init PROVE Turn /\ Numbers /\ Returns /\ NoneStranded /\ Promises /\ Stage
                                 /\ AllDelivered
    BY Zenon, TypingInit DEF Inv
  <2>1. \A p \in Proc : pc[p] \in {"serve", "idle"}
    BY Zenon DEF Init
  <2>2. Turn /\ NoneStranded
    BY Zenon, <2>1 DEF Init, Turn, OneAtATime, NoneStranded, Empty
  <2>3. Numbers /\ Returns
    BY DEF Init, Numbers, InOrder, Returns
  <2>4. Promises
    <3> SUFFICES ASSUME NEW c \in Caller PROVE Knows(c)
      BY Zenon DEF Promises
    <3>1. mark[c] = 0 /\ promise[c] = 0 /\ added = 0 /\ pc[c] \in {"serve", "idle"}
      BY Zenon, <2>1 DEF Init, Proc
    <3>2. 0 <= 0
      OBVIOUS
    <3>3. mark[c] <= added
      BY Zenon, <3>1, <3>2
    <3> QED
      BY Zenon, <3>1, <3>3 DEF Knows
  <2>5. Stage /\ AllDelivered
    BY Zenon, CallbackAssumption DEF CallbackAssumption, Init, Stage, Later, AllDelivered, Proc
  <2> QED
    BY Zenon, <2>2, <2>3, <2>4, <2>5
<1>2. Inv /\ [Next]_vars => Inv'
  BY Zenon, TypingNext, TurnNext, NumbersNext, StrandedNext, PromisesNext, StageNext, DeliveredNext
  DEF Inv, Typing
<1> QED
  BY <1>1, <1>2, PTL DEF Spec

\* Callbacks are called in the order of AddToProcessQueue, each of them once, by any number of
\* scheduler threads.
THEOREM OrderCorrect == Spec => []InOrder
<1>1. Inv => InOrder
  BY Zenon DEF Inv, Numbers
<1> QED
  BY <1>1, QueueInvariant, PTL

\* No two callbacks run at the same time.
THEOREM MutualExclusion == Spec => []OneAtATime
<1>1. Inv => OneAtATime
  BY Zenon DEF Inv, Turn
<1> QED
  BY <1>1, QueueInvariant, PTL

\* MaybeScheduleProcessQueue strands no callback, although it schedules outside of the lock.
THEOREM NoCallbackStranded == Spec => []NoneStranded
<1>1. Inv => NoneStranded
  BY Zenon DEF Inv
<1> QED
  BY <1>1, QueueInvariant, PTL

\* When sendrawtransaction returns, the wallet has seen the transaction and every event before it.
THEOREM SendCorrect == Spec => []SendCaughtUp
<1>1. Inv => SendCaughtUp
  <2> SUFFICES ASSUME Inv, NEW c \in Caller, pc[c] = "returned", call[c] = "send"
               PROVE  1 .. mark[c] \subseteq done
    BY Zenon DEF SendCaughtUp, CaughtUp
  <2>1. promise[c] \in done /\ mark[c] < promise[c] /\ mark[c] \in Nat /\ promise[c] \in Nat
    BY Zenon DEF Inv, Promises, Knows, Typing, Types, TypeOK
  <2>2. PICK n \in Int : done = 1 .. n
    <3>1. Len(called) \in Nat
      BY DEF Inv, Typing, Types, TypeOK
    <3>2. Len(called) \in Int /\ Len(called) - 1 \in Int
      BY Zenon, <3>1, Order
    <3>3. done = 1 .. Len(called) \/ done = 1 .. (Len(called) - 1)
      BY Zenon DEF Inv, Returns
    <3> QED
      BY Zenon, <3>2, <3>3
  <2>3. promise[c] <= n
    BY <2>1, <2>2
  <2>4. ASSUME NEW i \in 1 .. mark[c] PROVE i \in 1 .. n
    BY <2>1, <2>3
  <2> QED
    BY Zenon, <2>2, <2>4
<1> QED
  BY <1>1, QueueInvariant, PTL

\* When SyncWithValidationInterfaceQueue returns, every callback generated before it was called has
\* been called, though the last one may still be running.
THEOREM SyncCorrect == Spec => []SyncCalled
<1>1. Inv => SyncCalled
  BY Zenon DEF Inv, Promises, Knows, SyncCalled
<1> QED
  BY <1>1, QueueInvariant, PTL

\* EmptyQueue's assertion holds: the scheduler's threads are gone.
THEOREM EmptyQueueSafe == Spec => []EmptyQueueAlone
<1>1. Inv => EmptyQueueAlone
  BY Zenon DEF Inv, Stage, Later, EmptyQueueAlone
<1> QED
  BY <1>1, QueueInvariant, PTL

\* FlushBackgroundCallbacks leaves nothing behind.
THEOREM DeliveryComplete == Spec => []AllDelivered
<1>1. Inv => AllDelivered
  BY Zenon DEF Inv
<1> QED
  BY <1>1, QueueInvariant, PTL

\* The queue, its gaps between the lock and the scheduler included, implements one that calls its
\* callbacks one after the other in the order in which they were added.
THEOREM QueueIsSerial == Spec => SerialSpec
<1>1. Init => Serial!Init
  BY Zenon DEF Init, Serial!Init
<1>2. ASSUME Inv, [Next]_vars PROVE [Serial!Next]_(Serial!vars)
  <2>0. /\ Types /\ m_callbacks_pending \in Seq(Nat) /\ called \in Seq(Nat) /\ added \in Nat
        /\ m_are_callbacks_running \in BOOLEAN
    BY Zenon, <1>2 DEF Inv, Typing, Types, TypeOK
  <2>1. CASE UNCHANGED queue
    BY Zenon, <2>1 DEF queue, Serial!vars
  <2>2. ASSUME NEW p \in Proc, Adds(p) PROVE Serial!Add
    BY Zenon, <2>2 DEF Adds, Serial!Add
  <2>3. ASSUME NEW p \in Proc, ProcessQueue(p) PROVE UNCHANGED queue \/ Serial!Call
    <3>1. CASE m_are_callbacks_running \/ Empty
      BY Zenon, <2>3, <3>1 DEF ProcessQueue
    <3>2. CASE ~(m_are_callbacks_running \/ Empty)
      <4>1. m_callbacks_pending # <<>> /\ ~m_are_callbacks_running
        BY Zenon, <3>2 DEF Empty
      <4>2. /\ m_are_callbacks_running' = TRUE /\ added' = added
            /\ called' = Append(called, Head(m_callbacks_pending))
        BY Zenon, <2>3, <3>2 DEF ProcessQueue
      <4>3. Len(called') = Len(called) + 1
        BY <2>0, <4>1, <4>2
      <4>4. Len(called) < added
        <5>1. Len(called) \in Nat /\ Len(m_callbacks_pending) \in Nat
              /\ Len(m_callbacks_pending) > 0
          BY <2>0, <4>1
        <5>2. Len(called) + Len(m_callbacks_pending) = added
          BY Zenon, <1>2 DEF Inv, Numbers
        <5> QED
          BY <5>1, <5>2
      <4> QED
        BY Zenon, <4>1, <4>2, <4>3, <4>4 DEF Serial!Call
    <3> QED
      BY Zenon, <3>1, <3>2
  <2>4. ASSUME NEW p \in Proc, CallbackReturns(p) PROVE Serial!Return
    BY Zenon, <1>2, <2>4 DEF CallbackReturns, Inv, Turn, Serial!Return
  <2> QED
    BY Zenon, <1>2, <2>0, <2>1, <2>2, <2>3, <2>4, QueueSteps DEF Serial!Next
<1> QED
  BY <1>1, <1>2, QueueInvariant, PTL DEF Spec, SerialSpec, Serial!Spec

==============================================================================
