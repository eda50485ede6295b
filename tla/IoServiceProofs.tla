---------------------------- MODULE IoServiceProofs ----------------------------
(***************************************************************************)
(* No wake-up is lost (NoWakeupLost), for every number of threads of the   *)
(* writer and reader services and for the one thread of the io service.    *)
(* A pool, the writer or reader service, that ends by itself has run all   *)
(* that was posted to it (Drained), for every number of threads.           *)
(***************************************************************************)
EXTENDS IoService, FiniteSetTheorems, TLAPS

Places == {"start", "loop", "wait", "woken", "task", "ready", "perform",
           "handler", "cleanup", "relock", "returned"}

InWait == {t \in Threads : pc[t] \in {"wait", "woken"}}

Typed ==
  /\ pc \in [Threads -> Places]
  /\ call \in [Callers -> {"none", "signal", "stop", "push"}]
  /\ block \in [Threads -> BOOLEAN]
  /\ event \in BOOLEAN /\ poke \in BOOLEAN
  /\ interrupted \in BOOLEAN /\ stopped \in BOOLEAN
  /\ pushed \in Nat
  /\ waiters = Cardinality(InWait)

Ops == Op \ {Task}

(* Without a reactor there is no place for it in the queues. *)
NoReactor ==
  ~HasTask =>
    /\ queue \in Seq(Ops) /\ priv \in [Threads -> Seq(Ops)]
    /\ \A t \in Threads : pc[t] \notin {"task", "ready"}

(* The event is not cleared over a queued operation, except by a thread    *)
(* that comes back to it.                                                  *)
Noticed ==
  queue # << >> /\ ~Stopping => event \/ \E t \in Threads : pc[t] \in {"start", "loop"}

(* A thread has returned only from a service that stops. *)
Returned == (\E t \in Threads : pc[t] = "returned") => Stopping

(* task_interrupted_ is true only of a blocked reactor that is interrupted. *)
Interruptible ==
  \A t \in Threads : pc[t] = "task" /\ block[t] /\ interrupted => poke

WakeInv ==
  Typed /\ NoReactor /\ Noticed /\ Returned /\ Interruptible /\ NoWakeupLost

-----------------------------------------------------------------------------
(* A thread that enters wait is one more, one that leaves it one less. *)
LEMMA WaitCount ==
  ASSUME NEW S \in SUBSET Threads, NEW t \in Threads
  PROVE  /\ IsFiniteSet(S)
         /\ t \notin S => Cardinality(S \cup {t}) = Cardinality(S) + 1
         /\ t \in S => Cardinality(S \ {t}) = Cardinality(S) - 1
         /\ Cardinality(S) \in Nat
         /\ Cardinality(S) = 0 <=> S = {}
<1>1. IsFiniteSet(S)
  BY FS_Subset, IoAssumption, Zenon
<1>2. t \notin S => Cardinality(S \cup {t}) = Cardinality(S) + 1
  BY <1>1, FS_AddElement, Zenon
<1>3. t \in S => Cardinality(S \ {t}) = Cardinality(S) - 1
  BY <1>1, FS_RemoveElement, Zenon
<1>4. Cardinality(S) \in Nat
  BY <1>1, FS_CardinalityType, Zenon
<1>5. Cardinality(S) = 0 <=> S = {}
  BY <1>1, FS_EmptySet, Zenon
<1> QED
  BY <1>1, <1>2, <1>3, <1>4, <1>5, Zenon

(* The state in which main starts the threads. *)
LEMMA WakeInit == Init => WakeInv
<1> SUFFICES ASSUME Init PROVE WakeInv
  BY Zenon
<1>1. InWait = {}
  BY Zenon DEF Init, InWait
<1>2. Typed
  BY <1>1, FS_EmptySet, IoAssumption, Zenon DEF Init, Typed, Places, Callers
<1>3. NoReactor
  BY DEF Init, NoReactor
<1>4. Noticed /\ NoWakeupLost
  BY IoAssumption, Zenon DEF Init, Noticed, NoWakeupLost, GoesOn
<1>5. Returned /\ Interruptible
  BY Zenon DEF Init, Returned, Interruptible
<1> QED
  BY <1>2, <1>3, <1>4, <1>5, Zenon DEF WakeInv

-----------------------------------------------------------------------------
(* Where t stands when it holds the mutex at the top of do_run_one's loop,  *)
(* with what it has set or counted since its last step.                    *)
TopOfLoop(t, q, w, intr) ==
  /\ Free(t) /\ pc[t] \in {"loop", "woken", "ready", "relock"}
  /\ w = Cardinality(InWait \ {t})
  /\ intr \in BOOLEAN /\ (intr # interrupted => pc[t] = "ready")
  /\ ~HasTask => q \in Seq(Ops) /\ priv' \in [Threads -> Seq(Ops)]
  /\ UNCHANGED <<stopped, pushed>>

(* A service that stops goes on stopping while t takes a turn. *)
LEMMA TurnStopping ==
  ASSUME WakeInv, NEW t \in Threads, NEW q, NEW w, NEW intr,
         TopOfLoop(t, q, w, intr), Turn(t, q, w, intr)
  PROVE  Stopping => Stopping'
<1>1. call[t] = "none" /\ t \in Callers
  BY Zenon DEF TopOfLoop, Free, Callers
<1>2. \A p \in Callers : p # t => call'[p] = call[p]
  BY Zenon DEF WakeInv, Typed, Turn, turn_stopped, turn_wait, turn_task, turn_op,
         wake_one_thread_and_unlock
<1> QED
  BY <1>1, <1>2, Zenon DEF Stopping, TopOfLoop

(* One turn of do_run_one's loop, by whichever way the thread came to it.  *)
LEMMA TurnKeeps ==
  ASSUME WakeInv, NEW t \in Threads, NEW q, NEW w, NEW intr,
         TopOfLoop(t, q, w, intr), Turn(t, q, w, intr)
  PROVE  WakeInv'
<1> USE DEF WakeInv, Typed, TopOfLoop, Free
<1>0. /\ t \in Callers /\ call[t] = "none" /\ (Stopping => Stopping')
      /\ InWait \ {t} \in SUBSET Threads /\ w \in Nat
  BY TurnStopping, WaitCount, Zenon DEF Callers, InWait
<1>5. \A u \in Threads : pc[u] # "task"
  BY IoAssumption DEF NoReactor
<1>1. CASE turn_stopped(t, q, w, intr)
  <2> USE <1>1 DEF turn_stopped
  <2>1. InWait' = InWait \ {t}
    BY Zenon DEF InWait, Places
  <2>2. Typed' /\ Stopping'
    BY <2>1, Zenon DEF Places, Stopping
  <2>3. NoReactor'
    BY Zenon DEF NoReactor, Places
  <2>4. Interruptible'
    BY <1>5, Zenon DEF Interruptible, Places
  <2> QED
    BY <2>2, <2>3, <2>4, Zenon DEF Noticed, Returned, NoWakeupLost
<1>2. CASE turn_wait(t, q, w, intr)
  <2> USE <1>2 DEF turn_wait
  <2>1. InWait' = (InWait \ {t}) \cup {t}
    BY Zenon DEF InWait, Places
  <2>2. Typed'
    BY <1>0, <2>1, WaitCount, Zenon DEF Places
  <2>3. NoReactor'
    BY Zenon DEF NoReactor, Places
  <2>4. Interruptible'
    BY <1>5, Zenon DEF Interruptible, Places
  <2>5. Returned'
    BY <1>0, Zenon DEF Returned, Places
  <2> QED
    BY <2>2, <2>3, <2>4, <2>5, Zenon DEF Noticed, NoWakeupLost
<1>3. CASE turn_task(t, q, w, intr)
  <2> USE <1>3 DEF turn_task
  <2>1. InWait' = InWait \ {t}
    BY Zenon DEF InWait, Places
  <2>2. Typed'
    BY <1>0, <2>1, Zenon DEF Places
  <2>3. HasTask
    BY DEF NoReactor, Ops
  <2>4. Threads = {t}
    BY <2>3, IoAssumption, Zenon
  <2>5. NoReactor' /\ Interruptible' /\ Returned'
    BY <2>3, <2>4, Zenon DEF NoReactor, Interruptible, Returned
  <2>6. Noticed' /\ NoWakeupLost'
    BY Zenon DEF Noticed, NoWakeupLost, GoesOn
  <2> QED
    BY <2>2, <2>5, <2>6, Zenon
<1>4. CASE turn_op(t, q, w, intr)
  <2> USE <1>4 DEF turn_op
  <2>1. InWait' = InWait \ {t}
    BY Zenon DEF InWait, Places
  <2>2. Typed'
    BY <1>0, <2>1, IoAssumption, Zenon DEF Places, wake_one_thread_and_unlock
  <2>3. NoReactor'
    BY SMTT(30) DEF NoReactor, Places
  <2>4. Interruptible'
    BY <1>5, Zenon DEF Interruptible, Places
  <2>5. Returned'
    BY <1>0, Zenon DEF Returned, Places
  <2>6. Noticed' /\ NoWakeupLost'
    BY Zenon DEF Noticed, NoWakeupLost, GoesOn, wake_one_thread_and_unlock
  <2> QED
    BY <2>2, <2>3, <2>4, <2>5, <2>6, Zenon
<1> QED
  BY <1>1, <1>2, <1>3, <1>4, Zenon DEF Turn

-----------------------------------------------------------------------------
(* The steps of a call to the service: the signal that follows an unlock,  *)
(* stop() and the second half of a post.                                   *)
LEMMA CallKeeps ==
  ASSUME WakeInv, NEW p \in Callers, CallStep(p)
  PROVE  WakeInv'
<1> USE DEF WakeInv, Typed
<1>1. CASE cond_signal(p)
  <2> USE <1>1 DEF cond_signal, serviceVars, threadVars, historyVars, Waiting
  <2>1. InWait' = InWait
    BY Zenon DEF InWait, Places
  <2>2. Typed'
    BY <2>1, Zenon DEF Places
  <2>3. Stopping <=> Stopping'
    BY Zenon DEF Stopping
  <2>4. NoReactor' /\ Interruptible'
    BY Zenon DEF NoReactor, Interruptible, Places
  <2>5. Returned' /\ Noticed'
    BY <2>3, Zenon DEF Returned, Noticed, Places
  <2>6. NoWakeupLost'
    <3>1. CASE \E t \in Threads : Waiting(t)
      <4>1. PICK t \in Threads : pc' = [pc EXCEPT ![t] = "woken"]
        BY <3>1, Zenon
      <4> QED
        BY <4>1, ZenonT(30) DEF NoWakeupLost, GoesOn
    <3>2. CASE ~ \E t \in Threads : Waiting(t)
      BY <2>3, <3>2, Zenon DEF NoWakeupLost, GoesOn
    <3> QED
      BY <3>1, <3>2, Zenon
  <2> QED
    BY <2>2, <2>4, <2>5, <2>6, Zenon
<1>2. CASE stop(p)
  <2> USE <1>2 DEF stop, threadVars, historyVars, Waiting
  <2>1. InWait' = InWait
    BY Zenon DEF InWait, Places
  <2>2. Typed'
    BY <2>1, IoAssumption, Zenon DEF Places
  <2>3. Stopping'
    BY Zenon DEF Stopping
  <2>4. NoReactor'
    BY Zenon DEF NoReactor, Places
  <2>5. Interruptible'
    BY Zenon DEF Interruptible, NoReactor, Places
  <2> QED
    BY <2>2, <2>3, <2>4, <2>5, Zenon DEF Returned, Noticed, NoWakeupLost
<1>3. CASE post_push(p)
  <2> USE <1>3 DEF post_push, wake_one_thread_and_unlock, threadVars
  <2>1. InWait' = InWait /\ InWait \in SUBSET Threads
    BY Zenon DEF InWait
  <2>2. Typed'
    BY <2>1, IoAssumption
  <2>3. Stopping <=> Stopping'
    BY Zenon DEF Stopping
  <2>4. NoReactor'
    <3> SUFFICES ASSUME ~HasTask PROVE NoReactor'
      BY Zenon DEF NoReactor
    <3>1. Post(pushed + 1) \in Ops
      BY DEF Post, Ops, Op, Task
    <3> QED
      BY <3>1 DEF NoReactor
  <2>5. Interruptible'
    BY Zenon DEF Interruptible, NoReactor
  <2>6. Returned' /\ Noticed'
    BY <2>3, Zenon DEF Returned, Noticed
  <2>7. NoWakeupLost'
    <3>1. CASE waiters > 0
      <4>1. PICK t \in Threads : pc[t] \in {"wait", "woken"}
        <5>1. InWait = {} => waiters = 0
          BY FS_EmptySet, Zenon
        <5>2. InWait # {}
          BY <3>1, <5>1
        <5> QED
          BY <5>2, Zenon DEF InWait
      <4>2. call'[p] = "signal"
        BY <3>1, Zenon
      <4>3. GoesOn(t)' \/ Waiting(t)'
        BY <4>1, Zenon DEF GoesOn, Waiting
      <4> QED
        BY <4>2, <4>3, Zenon DEF NoWakeupLost
    <3>2. CASE waiters = 0
      <4>1. PICK t \in Threads : pc[t] \notin {"wait", "woken"}
        BY <2>1, <3>2, WaitCount, IoAssumption, ZenonT(30) DEF InWait
      <4>2. CASE pc[t] = "returned"
        BY <2>3, <4>2, Zenon DEF Returned, NoWakeupLost
      <4>3. CASE pc[t] # "returned"
        <5>1. GoesOn(t)'
          BY <3>2, <4>1, <4>3, Zenon DEF GoesOn, Interruptible, NoReactor
        <5> QED
          BY <5>1, Zenon DEF NoWakeupLost
      <4> QED
        BY <4>2, <4>3, Zenon
    <3>3. PICK t \in Threads : TRUE
      BY IoAssumption, Zenon
    <3>4. waiters \in Nat
      BY <2>1, <3>3, WaitCount, Zenon
    <3> QED
      BY <3>1, <3>2, <3>4
  <2> QED
    BY <2>2, <2>4, <2>5, <2>6, <2>7, Zenon
<1> QED
  BY <1>1, <1>2, <1>3, Zenon DEF CallStep

-----------------------------------------------------------------------------
(* A step that queues nothing, moves no thread into wait or out of it, out *)
(* of the service or into the reactor, and completes no call but a post.   *)
Quiet(t, place) ==
  /\ pc' = [pc EXCEPT ![t] = place]
  /\ place # pc[t] =>
       /\ pc[t] \in Places \ {"wait", "woken"}
       /\ place \in Places \ {"wait", "woken", "task", "ready", "returned"}
       /\ pc[t] \in {"start", "loop"} => place \in {"start", "loop"}
  /\ UNCHANGED <<queue, interrupted, event, waiters, poke, stopped, pushed, block>>
  /\ HasTask \/ priv' = priv
  /\ call' \in [Callers -> {"none", "signal", "stop", "push"}]
  /\ \A p \in Callers : call[p] \in {"stop", "signal"} => call'[p] = call[p]

(* Such a step loses no wake-up. *)
LEMMA QuietKeeps ==
  ASSUME WakeInv, NEW t \in Threads, NEW place, Quiet(t, place)
  PROVE  WakeInv'
<1> USE DEF WakeInv, Typed, Quiet
<1>1. InWait' = InWait
  BY Zenon DEF InWait, Places
<1>2. Typed'
  BY <1>1, Zenon DEF Places
<1>3. Stopping => Stopping'
  BY Zenon DEF Stopping
<1>4. NoReactor' /\ Interruptible'
  BY ZenonT(30) DEF NoReactor, Interruptible, Places
<1>5. Returned' /\ Noticed'
  BY <1>3, ZenonT(30) DEF Returned, Noticed, Places
<1>6. NoWakeupLost'
  <2>1. \A u \in Threads : GoesOn(u) => GoesOn(u)'
    BY Zenon DEF GoesOn, Places
  <2>2. \A u \in Threads : Waiting(u) => Waiting(u)'
    BY Zenon DEF Waiting, Places
  <2> QED
    BY <1>3, <2>1, <2>2, Zenon DEF NoWakeupLost
<1> QED
  BY <1>2, <1>4, <1>5, <1>6, Zenon

(* A descriptor or the signal pipe is performed: operations may be queued, *)
(* and the thread that queues them will come back to the queue.            *)
LEMMA PerformKeeps ==
  ASSUME WakeInv, NEW t \in Threads, NEW k \in Nat,
         deliver_signal(t) \/ perform_io(t, k)
  PROVE  WakeInv'
<1> USE DEF WakeInv, Typed
<1>1. /\ pc' \in [Threads -> Places] /\ pc'[t] \in {"cleanup", "handler"}
      /\ pc[t] = "perform" /\ \A u \in Threads : u # t => pc'[u] = pc[u]
      /\ call[t] = "none" /\ t \in Callers
      /\ UNCHANGED <<waiters, stopped, pushed, block, priv>>
  BY Zenon DEF deliver_signal, perform_io, Free, Callers, Places, threadVars, historyVars
<1>2. \/ UNCHANGED <<queue, interrupted, event, poke, call>>
      \/ event' = TRUE /\ wake_one_thread_and_unlock(t, waiters, interrupted)
  BY Zenon DEF deliver_signal, perform_io, wake_one_thread_and_unlock
<1>3. InWait' = InWait
  BY <1>1, Zenon DEF InWait
<1>4. Typed'
  BY <1>1, <1>2, <1>3, IoAssumption, Zenon DEF wake_one_thread_and_unlock
<1>5. Stopping <=> Stopping'
  BY <1>1, <1>2, Zenon DEF Stopping, wake_one_thread_and_unlock
<1>6. NoReactor'
  <2> SUFFICES ASSUME ~HasTask PROVE queue' \in Seq(Ops)
    BY <1>1, Zenon DEF NoReactor
  <2>1. Io \in Ops /\ Signal \in Ops
    BY Zenon DEF Io, Signal, Task, Ops, Op
  <2>2. queue \in Seq(Ops)
    BY Zenon DEF NoReactor
  <2>3. CASE deliver_signal(t)
    <3>1. Append(queue, Signal) \in Seq(Ops)
      BY <2>1, <2>2
    <3> QED
      BY <2>2, <2>3, <3>1, Zenon DEF deliver_signal
  <2>4. CASE perform_io(t, k)
    <3>1. k > 1 => [i \in 1 .. k - 1 |-> Io] \in Seq(Ops)
      BY <2>1
    <3>2. \A q \in Seq(Ops) : queue \o q \in Seq(Ops)
      BY <2>2
    <3> QED
      BY <2>2, <2>4, <3>1, <3>2, Zenon DEF perform_io
  <2> QED
    BY <2>3, <2>4, Zenon
<1>7. Interruptible'
  BY <1>1, <1>2, IoAssumption, Zenon DEF Interruptible, NoReactor, wake_one_thread_and_unlock
<1>8. Returned'
  BY <1>1, <1>5, Zenon DEF Returned
<1>9. Noticed' /\ NoWakeupLost'
  BY <1>1, <1>2, <1>5, Zenon DEF Noticed, NoWakeupLost, GoesOn
<1> QED
  BY <1>4, <1>6, <1>7, <1>8, <1>9, Zenon

(* epoll_wait returns in the one thread of the io service. *)
LEMMA ReactorKeeps ==
  ASSUME WakeInv, NEW t \in Threads, NEW R, reactor_returns(t, R)
  PROVE  WakeInv'
<1> USE DEF WakeInv, Typed, reactor_returns
<1>1. HasTask /\ Threads = {t}
  BY IoAssumption, ZenonT(30) DEF NoReactor
<1>2. InWait' = InWait
  BY Zenon DEF InWait, Places
<1>3. Typed'
  BY <1>2, Zenon DEF Places, historyVars
<1>4. NoReactor' /\ Interruptible'
  BY <1>1, Zenon DEF NoReactor, Interruptible
<1>5. Stopping <=> Stopping'
  BY Zenon DEF Stopping
<1>6. Returned' /\ Noticed' /\ NoWakeupLost'
  BY <1>1, <1>5, Zenon DEF Returned, Noticed, NoWakeupLost, GoesOn
<1> QED
  BY <1>3, <1>4, <1>6, Zenon

-----------------------------------------------------------------------------
(* The steps of a thread inside run(). *)
LEMMA ThreadKeeps ==
  ASSUME WakeInv, NEW t \in Threads, ThreadStep(t)
  PROVE  WakeInv'
<1> USE DEF WakeInv, Typed
<1>0. t \in Callers /\ InWait \in SUBSET Threads
  BY Zenon DEF Callers, InWait
<1>1. CASE run(t)
  <2> USE <1>1 DEF run, Free, serviceVars, historyVars
  <2>1. CASE work = 0
    <3>1. InWait' = InWait
      BY <2>1, Zenon DEF InWait, Places
    <3>2. Typed' /\ Stopping'
      BY <1>0, <2>1, <3>1, Zenon DEF Places, Stopping
    <3>3. NoReactor' /\ Interruptible'
      BY <2>1, Zenon DEF NoReactor, Interruptible, Places
    <3> QED
      BY <3>2, <3>3, Zenon DEF Noticed, Returned, NoWakeupLost
  <2>2. CASE work # 0
    <3>1. Quiet(t, "loop")
      BY <2>2, Zenon DEF Quiet, Places
    <3> QED
      BY <3>1, QuietKeeps, Zenon
  <2> QED
    BY <2>1, <2>2, Zenon
<1>2. CASE do_run_one(t)
  <2>1. InWait \ {t} = InWait
    BY <1>2, Zenon DEF do_run_one, InWait
  <2>2. TopOfLoop(t, queue, waiters, interrupted)
    BY <1>2, <2>1, Zenon DEF do_run_one, TopOfLoop, NoReactor, historyVars
  <2> QED
    BY <1>2, <2>2, TurnKeeps, Zenon DEF do_run_one
<1>3. CASE wait_returns(t)
  <2> USE <1>3 DEF wait_returns, Free
  <2>1. CASE event
    <3>1. waiters - 1 = Cardinality(InWait \ {t})
      BY <1>0, WaitCount, Zenon DEF InWait
    <3>2. TopOfLoop(t, queue, waiters - 1, interrupted)
      BY <3>1, Zenon DEF TopOfLoop, NoReactor, historyVars
    <3> QED
      BY <2>1, <3>2, TurnKeeps, Zenon
  <2>2. CASE ~event
    <3> USE <2>2 DEF serviceVars, historyVars
    <3>1. InWait' = InWait
      BY Zenon DEF InWait, Places
    <3>2. Typed'
      BY <3>1, Zenon DEF Places
    <3>3. Stopping <=> Stopping'
      BY Zenon DEF Stopping
    <3>4. NoReactor' /\ Interruptible'
      BY ZenonT(30) DEF NoReactor, Interruptible, Places
    <3>5. Returned' /\ Noticed'
      BY <3>3, Zenon DEF Returned, Noticed, Places
    <3>6. NoWakeupLost'
      BY <3>3, <3>5, Zenon DEF NoWakeupLost, Noticed, GoesOn
    <3> QED
      BY <3>2, <3>4, <3>5, <3>6, Zenon
  <2> QED
    BY <2>1, <2>2, Zenon
<1>4. CASE reactor_poked(t)
  BY <1>4, ReactorKeeps, Zenon DEF reactor_poked
<1>5. CASE task_cleanup(t)
  <2> USE <1>5 DEF task_cleanup
  <2>1. InWait \ {t} = InWait /\ HasTask
    BY Zenon DEF InWait, NoReactor
  <2>2. TopOfLoop(t, queue \o priv[t] \o << Task >>, waiters, TRUE)
    BY <2>1, Zenon DEF TopOfLoop, historyVars
  <2> QED
    BY <2>2, TurnKeeps, Zenon
<1>6. CASE deliver_signal(t) \/ \E k \in 0 .. MaxActs + 1 : perform_io(t, k)
  BY <1>6, PerformKeeps, IoAssumption
<1>7. CASE \E d \in Descriptors \ {SignalPipe} : start_op(t, d)
  <2>1. Quiet(t, "handler")
    BY <1>7, ZenonT(60) DEF start_op, InHandler, Quiet, Places, serviceVars, threadVars
  <2> QED
    BY <2>1, QuietKeeps, Zenon
<1>8. CASE continue_op(t)
  <2>1. Quiet(t, "handler")
    BY <1>8, Zenon DEF continue_op, InHandler, Quiet, Places, serviceVars
  <2> QED
    BY <2>1, QuietKeeps, Zenon
<1>9. CASE complete_op(t)
  <2>1. Quiet(t, "handler")
    BY <1>9, Zenon DEF complete_op, post_begin, InHandler, Quiet, Places, serviceVars, threadVars
  <2> QED
    BY <2>1, QuietKeeps, Zenon
<1>10. CASE signal_handler(t)
  <2>1. Quiet(t, "cleanup")
    BY <1>10, Zenon DEF signal_handler, InHandler, Free, Quiet, Places, serviceVars, threadVars
  <2> QED
    BY <2>1, QuietKeeps, Zenon
<1>11. CASE \E threw \in BOOLEAN : handler_ends(t, threw)
  <2>1. Quiet(t, "cleanup")
    BY <1>11, Zenon DEF handler_ends, InHandler, Quiet, Places, serviceVars
  <2> QED
    BY <2>1, QuietKeeps, Zenon
<1>12. CASE work_cleanup(t)
  <2>1. Quiet(t, "relock")
    BY <1>12, Zenon DEF work_cleanup, Free, Quiet, Places, serviceVars, historyVars
  <2> QED
    BY <2>1, QuietKeeps, Zenon
<1>13. CASE relock(t)
  <2> USE <1>13 DEF relock, Free
  <2>1. ~HasTask => queue \o priv[t] \in Seq(Ops) /\ priv' \in [Threads -> Seq(Ops)]
    BY DEF NoReactor
  <2>2. CASE throws[t]
    <3> USE <2>2 DEF historyVars
    <3>1. InWait' = InWait
      BY Zenon DEF InWait, Places
    <3>2. Typed'
      BY <3>1, Zenon DEF Places
    <3>3. Stopping <=> Stopping'
      BY Zenon DEF Stopping
    <3>4. NoReactor' /\ Interruptible'
      BY <2>1, ZenonT(30) DEF NoReactor, Interruptible, Places
    <3>5. Returned' /\ Noticed' /\ NoWakeupLost'
      BY <3>3, ZenonT(30) DEF Returned, Noticed, NoWakeupLost, GoesOn, Places
    <3> QED
      BY <3>2, <3>4, <3>5, Zenon
  <2>3. CASE ~throws[t]
    <3>1. InWait \ {t} = InWait
      BY Zenon DEF InWait
    <3>2. TopOfLoop(t, queue \o priv[t], waiters, interrupted)
      BY <2>1, <3>1, Zenon DEF TopOfLoop, historyVars
    <3> QED
      BY <2>3, <3>2, TurnKeeps, Zenon
  <2> QED
    BY <2>2, <2>3, Zenon
<1> QED
  BY <1>1, <1>2, <1>3, <1>4, <1>5, <1>6, <1>7, <1>8, <1>9, <1>10, <1>11, <1>12, <1>13, Zenon
     DEF ThreadStep

(* What comes from outside: spurious wake-ups, descriptors, posts and the  *)
(* end of the dummy work.                                                  *)
LEMMA EnvKeeps ==
  ASSUME WakeInv, EnvStep
  PROVE  WakeInv'
<1> USE DEF WakeInv, Typed
<1>1. ASSUME NEW t \in Threads, cond_spurious(t) PROVE WakeInv'
  <2> USE <1>1 DEF cond_spurious, Waiting, serviceVars, threadVars, historyVars
  <2>1. InWait' = InWait
    BY Zenon DEF InWait, Places
  <2>2. Typed'
    BY <2>1, Zenon DEF Places
  <2>3. Stopping <=> Stopping'
    BY Zenon DEF Stopping
  <2>4. NoReactor' /\ Interruptible'
    BY Zenon DEF NoReactor, Interruptible, Places
  <2>5. Returned' /\ Noticed' /\ NoWakeupLost'
    BY <2>3, Zenon DEF Returned, Noticed, NoWakeupLost, GoesOn, Places
  <2> QED
    BY <2>2, <2>4, <2>5, Zenon
<1>2. ASSUME NEW t \in Threads, reactor_ready(t) PROVE WakeInv'
  BY <1>2, ReactorKeeps, Zenon DEF reactor_ready
<1>3. ASSUME NEW p \in Posters, poster_posts(p) \/ drop_work(p) PROVE WakeInv'
  <2>1. PICK t \in Threads : TRUE
    BY IoAssumption, Zenon
  <2>2. Quiet(t, pc[t])
    BY <1>3, Zenon DEF poster_posts, drop_work, post_begin, Quiet, Callers, serviceVars,
                threadVars, historyVars
  <2> QED
    BY <2>2, QuietKeeps, Zenon
<1> QED
  BY <1>1, <1>2, <1>3, Zenon DEF EnvStep

(* Whatever is queued, a thread will come to it: the wake-ups of           *)
(* wake_one_thread_and_unlock, the reactor's interrupt and the event       *)
(* cleared before each wait lose none, for any number of threads.          *)
THEOREM WakeupsKept == Spec => []NoWakeupLost
<1>1. Init => WakeInv
  BY WakeInit, Zenon
<1>2. WakeInv /\ [Next]_vars => WakeInv'
  <2>1. ASSUME WakeInv, UNCHANGED vars PROVE WakeInv'
    BY <2>1, ZenonT(30) DEF vars, serviceVars, threadVars, historyVars, WakeInv, Typed, InWait,
       NoReactor, Noticed, Returned, Interruptible, NoWakeupLost, Stopping, GoesOn, Waiting
  <2> QED
    BY <2>1, CallKeeps, ThreadKeeps, EnvKeeps, Zenon DEF Next
<1>3. WakeInv => NoWakeupLost
  BY Zenon DEF WakeInv
<1> QED
  BY <1>1, <1>2, <1>3, PTL DEF Spec

-----------------------------------------------------------------------------
(* A service without a reactor runs everything before it stops. *)

Posts == [kind : {"post"}, n : Nat]

(* The threads that run an operation which is still counted as work. *)
Busy == {t \in Threads : pc[t] \in {"handler", "cleanup"}}

PoolTyped ==
  /\ pc \in [Threads -> Places \ {"task", "ready", "perform"}]
  /\ call \in [Callers -> {"none", "signal", "stop", "push"}]
  /\ queue \in Seq(Posts)
  /\ priv = [t \in Threads |-> << >>] /\ privWork = [t \in Threads |-> 0]
  /\ cur \in [Threads -> Op] /\ \A t \in Threads : pc[t] = "handler" => cur[t] \in Posts
  /\ work \in Nat /\ pushed \in Nat /\ dummy \in BOOLEAN
  /\ IsFiniteSet(Posting)

(* outstanding_work_, without descriptors and continuations. *)
Counted ==
  work = (IF dummy THEN 1 ELSE 0) + Cardinality(Posting) + Len(queue) + Cardinality(Busy)

(* A handler that was posted has run, is queued or runs. *)
Accounted ==
  /\ done \subseteq 1 .. pushed
  /\ \A n \in 1 .. pushed :
       \/ n \in done
       \/ \E i \in DOMAIN queue : queue[i] = Post(n)
       \/ \E t \in Threads : pc[t] = "handler" /\ cur[t] = Post(n)
  /\ \A i \in DOMAIN queue : queue[i].n \in 1 .. pushed
  /\ \A t \in Threads : pc[t] = "handler" => cur[t].n \in 1 .. pushed

(* The service stops only when it has nothing to do. *)
StopsIdle == Stopping => work = 0

PoolInv == ~HasTask => PoolTyped /\ Counted /\ Accounted /\ StopsIdle

(* No thread runs anything when main starts them. *)
LEMMA PoolInit == Init => PoolInv
<1> SUFFICES ASSUME Init, ~HasTask PROVE PoolTyped /\ Counted /\ Accounted /\ StopsIdle
  BY Zenon DEF PoolInv
<1>1. Posting = {} /\ Busy = {} /\ ~Stopping
  BY Zenon DEF Init, Posting, Busy, Stopping
<1>2. Cardinality({}) = 0 /\ IsFiniteSet({})
  BY FS_EmptySet, Zenon
<1>3. /\ queue = << >> /\ dummy = TRUE /\ work = 1 /\ pushed = 0 /\ done = {}
      /\ \A t \in Threads : pc[t] = "start"
  BY Zenon DEF Init
<1>4. PoolTyped
  BY <1>1, <1>2, <1>3 DEF Init, PoolTyped, Places, Task, Op
<1>5. Counted
  BY <1>1, <1>2, <1>3 DEF Counted
<1>6. Accounted
  BY <1>3 DEF Accounted
<1> QED
  BY <1>1, <1>4, <1>5, <1>6, Zenon DEF StopsIdle

(* A step that neither begins nor ends an operation or a post. *)
PoolQuiet ==
  /\ pc' \in [Threads -> Places \ {"task", "ready", "perform"}]
  /\ \A u \in Threads : pc'[u] = pc[u] \/ {pc[u], pc'[u]} \cap {"handler", "cleanup"} = {}
  /\ call' \in [Callers -> {"none", "signal", "stop", "push"}]
  /\ \A p \in Callers : call'[p] = "push" <=> call[p] = "push"
  /\ UNCHANGED <<queue, priv, privWork, cur, work, pushed, dummy, done>>
  /\ Stopping' => Stopping \/ work = 0

(* Such a step leaves the work alone. *)
LEMMA PoolQuietKeeps ==
  ASSUME ~HasTask, PoolInv, PoolQuiet
  PROVE  PoolInv'
<1> USE DEF PoolInv
<1>1. Posting' = Posting /\ Busy' = Busy
  BY Zenon DEF PoolQuiet, PoolTyped, Posting, Busy
<1>2. \A u \in Threads : pc'[u] = "handler" <=> pc[u] = "handler"
  BY Zenon DEF PoolQuiet
<1>3. PoolTyped'
  BY <1>1, <1>2, Zenon DEF PoolQuiet, PoolTyped
<1>4. Counted'
  BY <1>1, Zenon DEF PoolQuiet, Counted
<1>5. Accounted'
  BY <1>2, Zenon DEF PoolQuiet, Accounted
<1>6. StopsIdle'
  BY Zenon DEF PoolQuiet, StopsIdle
<1> QED
  BY <1>3, <1>4, <1>5, <1>6, Zenon

(* What there is to do is counted: the sizes are natural numbers. *)
LEMMA PoolSizes ==
  ASSUME PoolTyped
  PROVE  /\ Cardinality(Posting) \in Nat /\ Cardinality(Busy) \in Nat /\ Len(queue) \in Nat
         /\ IsFiniteSet(Busy) /\ Busy \subseteq Threads
         /\ (Cardinality(Posting) = 0 <=> Posting = {}) /\ (Cardinality(Busy) = 0 <=> Busy = {})
<1>1. IsFiniteSet(Posting) /\ Len(queue) \in Nat
  BY DEF PoolTyped
<1>2. Busy \subseteq Threads /\ IsFiniteSet(Busy)
  BY FS_Subset, IoAssumption, Zenon DEF Busy
<1> QED
  BY <1>1, <1>2, FS_CardinalityType, FS_EmptySet, Zenon

(* The first operation of the queue is taken by a thread. *)
LEMMA PoolTakes ==
  ASSUME ~HasTask, PoolInv, NEW t \in Threads, pc[t] \notin {"handler", "cleanup"},
         queue # << >>, queue' = Tail(queue), cur' = [cur EXCEPT ![t] = Head(queue)],
         pc' = [pc EXCEPT ![t] = "handler"],
         call' \in [Callers -> {"none", "signal", "stop", "push"}],
         \A p \in Callers : call'[p] = "push" <=> call[p] = "push",
         UNCHANGED <<priv, privWork, work, pushed, dummy, done>>,
         Stopping' => Stopping
  PROVE  PoolInv'
<1> USE DEF PoolInv
<1>1. /\ pc \in [Threads -> Places \ {"task", "ready", "perform"}] /\ queue \in Seq(Posts)
      /\ cur \in [Threads -> Op] /\ work \in Nat
  BY Zenon DEF PoolTyped
<1>2. /\ Head(queue) \in Posts /\ Tail(queue) \in Seq(Posts) /\ Len(Tail(queue)) = Len(queue) - 1
      /\ Head(queue) = queue[1] /\ 1 \in DOMAIN queue
      /\ \A i \in DOMAIN queue : i = 1 \/ (i - 1 \in DOMAIN Tail(queue) /\ Tail(queue)[i - 1] = queue[i])
      /\ \A i \in DOMAIN Tail(queue) : i + 1 \in DOMAIN queue /\ Tail(queue)[i] = queue[i + 1]
  BY <1>1, SMTT(30)
<1>3. Posts \subseteq Op
  BY Zenon DEF Posts, Op
<1>4. /\ Posting' = Posting /\ Busy' = Busy \cup {t} /\ t \notin Busy
      /\ Cardinality(Busy') = Cardinality(Busy) + 1
  <2>1. Posting' = Posting
    BY Zenon DEF Posting
  <2>2. Busy' = Busy \cup {t} /\ t \notin Busy
    BY <1>1, Zenon DEF Busy
  <2> QED
    BY <2>1, <2>2, PoolSizes, FS_AddElement, Zenon
<1>5. /\ \A u \in Threads : u # t => pc'[u] = pc[u] /\ cur'[u] = cur[u]
      /\ pc'[t] = "handler" /\ cur'[t] = Head(queue) /\ cur' \in [Threads -> Op]
      /\ pc' \in [Threads -> Places \ {"task", "ready", "perform"}]
  BY <1>1, <1>2, <1>3, Zenon DEF Places
<1>6. PoolTyped'
  BY <1>2, <1>4, <1>5, ZenonT(30) DEF PoolTyped
<1>7. Counted'
  <2> DEFINE d == IF dummy THEN 1 ELSE 0
  <2>1. d \in Nat /\ d' = d
    BY Zenon
  <2>2. work = d + Cardinality(Posting) + Len(queue) + Cardinality(Busy)
    BY Zenon DEF Counted
  <2>3. /\ Cardinality(Posting) \in Nat /\ Cardinality(Busy) \in Nat /\ Len(queue) \in Nat
        /\ Cardinality(Posting') = Cardinality(Posting) /\ Cardinality(Busy') = Cardinality(Busy) + 1
        /\ Len(queue') = Len(queue) - 1
    BY <1>2, <1>4, PoolSizes, Zenon
  <2> HIDE DEF d
  <2>4. work' = d' + Cardinality(Posting') + Len(queue') + Cardinality(Busy')
    BY <2>1, <2>2, <2>3, SMTT(30)
  <2> QED
    BY <2>4, Zenon DEF Counted, d
<1>8. Accounted'
  <2>1. ASSUME NEW n \in 1 .. pushed, n \notin done
        PROVE  \/ \E i \in DOMAIN queue' : queue'[i] = Post(n)
               \/ \E u \in Threads : pc'[u] = "handler" /\ cur'[u] = Post(n)
    <3>1. CASE \E i \in DOMAIN queue : queue[i] = Post(n)
      <4>1. PICK i \in DOMAIN queue : queue[i] = Post(n)
        BY <3>1, Zenon
      <4>2. CASE i = 1
        BY <1>2, <1>5, <4>1, <4>2, Zenon
      <4>3. CASE i # 1
        <5>1. i - 1 \in DOMAIN Tail(queue) /\ Tail(queue)[i - 1] = Post(n)
          BY <1>2, <4>1, <4>3, Zenon
        <5> QED
          BY <5>1, Zenon
      <4> QED
        BY <4>2, <4>3, Zenon
    <3>2. CASE \E u \in Threads : pc[u] = "handler" /\ cur[u] = Post(n)
      BY <1>5, <3>2, ZenonT(30)
    <3> QED
      BY <2>1, <3>1, <3>2, Zenon DEF Accounted
  <2>2. \A i \in DOMAIN queue' : queue'[i].n \in 1 .. pushed
    BY <1>2, ZenonT(60) DEF Accounted
  <2>3. \A u \in Threads : pc'[u] = "handler" => cur'[u].n \in 1 .. pushed
    BY <1>2, <1>5, ZenonT(60) DEF Accounted
  <2> QED
    BY <2>1, <2>2, <2>3, Zenon DEF Accounted
<1>9. StopsIdle'
  BY Zenon DEF StopsIdle
<1> QED
  BY <1>6, <1>7, <1>8, <1>9, Zenon

(* A turn of do_run_one's loop. *)
LEMMA PoolTurn ==
  ASSUME ~HasTask, PoolInv, NEW t \in Threads, NEW w, NEW intr,
         pc[t] \in {"loop", "woken", "relock"}, Free(t), Turn(t, queue, w, intr),
         UNCHANGED <<stopped, priv, privWork, work, pushed, dummy, done>>
  PROVE  PoolInv'
<1>1. /\ pc \in [Threads -> Places \ {"task", "ready", "perform"}] /\ queue \in Seq(Posts)
      /\ call \in [Callers -> {"none", "signal", "stop", "push"}] /\ t \in Callers
      /\ call[t] = "none"
  BY Zenon DEF PoolInv, PoolTyped, Callers, Free
<1>2. /\ call' \in [Callers -> {"none", "signal", "stop", "push"}]
      /\ \A p \in Callers : call'[p] = call[p] \/ (call[p] = "none" /\ call'[p] = "signal")
  BY <1>1, ZenonT(30)
     DEF Turn, turn_stopped, turn_wait, turn_task, turn_op, wake_one_thread_and_unlock
<1>3. Stopping' => Stopping
  BY <1>2, Zenon DEF Stopping
<1>4. CASE turn_stopped(t, queue, w, intr) \/ turn_wait(t, queue, w, intr)
  <2>1. /\ UNCHANGED <<queue, cur>>
        /\ \E place \in {"returned", "wait"} : pc' = [pc EXCEPT ![t] = place]
    BY <1>4, Zenon DEF turn_stopped, turn_wait
  <2>2. PoolQuiet
    BY <1>1, <1>2, <1>3, <2>1, ZenonT(30) DEF PoolQuiet, Places
  <2> QED
    BY <2>2, PoolQuietKeeps, Zenon
<1>5. CASE turn_task(t, queue, w, intr) \/ turn_op(t, queue, w, intr)
  <2>1. queue # << >>
    BY <1>5, Zenon DEF turn_task, turn_op
  <2>2. Head(queue) \in Posts
    BY <1>1, <2>1
  <2>3. Head(queue) # Task /\ Head(queue).kind # "desc"
    BY <2>2 DEF Posts, Task
  <2>4. /\ queue' = Tail(queue) /\ cur' = [cur EXCEPT ![t] = Head(queue)]
        /\ pc' = [pc EXCEPT ![t] = "handler"]
    BY <1>5, <2>3, Zenon DEF turn_task, turn_op
  <2> QED
    BY <1>1, <1>2, <1>3, <2>1, <2>4, PoolTakes, Zenon
<1> QED
  BY <1>4, <1>5, Zenon DEF Turn

(* Posts and the dummy work: what is counted before it is queued, and what *)
(* is dropped.                                                             *)
LEMMA PoolCalls ==
  ASSUME ~HasTask, PoolInv, NEW p \in Callers,
         post_push(p) \/ poster_posts(p) \/ drop_work(p)
  PROVE  PoolInv'
<1> USE DEF PoolInv, serviceVars, threadVars, historyVars
<1> DEFINE d == IF dummy THEN 1 ELSE 0
<1>1. /\ queue \in Seq(Posts) /\ work \in Nat /\ pushed \in Nat /\ IsFiniteSet(Posting)
      /\ call \in [Callers -> {"none", "signal", "stop", "push"}]
      /\ Cardinality(Posting) \in Nat /\ Cardinality(Busy) \in Nat /\ Len(queue) \in Nat
      /\ work = d + Cardinality(Posting) + Len(queue) + Cardinality(Busy)
  BY PoolSizes, Zenon DEF PoolTyped, Counted
<1>2. UNCHANGED <<pc, cur, priv, privWork, done, stopped>> /\ Busy' = Busy
  BY Zenon DEF post_push, poster_posts, post_begin, drop_work, Busy
<1>3. CASE post_push(p)
  <2>1. /\ call[p] = "push" /\ pushed' = pushed + 1 /\ UNCHANGED <<work, dummy>>
        /\ queue' = Append(queue, Post(pushed + 1))
        /\ call' \in [Callers -> {"none", "signal", "stop", "push"}]
        /\ call'[p] \in {"none", "signal"} /\ \A q \in Callers : q # p => call'[q] = call[q]
    BY <1>1, <1>3, Zenon DEF post_push, wake_one_thread_and_unlock
  <2>2. Posting' = Posting \ {p} /\ p \in Posting
    BY <2>1, Zenon DEF Posting
  <2>3. IsFiniteSet(Posting') /\ Cardinality(Posting') = Cardinality(Posting) - 1
    BY <1>1, <2>2, FS_RemoveElement, Zenon
  <2>4. Post(pushed + 1) \in Posts /\ Post(pushed + 1).n = pushed + 1
    BY <1>1 DEF Post, Posts
  <2>5. /\ queue' \in Seq(Posts) /\ Len(queue') = Len(queue) + 1
        /\ \A i \in DOMAIN queue : i \in DOMAIN queue' /\ queue'[i] = queue[i]
        /\ \A i \in DOMAIN queue' : i \in DOMAIN queue \/ i = Len(queue) + 1
        /\ Len(queue) + 1 \in DOMAIN queue' /\ queue'[Len(queue) + 1] = Post(pushed + 1)
    BY <1>1, <2>1, <2>4, SMTT(30)
  <2>6. PoolTyped'
    <3>1. /\ pushed' \in Nat /\ work' \in Nat /\ dummy' \in BOOLEAN
          /\ \A t \in Threads : pc[t] = "handler" => cur[t] \in Posts
      BY <1>1, <2>1 DEF PoolTyped
    <3> QED
      BY <1>2, <2>1, <2>3, <2>5, <3>1, Zenon DEF PoolTyped
  <2>7. Counted'
    <3>1. d \in Nat /\ d' = d
      BY <2>1, Zenon
    <3>2. Cardinality(Busy') = Cardinality(Busy)
      BY <1>2, Zenon
    <3>3. /\ Cardinality(Posting) \in Nat /\ Cardinality(Busy) \in Nat /\ Len(queue) \in Nat
          /\ Cardinality(Posting') = Cardinality(Posting) - 1 /\ Len(queue') = Len(queue) + 1
          /\ work' = work /\ work = d + Cardinality(Posting) + Len(queue) + Cardinality(Busy)
      BY <1>1, <2>1, <2>3, <2>5, Zenon
    <3> HIDE DEF d
    <3>4. work' = d' + Cardinality(Posting') + Len(queue') + Cardinality(Busy')
      BY <3>1, <3>2, <3>3, SMTT(30)
    <3> QED
      BY <3>4, Zenon DEF Counted, d
  <2>8. Accounted'
    <3>1. 1 .. pushed' = (1 .. pushed) \cup {pushed + 1}
      BY <1>1, <2>1, SMTT(30)
    <3>2. \A i \in DOMAIN queue' : queue'[i].n \in 1 .. pushed'
      BY <2>4, <2>5, <3>1, Zenon DEF Accounted
    <3>3. ASSUME NEW n \in 1 .. pushed'
          PROVE  \/ n \in done \/ \E i \in DOMAIN queue' : queue'[i] = Post(n)
                 \/ \E t \in Threads : pc[t] = "handler" /\ cur[t] = Post(n)
      <4>1. CASE n = pushed + 1
        BY <2>5, <4>1, Zenon
      <4>2. CASE n \in 1 .. pushed
        BY <2>5, <4>2, Zenon DEF Accounted
      <4> QED
        BY <3>1, <4>1, <4>2, Zenon
    <3> QED
      BY <1>2, <3>1, <3>2, <3>3, Zenon DEF Accounted
  <2>9. StopsIdle'
    BY <1>2, <2>1, Zenon DEF StopsIdle, Stopping
  <2> QED
    BY <2>6, <2>7, <2>8, <2>9, Zenon
<1>4. CASE poster_posts(p)
  <2>1. /\ call[p] = "none" /\ dummy = TRUE /\ UNCHANGED <<dummy, queue, pushed>> /\ work' = work + 1
        /\ call' = [call EXCEPT ![p] = "push"]
    BY <1>4, Zenon DEF poster_posts, post_begin, PoolTyped
  <2>2. Posting' = Posting \cup {p} /\ p \notin Posting
    BY <1>1, <2>1, Zenon DEF Posting
  <2>3. IsFiniteSet(Posting') /\ Cardinality(Posting') = Cardinality(Posting) + 1
    BY <1>1, <2>2, FS_AddElement, Zenon
  <2>4. PoolTyped'
    BY <1>1, <1>2, <2>1, <2>3, SMTT(30) DEF PoolTyped
  <2>5. Counted'
    BY <1>1, <1>2, <2>1, <2>3, SMTT(30) DEF Counted
  <2>6. Accounted'
    BY <1>2, <2>1, Zenon DEF Accounted
  <2>7. ~Stopping
    BY <1>1, <2>1, SMTT(30) DEF StopsIdle
  <2>8. ~Stopping'
    BY <1>1, <1>2, <2>1, <2>7, Zenon DEF Stopping
  <2> QED
    BY <2>4, <2>5, <2>6, <2>8, Zenon DEF StopsIdle
<1>5. CASE drop_work(p)
  <2>1. /\ call[p] = "none" /\ dummy = TRUE /\ dummy' = FALSE /\ UNCHANGED <<queue, pushed>>
        /\ work' = work - 1 /\ call' = [call EXCEPT ![p] = IF work = 1 THEN "stop" ELSE "none"]
    BY <1>5, Zenon DEF drop_work, PoolTyped
  <2>2. Posting' = Posting
    BY <1>1, <2>1, Zenon DEF Posting
  <2>3. work' \in Nat
    BY <1>1, <2>1, SMTT(30)
  <2>4. PoolTyped'
    BY <1>1, <1>2, <2>1, <2>2, <2>3, Zenon DEF PoolTyped
  <2>5. Counted'
    BY <1>1, <1>2, <2>1, <2>2, SMTT(30) DEF Counted
  <2>6. Accounted'
    BY <1>2, <2>1, Zenon DEF Accounted
  <2>7. ~Stopping
    BY <1>1, <2>1, SMTT(30) DEF StopsIdle
  <2>8. Stopping' => work' = 0
    BY <1>1, <1>2, <2>1, <2>7 DEF Stopping
  <2> QED
    BY <2>4, <2>5, <2>6, <2>8, Zenon DEF StopsIdle
<1> QED
  BY <1>3, <1>4, <1>5, Zenon

(* A handler ends; then its operation is taken off the work. *)
LEMMA PoolEnds ==
  ASSUME ~HasTask, PoolInv, NEW t \in Threads,
         (\E threw \in BOOLEAN : handler_ends(t, threw)) \/ work_cleanup(t)
  PROVE  PoolInv'
<1> USE DEF PoolInv, serviceVars, historyVars
<1> DEFINE d == IF dummy THEN 1 ELSE 0
<1>1. /\ work \in Nat /\ d \in Nat /\ t \in Callers /\ IsFiniteSet(Busy) /\ IsFiniteSet(Posting)
      /\ call \in [Callers -> {"none", "signal", "stop", "push"}]
      /\ pc \in [Threads -> Places \ {"task", "ready", "perform"}]
      /\ Cardinality(Posting) \in Nat /\ Cardinality(Busy) \in Nat /\ Len(queue) \in Nat
      /\ work = d + Cardinality(Posting) + Len(queue) + Cardinality(Busy)
  BY PoolSizes, Zenon DEF PoolTyped, Counted, Callers
<1>2. UNCHANGED <<queue, cur, priv, pushed, dummy, stopped>> /\ call[t] = "none"
  BY Zenon DEF handler_ends, work_cleanup, InHandler, Free
<1>3. CASE \E threw \in BOOLEAN : handler_ends(t, threw)
  <2>1. /\ pc[t] = "handler" /\ pc' = [pc EXCEPT ![t] = "cleanup"]
        /\ UNCHANGED <<work, call, privWork>>
        /\ done' = IF cur[t].kind = "post" THEN done \cup {cur[t].n} ELSE done
    BY <1>3, Zenon DEF handler_ends, InHandler
  <2>2. cur[t] \in Posts /\ cur[t].n \in 1 .. pushed
    BY <2>1, Zenon DEF PoolTyped, Accounted
  <2>3. done' = done \cup {cur[t].n} /\ cur[t] = Post(cur[t].n)
    BY <2>1, <2>2, Zenon DEF Posts, Post
  <2>4. Posting' = Posting /\ Busy' = Busy
    BY <1>1, <2>1, Zenon DEF Posting, Busy
  <2>5. /\ pc' \in [Threads -> Places \ {"task", "ready", "perform"}] /\ pc'[t] # "handler"
        /\ \A u \in Threads : u # t => pc'[u] = pc[u]
    BY <1>1, <2>1, Zenon DEF Places
  <2>6. PoolTyped' /\ Counted'
    BY <1>2, <2>1, <2>4, <2>5, Zenon DEF PoolTyped, Counted
  <2>7. Accounted'
    <3>1. ASSUME NEW n \in 1 .. pushed, n \notin done'
          PROVE  \/ \E i \in DOMAIN queue : queue[i] = Post(n)
                 \/ \E u \in Threads : pc'[u] = "handler" /\ cur[u] = Post(n)
      <4>1. n # cur[t].n /\ n \notin done /\ Post(n).n = n
        BY <2>3, <3>1, Zenon DEF Post
      <4>2. Post(n) # cur[t]
        BY <4>1, Zenon
      <4> QED
        BY <2>5, <4>1, <4>2, Zenon DEF Accounted
    <3>2. done' \subseteq 1 .. pushed
      BY <2>2, <2>3, Zenon DEF Accounted
    <3>3. /\ \A i \in DOMAIN queue : queue[i].n \in 1 .. pushed
          /\ \A u \in Threads : pc'[u] = "handler" => cur[u].n \in 1 .. pushed
      BY <2>5, Zenon DEF Accounted
    <3> QED
      BY <1>2, <3>1, <3>2, <3>3, Zenon DEF Accounted
  <2>8. StopsIdle'
    BY <1>2, <2>1, Zenon DEF StopsIdle, Stopping
  <2> QED
    BY <2>6, <2>7, <2>8, Zenon
<1>4. CASE work_cleanup(t)
  <2>1. /\ pc[t] = "cleanup" /\ pc' = [pc EXCEPT ![t] = "relock"] /\ work' = work + privWork[t] - 1
        /\ call' = [call EXCEPT ![t] = IF work' = 0 THEN "stop" ELSE "none"]
        /\ privWork' = [privWork EXCEPT ![t] = 0] /\ UNCHANGED done
    BY <1>4, Zenon DEF work_cleanup
  <2>2. work' = work - 1 /\ privWork' = privWork
    BY <1>1, <2>1 DEF PoolTyped
  <2>3. /\ pc' \in [Threads -> Places \ {"task", "ready", "perform"}] /\ pc'[t] = "relock"
        /\ \A u \in Threads : u # t => pc'[u] = pc[u]
    BY <1>1, <2>1, Zenon DEF Places
  <2>4. Posting' = Posting
    BY <1>1, <1>2, <2>1, Zenon DEF Posting
  <2>5. Busy' = Busy \ {t} /\ t \in Busy
    BY <2>1, <2>3, Zenon DEF Busy
  <2>6. Cardinality(Busy') = Cardinality(Busy) - 1 /\ Cardinality(Busy') \in Nat
    BY <1>1, <2>5, FS_RemoveElement, FS_CardinalityType, Zenon
  <2>7. work' \in Nat
    BY <1>1, <2>2, <2>6, SMTT(60)
  <2>8. PoolTyped'
    BY <1>1, <1>2, <2>1, <2>2, <2>3, <2>4, <2>7, Zenon DEF PoolTyped
  <2>9. Counted'
    BY <1>1, <1>2, <2>2, <2>4, <2>6, SMTT(30) DEF Counted
  <2>10. Accounted'
    BY <1>2, <2>1, <2>3, Zenon DEF Accounted
  <2>11. ~Stopping
    <3>1. Cardinality(Busy) > 0
      BY <1>1, <2>6
    <3>2. d + Cardinality(Posting) + Len(queue) \in Nat
      BY <1>1, SMTT(30)
    <3>3. work # 0
      BY <1>1, <3>1, <3>2, SMTT(30)
    <3> QED
      BY <3>3, Zenon DEF StopsIdle
  <2>12. Stopping' => work' = 0
    BY <1>1, <1>2, <2>1, <2>11, Zenon DEF Stopping
  <2> QED
    BY <2>8, <2>9, <2>10, <2>12, Zenon DEF StopsIdle
<1> QED
  BY <1>3, <1>4, Zenon

(* Every step of a service without a reactor. *)
LEMMA PoolStep ==
  ASSUME ~HasTask, PoolInv, [Next]_vars
  PROVE  PoolInv'
<1> USE DEF serviceVars, threadVars, historyVars
<1>1. /\ pc \in [Threads -> Places \ {"task", "ready", "perform"}]
      /\ call \in [Callers -> {"none", "signal", "stop", "push"}]
      /\ queue \in Seq(Posts) /\ queue \o << >> = queue
      /\ priv = [t \in Threads |-> << >>]
      /\ \A t \in Threads : pc[t] = "handler" => cur[t] \in Posts
      /\ Threads \subseteq Callers /\ Posters \subseteq Callers
  BY DEF PoolInv, PoolTyped, Callers
<1>2. ASSUME NEW p \in Callers, CallStep(p) PROVE PoolInv'
  <2>1. CASE cond_signal(p)
    <3>1. /\ call[p] = "signal" /\ call' = [call EXCEPT ![p] = "none"]
          /\ UNCHANGED <<queue, priv, privWork, cur, work, pushed, dummy, done, stopped>>
          /\ \/ pc' = pc
             \/ \E t \in Threads : pc[t] = "wait" /\ pc' = [pc EXCEPT ![t] = "woken"]
      BY <2>1, Zenon DEF cond_signal, Waiting
    <3>2. PoolQuiet
      BY <1>1, <3>1, ZenonT(30) DEF PoolQuiet, Places, Stopping
    <3> QED
      BY <3>2, PoolQuietKeeps, Zenon
  <2>2. CASE stop(p)
    <3>1. /\ call[p] = "stop" /\ call' = [call EXCEPT ![p] = "none"]
          /\ UNCHANGED <<queue, priv, privWork, cur, work, pushed, dummy, done>>
          /\ pc' = [t \in Threads |-> IF pc[t] = "wait" THEN "woken" ELSE pc[t]]
      BY <2>2, Zenon DEF stop, Waiting
    <3>2. PoolQuiet
      BY <1>1, <3>1, Zenon DEF PoolQuiet, Places, Stopping
    <3> QED
      BY <3>2, PoolQuietKeeps, Zenon
  <2>3. CASE post_push(p)
    BY <2>3, PoolCalls, Zenon
  <2> QED
    BY <1>2, <2>1, <2>2, <2>3, Zenon DEF CallStep
<1>3. ASSUME NEW t \in Threads, ThreadStep(t) PROVE PoolInv'
  <2>1. CASE run(t)
    <3>1. /\ pc[t] = "start" /\ call[t] = "none"
          /\ UNCHANGED <<queue, priv, privWork, cur, work, pushed, dummy, done, stopped>>
          /\ \/ /\ work = 0 /\ call' = [call EXCEPT ![t] = "stop"]
                /\ pc' = [pc EXCEPT ![t] = "returned"]
             \/ pc' = [pc EXCEPT ![t] = "loop"] /\ call' = call
      BY <2>1, Zenon DEF run, Free
    <3>2. PoolQuiet
      BY <1>1, <3>1, ZenonT(30) DEF PoolQuiet, Places, Stopping
    <3> QED
      BY <3>2, PoolQuietKeeps, Zenon
  <2>2. CASE do_run_one(t)
    BY <2>2, PoolTurn DEF do_run_one
  <2>3. CASE wait_returns(t)
    <3>1. /\ pc[t] = "woken" /\ Free(t)
          /\ UNCHANGED <<stopped, priv, privWork, work, pushed, dummy, done>>
      BY <2>3, Zenon DEF wait_returns
    <3>2. CASE event
      BY <2>3, <3>1, <3>2, PoolTurn DEF wait_returns
    <3>3. CASE ~event
      <4>1. pc' = [pc EXCEPT ![t] = "wait"] /\ UNCHANGED <<queue, cur, call>>
        BY <2>3, <3>3, Zenon DEF wait_returns
      <4>2. PoolQuiet
        BY <1>1, <3>1, <4>1, Zenon DEF PoolQuiet, Places, Stopping
      <4> QED
        BY <4>2, PoolQuietKeeps, Zenon
    <3> QED
      BY <3>2, <3>3, Zenon
  <2>4. ASSUME \/ reactor_poked(t) \/ task_cleanup(t) \/ deliver_signal(t)
               \/ \E k \in 0 .. MaxActs + 1 : perform_io(t, k)
        PROVE  FALSE
    <3>1. pc[t] \in {"task", "ready", "perform"}
      BY <2>4, Zenon DEF reactor_poked, reactor_returns, task_cleanup, deliver_signal, perform_io
    <3> QED
      BY <1>1, <3>1, Zenon
  <2>5. ASSUME \/ \E d \in Descriptors \ {SignalPipe} : start_op(t, d)
               \/ continue_op(t) \/ complete_op(t)
        PROVE  FALSE
    BY <2>5, Zenon DEF start_op, continue_op, complete_op
  <2>6. ASSUME signal_handler(t) PROVE FALSE
    <3>1. cur[t] = Signal /\ pc[t] = "handler"
      BY <2>6, Zenon DEF signal_handler, InHandler
    <3>2. cur[t] \in Posts
      BY <1>1, <3>1, Zenon
    <3>3. \A o \in Posts : o.kind = "post"
      BY Zenon DEF Posts
    <3>4. Signal.kind = "signal"
      BY Zenon DEF Signal
    <3> HIDE DEF Posts, Signal
    <3> QED
      BY <3>1, <3>2, <3>3, <3>4, Zenon
  <2>7. CASE (\E threw \in BOOLEAN : handler_ends(t, threw)) \/ work_cleanup(t)
    BY <2>7, PoolEnds, Zenon
  <2>8. CASE relock(t)
    <3>1. /\ pc[t] = "relock" /\ Free(t) /\ priv' = [priv EXCEPT ![t] = << >>]
          /\ UNCHANGED <<stopped, privWork, work, pushed, dummy, done>>
      BY <2>8, Zenon DEF relock
    <3>2. priv' = priv /\ queue \o priv[t] = queue
      BY <1>1, <3>1, Zenon
    <3>3. CASE throws[t]
      <4>1. pc' = [pc EXCEPT ![t] = "start"] /\ queue' = queue /\ UNCHANGED <<cur, call>>
        BY <2>8, <3>2, <3>3, Zenon DEF relock
      <4>2. PoolQuiet
        BY <1>1, <3>1, <3>2, <4>1, Zenon DEF PoolQuiet, Places, Stopping
      <4> QED
        BY <4>2, PoolQuietKeeps, Zenon
    <3>4. CASE ~throws[t]
      <4>1. Turn(t, queue, waiters, interrupted)
        BY <2>8, <3>2, <3>4, Zenon DEF relock
      <4> QED
        BY <3>1, <3>2, <4>1, PoolTurn
    <3> QED
      BY <3>3, <3>4, Zenon
  <2> QED
    BY <1>3, <2>1, <2>2, <2>3, <2>4, <2>5, <2>6, <2>7, <2>8, Zenon DEF ThreadStep
<1>4. ASSUME NEW t \in Threads, cond_spurious(t) \/ reactor_ready(t) PROVE PoolInv'
  <2>1. ~reactor_ready(t)
    BY <1>1, Zenon DEF reactor_ready, reactor_returns
  <2>2. /\ pc[t] = "wait" /\ pc' = [pc EXCEPT ![t] = "woken"]
        /\ UNCHANGED <<queue, priv, privWork, cur, work, pushed, dummy, done, stopped, call>>
    BY <1>4, <2>1, Zenon DEF cond_spurious, Waiting
  <2>3. PoolQuiet
    BY <1>1, <2>2, Zenon DEF PoolQuiet, Places, Stopping
  <2> QED
    BY <2>3, PoolQuietKeeps, Zenon
<1>5. ASSUME NEW p \in Posters, poster_posts(p) \/ drop_work(p) PROVE PoolInv'
  BY <1>1, <1>5, PoolCalls, Zenon
<1>6. CASE UNCHANGED vars
  <2>1. PoolQuiet
    BY <1>1, <1>6, Zenon DEF vars, PoolQuiet, Stopping
  <2> QED
    BY <2>1, PoolQuietKeeps, Zenon
<1> QED
  BY <1>2, <1>3, <1>4, <1>5, <1>6, Zenon DEF Next, EnvStep

(* The writer and the readers stop only when everything that was posted to *)
(* them has run, for any number of threads and posters: the count of       *)
(* outstanding work reaches zero not before that, in whatever order posts, *)
(* handlers and the end of the dummy work come (server.cpp 146-154).       *)
THEOREM PoolsDrained == Spec => [](~HasTask => Drained)
<1>1. PoolInv /\ [Next]_vars => PoolInv'
  <2>1. HasTask => PoolInv'
    BY Zenon DEF PoolInv
  <2> QED
    BY <2>1, PoolStep, Zenon
<1>2. PoolInv => (~HasTask => Drained)
  <2> SUFFICES ASSUME PoolInv, ~HasTask, stopped
               PROVE  done = 1 .. pushed /\ Posting = {} /\ Working(queue) = 0
    BY Zenon DEF Drained
  <2>1. PoolTyped /\ Counted /\ Accounted /\ work = 0
    BY Zenon DEF PoolInv, StopsIdle, Stopping
  <2>2. Posting = {} /\ Busy = {} /\ Len(queue) = 0
    BY <2>1, PoolSizes, SMTT(30) DEF Counted
  <2>3. queue = << >> /\ \A t \in Threads : pc[t] # "handler"
    BY <2>1, <2>2 DEF Busy, PoolTyped
  <2>4. done = 1 .. pushed
    <3>1. DOMAIN queue = {}
      BY <2>3
    <3>2. done \subseteq 1 .. pushed /\ \A n \in 1 .. pushed : n \in done
      BY <2>1, <2>3, <3>1, Zenon DEF Accounted
    <3> QED
      BY <3>2, Zenon
  <2>5. {i \in DOMAIN queue : queue[i].kind \in {"post", "io", "signal"}} = {}
    BY <2>3
  <2>6. Working(queue) = 0
    BY <2>5, FS_EmptySet, Zenon DEF Working
  <2> QED
    BY <2>2, <2>4, <2>6, Zenon
<1> QED
  BY <1>1, <1>2, PoolInit, PTL DEF Spec

=============================================================================
