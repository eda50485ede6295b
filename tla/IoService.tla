------------------------------ MODULE IoService ------------------------------
(***************************************************************************)
(* asio's io_service (task_io_service) as nstore runs it.  Server takes    *)
(* from it that what is posted is run, that run() returns only when it is  *)
(* stopped or has nothing left to do, and that stop() ends it; this module *)
(* is how the service brings that about.                                   *)
(*                                                                         *)
(* The writer and the reader service have threads that wait for posts and  *)
(* a dummy work that main drops at the end.  The io service has, instead,  *)
(* a reactor (HasTask): its place in the queue is Task, and one thread at  *)
(* a time waits in it for descriptors or for an interrupt.                 *)
(*                                                                         *)
(* A step is a stretch of code under mutex_, an atomic change of           *)
(* outstanding_work_, or a call that comes after the unlock.  What a       *)
(* caller has still to do of a call to the service is in call.  Handlers   *)
(* that post to their own service use the same steps as other threads.     *)
(***************************************************************************)
EXTENDS Integers, Sequences, FiniteSets

CONSTANTS
  Threads,      \* the threads inside run()
  Posters,      \* the other threads that post to the service
  HasTask,      \* whether the service has a reactor
  Descriptors,  \* the descriptors of the reactor
  MaxPosts,     \* bound: the handlers posted
  MaxActs       \* bound: what handlers do beside returning

(* The writer has one thread, the readers have several, and only main runs *)
(* the io service (server.cpp 126-142).                                    *)
ASSUME IoAssumption ==
  /\ IsFiniteSet(Threads) /\ Threads # {}
  /\ HasTask \in BOOLEAN
  /\ HasTask => \E t \in Threads : Threads = {t}
  /\ Descriptors \subseteq Nat /\ MaxPosts \in Nat /\ MaxActs \in Nat

VARIABLES
  queue,        \* op_queue_
  work,         \* outstanding_work_
  stopped,      \* stopped_
  interrupted,  \* task_interrupted_
  event,        \* the lowest bit of the event's state_: signalled
  waiters,      \* the rest of it: the threads inside wait
  poke,         \* epoll has the interrupter ready
  pend,         \* the operations waiting in each descriptor_state
  pc,           \* where each thread is
  cur,          \* the operation each thread runs
  priv,         \* its private_op_queue
  privWork,     \* its private_outstanding_work
  block,        \* whether its reactor may block
  throws,       \* whether its handler has thrown
  call,         \* what is left of the call to the service each thread makes
  dummy,        \* whether the dummy work exists
  asked,        \* whether a handler has called stop()
  pushed, done, \* how many posted handlers were queued; which have run
  acts

serviceVars == <<queue, interrupted, event, waiters, poke>>
threadVars  == <<cur, priv, privWork, block, throws>>
historyVars == <<dummy, asked, pushed, done, acts>>
vars == <<serviceVars, work, stopped, pend, pc, threadVars, call, historyVars>>

-----------------------------------------------------------------------------
Callers == Threads \cup Posters

(* An operation: a posted handler, a descriptor with events, the handler   *)
(* of an operation on one that has completed, or the place of the reactor. *)
Op == [kind : {"post", "desc", "io", "signal", "task"}, n : Nat]

Post(n) == [kind |-> "post", n |-> n]
Desc(d) == [kind |-> "desc", n |-> d]
Io      == [kind |-> "io", n |-> 0]
Signal  == [kind |-> "signal", n |-> 0]
Task    == [kind |-> "task", n |-> 0]

(* The descriptor of the pipe through which signals come; the operation    *)
(* waiting there is that of the signal set.                                *)
SignalPipe == 0

Waiting(t) == pc[t] = "wait"

(* The service when main starts its threads: the dummy work, or a reactor  *)
(* with one operation waiting on each descriptor (the acceptor, the        *)
(* signals).                                                               *)
Init ==
  /\ queue = IF HasTask THEN << Task >> ELSE << >>
  /\ work = IF HasTask THEN Cardinality(Descriptors) ELSE 1
  /\ stopped = FALSE /\ interrupted = TRUE
  /\ event = FALSE /\ waiters = 0 /\ poke = FALSE
  /\ pend = [d \in Descriptors |-> 1]
  /\ pc = [t \in Threads |-> "start"]
  /\ cur = [t \in Threads |-> Task]
  /\ priv = [t \in Threads |-> << >>]
  /\ privWork = [t \in Threads |-> 0]
  /\ block = [t \in Threads |-> FALSE]
  /\ throws = [t \in Threads |-> FALSE]
  /\ call = [p \in Callers |-> "none"]
  /\ dummy = ~HasTask /\ asked = FALSE
  /\ pushed = 0 /\ done = {} /\ acts = 0

-----------------------------------------------------------------------------
(* Waking threads. *)

(* Mutant: the event is set but the condition variable is not signalled. *)
wake_one_thread_and_unlock_Silent(p, w, intr) ==
  /\ event' = TRUE
  /\ call' = [call EXCEPT ![p] = "none"]
  /\ interrupted' = (intr \/ (w = 0 /\ HasTask))
  /\ poke' = (poke \/ (w = 0 /\ ~intr /\ HasTask))

(* wake_one_thread_and_unlock by p, with w threads inside wait: signal the *)
(* event and, if one waits, its condition variable after the unlock; if    *)
(* none does, interrupt the reactor.                                       *)
wake_one_thread_and_unlock(p, w, intr) ==
  /\ event' = TRUE
  /\ call' = [call EXCEPT ![p] = IF w > 0 THEN "signal" ELSE "none"]
  /\ interrupted' = (intr \/ (w = 0 /\ HasTask))
  /\ poke' = (poke \/ (w = 0 /\ ~intr /\ HasTask))

(* pthread_cond_signal: a thread inside pthread_cond_wait, if there is     *)
(* one, wakes up.                                                          *)
cond_signal(p) ==
  /\ call[p] = "signal"
  /\ call' = [call EXCEPT ![p] = "none"]
  /\ IF \E t \in Threads : Waiting(t)
       THEN \E t \in Threads : Waiting(t) /\ pc' = [pc EXCEPT ![t] = "woken"]
       ELSE UNCHANGED pc
  /\ UNCHANGED <<serviceVars, work, stopped, pend, threadVars, historyVars>>

(* pthread_cond_wait may return by itself. *)
cond_spurious(t) ==
  /\ Waiting(t)
  /\ pc' = [pc EXCEPT ![t] = "woken"]
  /\ UNCHANGED <<serviceVars, work, stopped, pend, threadVars, call, historyVars>>

(* Mutant: one waiting thread is signalled instead of all. *)
stop_One(p) ==
  /\ call[p] = "stop"
  /\ call' = [call EXCEPT ![p] = "signal"]
  /\ stopped' = TRUE /\ event' = TRUE
  /\ interrupted' = (interrupted \/ HasTask)
  /\ poke' = (poke \/ (~interrupted /\ HasTask))
  /\ UNCHANGED <<queue, waiters, work, pend, pc, threadVars, historyVars>>

(* stop_all_threads: every waiting thread is woken and the reactor is      *)
(* interrupted.                                                            *)
stop(p) ==
  /\ call[p] = "stop"
  /\ call' = [call EXCEPT ![p] = "none"]
  /\ stopped' = TRUE /\ event' = TRUE
  /\ pc' = [t \in Threads |-> IF Waiting(t) THEN "woken" ELSE pc[t]]
  /\ interrupted' = (interrupted \/ HasTask)
  /\ poke' = (poke \/ (~interrupted /\ HasTask))
  /\ UNCHANGED <<queue, waiters, work, pend, threadVars, historyVars>>

-----------------------------------------------------------------------------
(* Posting: the work is counted, then the operation is queued. *)

post_begin(p) ==
  /\ call[p] = "none"
  /\ work' = work + 1
  /\ call' = [call EXCEPT ![p] = "push"]
  /\ UNCHANGED <<serviceVars, stopped, pend, pc, threadVars>>

post_push(p) ==
  /\ call[p] = "push"
  /\ queue' = Append(queue, Post(pushed + 1))
  /\ pushed' = pushed + 1
  /\ wake_one_thread_and_unlock(p, waiters, interrupted)
  /\ UNCHANGED <<waiters, work, stopped, pend, pc, threadVars, dummy, asked, done, acts>>

Posting == {p \in Callers : call[p] = "push"}

(* A thread outside the service posts: the io thread to the writer or the  *)
(* readers as long as the dummy work exists, they to the io thread always. *)
poster_posts(p) ==
  /\ dummy \/ HasTask
  /\ pushed + Cardinality(Posting) < MaxPosts
  /\ post_begin(p)
  /\ UNCHANGED historyVars

(* Mutant: the service is stopped with the dummy work, whatever is left. *)
drop_work_Stops(p) ==
  /\ dummy /\ call[p] = "none"
  /\ dummy' = FALSE
  /\ work' = work - 1
  /\ call' = [call EXCEPT ![p] = "stop"]
  /\ UNCHANGED <<serviceVars, stopped, pend, pc, threadVars, asked, pushed, done, acts>>

(* ~work: main drops the dummy work. *)
drop_work(p) ==
  /\ dummy /\ call[p] = "none"
  /\ dummy' = FALSE
  /\ work' = work - 1
  /\ call' = [call EXCEPT ![p] = IF work = 1 THEN "stop" ELSE "none"]
  /\ UNCHANGED <<serviceVars, stopped, pend, pc, threadVars, asked, pushed, done, acts>>

-----------------------------------------------------------------------------
(* A thread inside run(). *)

Free(t) == call[t] = "none"

(* run: with nothing to do the service is stopped. *)
run(t) ==
  /\ pc[t] = "start" /\ Free(t)
  /\ throws' = [throws EXCEPT ![t] = FALSE]
  /\ IF work = 0
       THEN /\ call' = [call EXCEPT ![t] = "stop"]
            /\ pc' = [pc EXCEPT ![t] = "returned"]
       ELSE /\ pc' = [pc EXCEPT ![t] = "loop"]
            /\ UNCHANGED call
  /\ UNCHANGED <<serviceVars, work, stopped, pend, cur, priv, privWork, block, historyVars>>

(* One turn of the loop of do_run_one by t, which holds the mutex: q is    *)
(* the queue, w the number of threads inside wait and intr the value of    *)
(* task_interrupted_ that t finds or has just set.                         *)
turn_stopped(t, q, w, intr) ==
  /\ stopped
  /\ pc' = [pc EXCEPT ![t] = "returned"]
  /\ queue' = q /\ waiters' = w /\ interrupted' = intr
  /\ UNCHANGED <<event, poke, cur, block, call>>

turn_wait(t, q, w, intr) ==
  /\ ~stopped /\ q = << >>
  /\ pc' = [pc EXCEPT ![t] = "wait"]
  /\ event' = FALSE
  /\ queue' = q /\ waiters' = w + 1 /\ interrupted' = intr
  /\ UNCHANGED <<poke, cur, block, call>>

(* Mutant: a reactor that may block is taken for interrupted. *)
turn_task_Interrupted(t, q, w, intr) ==
  /\ ~stopped /\ q # << >> /\ Head(q) = Task
  /\ LET more == Tail(q) # << >>
     IN  /\ event' = (event \/ more)
         /\ call' = [call EXCEPT ![t] = IF more /\ w > 0 THEN "signal" ELSE "none"]
         /\ interrupted' = intr
         /\ block' = [block EXCEPT ![t] = ~more]
  /\ pc' = [pc EXCEPT ![t] = "task"]
  /\ cur' = [cur EXCEPT ![t] = Task]
  /\ queue' = Tail(q) /\ waiters' = w
  /\ UNCHANGED poke

turn_task(t, q, w, intr) ==
  /\ ~stopped /\ q # << >> /\ Head(q) = Task
  /\ LET more == Tail(q) # << >>
     IN  /\ event' = (event \/ more)
         /\ call' = [call EXCEPT ![t] = IF more /\ w > 0 THEN "signal" ELSE "none"]
         /\ interrupted' = more
         /\ block' = [block EXCEPT ![t] = ~more]
  /\ pc' = [pc EXCEPT ![t] = "task"]
  /\ cur' = [cur EXCEPT ![t] = Task]
  /\ queue' = Tail(q) /\ waiters' = w
  /\ UNCHANGED poke

turn_op(t, q, w, intr) ==
  /\ ~stopped /\ q # << >> /\ Head(q) # Task
  /\ IF Tail(q) # << >>
       THEN wake_one_thread_and_unlock(t, w, intr)
       ELSE interrupted' = intr /\ UNCHANGED <<event, poke, call>>
  /\ pc' = [pc EXCEPT ![t] = IF Head(q).kind = "desc" THEN "perform" ELSE "handler"]
  /\ cur' = [cur EXCEPT ![t] = Head(q)]
  /\ queue' = Tail(q) /\ waiters' = w
  /\ UNCHANGED block

Turn(t, q, w, intr) ==
  \/ turn_stopped(t, q, w, intr) \/ turn_wait(t, q, w, intr)
  \/ turn_task(t, q, w, intr) \/ turn_op(t, q, w, intr)

(* do_run_one takes the mutex. *)
do_run_one(t) ==
  /\ pc[t] = "loop" /\ Free(t)
  /\ Turn(t, queue, waiters, interrupted)
  /\ UNCHANGED <<work, stopped, pend, priv, privWork, throws, historyVars>>

(* A thread that was woken has the mutex again; it waits on if the event   *)
(* is not signalled any more.                                              *)
wait_returns(t) ==
  /\ pc[t] = "woken" /\ Free(t)
  /\ IF event THEN Turn(t, queue, waiters - 1, interrupted)
     ELSE /\ pc' = [pc EXCEPT ![t] = "wait"]
          /\ UNCHANGED <<serviceVars, cur, block, call>>
  /\ UNCHANGED <<work, stopped, pend, priv, privWork, throws, historyVars>>

-----------------------------------------------------------------------------
(* The reactor. *)

(* epoll_wait returns with the descriptors of R, each as an operation in   *)
(* the private queue.                                                      *)
reactor_returns(t, R) ==
  /\ pc[t] = "task" /\ Free(t)
  /\ poke' = FALSE
  /\ \E s \in [1 .. Cardinality(R) -> R] :
       /\ \A d \in R : \E i \in DOMAIN s : s[i] = d
       /\ priv' = [priv EXCEPT ![t] = [i \in DOMAIN s |-> Desc(s[i])]]
  /\ pc' = [pc EXCEPT ![t] = "ready"]
  /\ UNCHANGED <<queue, interrupted, event, waiters, work, stopped, pend, cur, privWork,
                 block, throws, call, historyVars>>

(* It has been interrupted or must not block, *)
reactor_poked(t) ==
  /\ poke \/ ~block[t]
  /\ \E R \in SUBSET Descriptors : reactor_returns(t, R)

(* or something happens on a descriptor. *)
reactor_ready(t) ==
  /\ ~poke /\ block[t]
  /\ \E R \in SUBSET Descriptors : R # {} /\ reactor_returns(t, R)

(* Mutant: the reactor is queued before the descriptors it returned. *)
task_cleanup_Front(t) ==
  /\ pc[t] = "ready" /\ Free(t)
  /\ Turn(t, queue \o << Task >> \o priv[t], waiters, TRUE)
  /\ priv' = [priv EXCEPT ![t] = << >>]
  /\ UNCHANGED <<work, stopped, pend, privWork, throws, historyVars>>

(* Mutant: what the reactor returned, and the reactor, come first. *)
task_cleanup_First(t) ==
  /\ pc[t] = "ready" /\ Free(t)
  /\ Turn(t, priv[t] \o << Task >> \o queue, waiters, TRUE)
  /\ priv' = [priv EXCEPT ![t] = << >>]
  /\ UNCHANGED <<work, stopped, pend, privWork, throws, historyVars>>

(* ~task_cleanup: the descriptors are queued and the reactor behind them.  *)
task_cleanup(t) ==
  /\ pc[t] = "ready" /\ Free(t)
  /\ Turn(t, queue \o priv[t] \o << Task >>, waiters, TRUE)
  /\ priv' = [priv EXCEPT ![t] = << >>]
  /\ UNCHANGED <<work, stopped, pend, privWork, throws, historyVars>>

(* perform_io on the pipe: its own operation never completes, but it       *)
(* queues the handler of the signal set.                                   *)
deliver_signal(t) ==
  /\ pc[t] = "perform" /\ Free(t) /\ cur[t] = Desc(SignalPipe)
  /\ IF pend[SignalPipe] > 0
       THEN /\ pend' = [pend EXCEPT ![SignalPipe] = 0]
            /\ queue' = Append(queue, Signal)
            /\ wake_one_thread_and_unlock(t, waiters, interrupted)
       ELSE UNCHANGED <<pend, queue, interrupted, event, poke, call>>
  /\ work' = work + 1
  /\ pc' = [pc EXCEPT ![t] = "cleanup"]
  /\ UNCHANGED <<waiters, stopped, threadVars, historyVars>>

(* Mutant: the work of a descriptor without completions is not made up for. *)
perform_io_Uncounted(t, k) ==
  /\ pc[t] = "perform" /\ Free(t) /\ cur[t] # Desc(SignalPipe)
  /\ k <= pend[cur[t].n]
  /\ pend' = [pend EXCEPT ![cur[t].n] = @ - k]
  /\ pc' = [pc EXCEPT ![t] = IF k = 0 THEN "cleanup" ELSE "handler"]
  /\ IF k > 1
       THEN /\ queue' = queue \o [i \in 1 .. k - 1 |-> Io]
            /\ wake_one_thread_and_unlock(t, waiters, interrupted)
       ELSE UNCHANGED <<queue, interrupted, event, poke, call>>
  /\ UNCHANGED <<waiters, work, stopped, threadVars, historyVars>>

(* perform_io on another: k of its operations complete.  The handler of    *)
(* the first is called next, the others are queued; if there is none, the  *)
(* work that work_cleanup takes off is made up for.                        *)
perform_io(t, k) ==
  /\ pc[t] = "perform" /\ Free(t) /\ cur[t] # Desc(SignalPipe)
  /\ k <= pend[cur[t].n]
  /\ pend' = [pend EXCEPT ![cur[t].n] = @ - k]
  /\ IF k = 0
       THEN work' = work + 1 /\ pc' = [pc EXCEPT ![t] = "cleanup"]
       ELSE UNCHANGED work /\ pc' = [pc EXCEPT ![t] = "handler"]
  /\ IF k > 1
       THEN /\ queue' = queue \o [i \in 1 .. k - 1 |-> Io]
            /\ wake_one_thread_and_unlock(t, waiters, interrupted)
       ELSE UNCHANGED <<queue, interrupted, event, poke, call>>
  /\ UNCHANGED <<waiters, stopped, threadVars, historyVars>>

-----------------------------------------------------------------------------
(* Handlers. *)

InHandler(t) == pc[t] = "handler" /\ Free(t)

(* What the handlers of the io service do to it, up to MaxActs times: they *)
(* start an operation that has to wait,                                    *)
start_op(t, d) ==
  /\ InHandler(t) /\ cur[t] # Signal /\ HasTask /\ acts < MaxActs
  /\ pend' = [pend EXCEPT ![d] = @ + 1]
  /\ work' = work + 1
  /\ acts' = acts + 1
  /\ UNCHANGED <<serviceVars, stopped, pc, threadVars, call, dummy, asked, pushed, done>>

(* or one that completes at once, as a continuation                        *)
continue_op(t) ==
  /\ InHandler(t) /\ cur[t] # Signal /\ HasTask /\ acts < MaxActs
  /\ privWork' = [privWork EXCEPT ![t] = @ + 1]
  /\ priv' = [priv EXCEPT ![t] = Append(@, Io)]
  /\ acts' = acts + 1
  /\ UNCHANGED <<serviceVars, work, stopped, pend, pc, cur, block, throws, call,
                 dummy, asked, pushed, done>>

(* or not.                                                                 *)
complete_op(t) ==
  /\ InHandler(t) /\ cur[t] # Signal /\ HasTask /\ acts < MaxActs
  /\ pushed + Cardinality(Posting) < MaxPosts
  /\ post_begin(t)
  /\ acts' = acts + 1
  /\ UNCHANGED <<dummy, asked, pushed, done>>

(* The handler of the signal set stops the service. *)
signal_handler(t) ==
  /\ InHandler(t) /\ cur[t] = Signal
  /\ asked' = TRUE
  /\ call' = [call EXCEPT ![t] = "stop"]
  /\ pc' = [pc EXCEPT ![t] = "cleanup"]
  /\ UNCHANGED <<serviceVars, work, stopped, pend, threadVars, dummy, pushed, done, acts>>

(* A handler returns, or throws what IO_LOOP catches. *)
handler_ends(t, threw) ==
  /\ InHandler(t) /\ cur[t] # Signal
  /\ throws' = [throws EXCEPT ![t] = threw]
  /\ done' = IF cur[t].kind = "post" THEN done \cup {cur[t].n} ELSE done
  /\ pc' = [pc EXCEPT ![t] = "cleanup"]
  /\ UNCHANGED <<serviceVars, work, stopped, pend, cur, priv, privWork, block, call,
                 dummy, asked, pushed, acts>>

(* ~work_cleanup, first half: the operation is taken off the work and the  *)
(* continuations are added to it.                                          *)
work_cleanup(t) ==
  /\ pc[t] = "cleanup" /\ Free(t)
  /\ work' = work + privWork[t] - 1
  /\ call' = [call EXCEPT ![t] = IF work' = 0 THEN "stop" ELSE "none"]
  /\ privWork' = [privWork EXCEPT ![t] = 0]
  /\ pc' = [pc EXCEPT ![t] = "relock"]
  /\ UNCHANGED <<serviceVars, stopped, pend, cur, priv, block, throws, historyVars>>

(* Second half, with the mutex again: the continuations are queued, and    *)
(* run goes on; after an exception IO_LOOP calls it anew.                  *)
relock(t) ==
  /\ pc[t] = "relock" /\ Free(t)
  /\ IF throws[t]
       THEN /\ queue' = queue \o priv[t]
            /\ pc' = [pc EXCEPT ![t] = "start"]
            /\ UNCHANGED <<interrupted, event, waiters, poke, cur, block, call>>
       ELSE Turn(t, queue \o priv[t], waiters, interrupted)
  /\ priv' = [priv EXCEPT ![t] = << >>]
  /\ UNCHANGED <<work, stopped, pend, privWork, throws, historyVars>>

-----------------------------------------------------------------------------
CallStep(p) == cond_signal(p) \/ stop(p) \/ post_push(p)

ThreadStep(t) ==
  \/ run(t) \/ do_run_one(t) \/ wait_returns(t)
  \/ reactor_poked(t) \/ task_cleanup(t) \/ deliver_signal(t)
  \/ \E k \in 0 .. MaxActs + 1 : perform_io(t, k)
  \/ \E d \in Descriptors \ {SignalPipe} : start_op(t, d)
  \/ continue_op(t) \/ complete_op(t) \/ signal_handler(t)
  \/ \E threw \in BOOLEAN : handler_ends(t, threw)
  \/ work_cleanup(t) \/ relock(t)

EnvStep ==
  \/ \E t \in Threads : cond_spurious(t) \/ reactor_ready(t)
  \/ \E p \in Posters : poster_posts(p) \/ drop_work(p)

Next ==
  \/ \E p \in Callers : CallStep(p)
  \/ \E t \in Threads : ThreadStep(t)
  \/ EnvStep

Spec == Init /\ [][Next]_vars

(* Every thread that can go on does, and so does every caller inside a     *)
(* call.  Nobody has to post, to send a signal or to make a descriptor     *)
(* ready.                                                                  *)
FairSpec ==
  /\ Spec
  /\ \A p \in Callers : WF_vars(CallStep(p))
  /\ \A t \in Threads : WF_vars(ThreadStep(t))

-----------------------------------------------------------------------------
(* Properties. *)

(* The operations of a sequence that count as work: those of descriptors   *)
(* do not.                                                                 *)
Working(s) == Cardinality({i \in DOMAIN s : s[i].kind \in {"post", "io", "signal"}})

(* A service that no handler has stopped stops only when everything that   *)
(* was posted has run: after the signal the requests that were accepted    *)
(* are carried out before the database is closed (server.cpp 146-154).     *)
Drained ==
  stopped /\ ~asked => done = 1 .. pushed /\ Posting = {} /\ Working(queue) = 0

(* Whether t will look at the queue without being woken by another thread. *)
GoesOn(t) ==
  /\ pc[t] \notin {"wait", "returned"}
  /\ pc[t] = "task" /\ block[t] => poke

Stopping == stopped \/ \E p \in Callers : call[p] = "stop"

(* No wake-up is lost: whenever an operation is queued, some thread will   *)
(* come to it, or a thread waits and a signal is on its way to it.         *)
(* Between the unlock and the signal another thread may have taken the     *)
(* operation, gone back to wait or cleared the event (posix_event.hpp      *)
(* 73-108, task_io_service.ipp 376-380, 453-465).                          *)
NoWakeupLost ==
  queue # << >> /\ ~Stopping =>
    \/ \E t \in Threads : GoesOn(t)
    \/ /\ \E t \in Threads : Waiting(t)
       /\ \E p \in Callers : call[p] = "signal"

(* A posted handler is run in the end, whichever threads wait, in the      *)
(* event or in the reactor, unless the service is stopped by a signal.     *)
(* Server assumes this of its writer, readers and io thread.               *)
PostRuns == \A n \in 1 .. MaxPosts : pushed >= n ~> (n \in done \/ asked)

(* Every run() returns once the service is stopped, or once its dummy work *)
(* is dropped: main joins the threads (server.cpp 146-151).                *)
RunReturns ==
  (asked \/ (~HasTask /\ ~dummy)) ~> \A t \in Threads : pc[t] = "returned"

=============================================================================
