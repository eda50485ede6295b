---------------------------- MODULE MCIoService ----------------------------
(***************************************************************************)
(* IoService for TLC: the io service, with its reactor, and beside it the  *)
(* reader service, a pool of threads without one.  One of the two moves in *)
(* a behaviour; what is said of both adds up over their threads and        *)
(* descriptors.                                                            *)
(***************************************************************************)
EXTENDS IoService, FiniteSetsExt

CONSTANTS
  PoolThreads,   \* the threads of the reader service
  Main           \* the thread that posts to it and drops its dummy work

VARIABLES
  side,          \* which service moves
  pQueue, pWork, pStopped, pInterrupted, pEvent, pWaiters, pPoke, pPend, pPc,
  pCur, pPriv, pPrivWork, pBlock, pThrows, pCall, pDummy, pAsked, pPushed, pDone, pActs

poolVars == <<pQueue, pWork, pStopped, pInterrupted, pEvent, pWaiters, pPoke, pPend, pPc,
              pCur, pPriv, pPrivWork, pBlock, pThrows, pCall, pDummy, pAsked, pPushed,
              pDone, pActs>>

Pool == INSTANCE IoService WITH
  Threads <- PoolThreads, Posters <- {Main}, HasTask <- FALSE, Descriptors <- {},
  MaxActs <- 0,
  queue <- pQueue, work <- pWork, stopped <- pStopped, interrupted <- pInterrupted,
  event <- pEvent, waiters <- pWaiters, poke <- pPoke, pend <- pPend, pc <- pPc,
  cur <- pCur, priv <- pPriv, privWork <- pPrivWork, block <- pBlock,
  throws <- pThrows, call <- pCall, dummy <- pDummy, asked <- pAsked,
  pushed <- pPushed, done <- pDone, acts <- pActs

allVars == <<side, vars, poolVars>>

Services == Init /\ Pool!Init /\ side \in {"reactor", "pool"}

InReactor(A) == side = "reactor" /\ A /\ UNCHANGED <<side, poolVars>>
InPool(A)    == side = "pool" /\ A /\ UNCHANGED <<side, vars>>

ServicesNext == InReactor(Next) \/ InPool(Pool!Next)

(* The fairness of each is that of IoService. *)
ServicesSpec ==
  /\ Services /\ [][ServicesNext]_allVars
  /\ \A p \in Callers : WF_allVars(InReactor(CallStep(p)))
  /\ \A t \in Threads : WF_allVars(InReactor(ThreadStep(t)))
  /\ \A p \in Pool!Callers : WF_allVars(InPool(Pool!CallStep(p)))
  /\ \A t \in PoolThreads : WF_allVars(InPool(Pool!ThreadStep(t)))

(* outstanding_work_ is what there is to do: the dummy work, posts on      *)
(* their way, queued and running operations and those that wait on         *)
(* descriptors.  If it were less, run() would return with work left        *)
(* (task_io_service.hpp 84-88); if more, the threads would never end and   *)
(* main would not join them (server.cpp 146-151).                          *)
WorkCounted ==
  work = (IF dummy THEN 1 ELSE 0) + Cardinality(Posting) + Working(queue)
         + MapThenSumSet(LAMBDA d : pend[d], Descriptors)
         + Cardinality({t \in Threads : pc[t] \in {"handler", "cleanup"}})
         + MapThenSumSet(LAMBDA t : IF pc[t] = "relock" THEN Len(priv[t]) ELSE 0, Threads)

(* "Any previously returned descriptor operations have already been        *)
(* dequeued" (epoll_reactor.ipp 373-377) when the reactor returns others:  *)
(* a descriptor is at most once in the queues, whose links are in the      *)
(* descriptor itself.                                                      *)
DescriptorsOnce ==
  \A d \in Descriptors :
    LET in(s) == Cardinality({i \in DOMAIN s : s[i] = Desc(d)})
    IN  in(queue) + MapThenSumSet(LAMBDA t : in(priv[t]), Threads) <= 1

(* The pool stops only when everything that was posted to it has run       *)
(* (server.cpp 146-154).                                                   *)
PoolDrained == Pool!Drained

(* What is posted to the pool is run (task_io_service.ipp 314-398).        *)
PoolPostRuns == Pool!PostRuns

(* Every run() of the pool returns once main has dropped the dummy work    *)
(* (server.cpp 146-151).                                                   *)
PoolRunReturns == Pool!RunReturns

=============================================================================
