------------------------------ MODULE MCServer ------------------------------
(***************************************************************************)
(* Server for TLC, with one set of clients and faults at a time: each plan *)
(* is an instance of Server with its requests, faults and bounds.          *)
(***************************************************************************)
EXTENDS Server, TLC

CONSTANTS a, b, r1, r2

VARIABLE plan    \* what clients do, and what goes wrong

TwoSessions == {a, b}
TwoReaders  == {r1, r2}

Symmetric == Permutations(TwoSessions) \cup Permutations(TwoReaders)

(* Clients that create and select namespaces, read and write. *)
Selects == INSTANCE Server WITH
  Ops <- {"select", "facts", "transact", "namespace"}, Faults <- {},
  MaxReq <- 2, MaxTx <- 2

(* Clients that read and write one namespace for longer. *)
Events == INSTANCE Server WITH
  Ops <- {"facts", "transact"}, Faults <- {}, Slots <- 1, MaxReq <- 3, MaxTx <- 2

(* Clients that write while connections, handlers and the server fail. *)
Failures == INSTANCE Server WITH
  Ops <- {"transact"}, Faults <- {"disconnect", "error", "signal"},
  Slots <- 1, MaxReq <- 2, MaxTx <- 2

(* Clients that select a namespace and leave. *)
Leaves == INSTANCE Server WITH
  Ops <- {"bad", "namespace", "select"}, Faults <- {"disconnect"},
  Slots <- 1, MaxReq <- 2, MaxTx <- 1

(* The first client connects when every reader thread has started. *)
ConnectsLate == conn' # conn => \A r \in Readers : rthr[r].pc # "start"

(* A message that is being written arrives before anything else happens.   *)
(* Where nothing fails, write_done changes nothing that other steps or the *)
(* invariants look at: sent and wq together stay the same.                 *)
WritesFirst == writing # {} => sent' # sent

PlanInit == Init /\ plan \in {"selects", "events", "failures", "leaves"}

PlanNext ==
  /\ \/ plan = "selects" /\ Selects!Next
     \/ plan = "events" /\ Events!Next /\ WritesFirst
     \/ plan = "failures" /\ Failures!Next
     \/ plan = "leaves" /\ Leaves!Next
  /\ ConnectsLate
  /\ UNCHANGED plan

PlanSpec == PlanInit /\ [][PlanNext]_<<vars, plan>>

=============================================================================
