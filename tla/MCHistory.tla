----------------------------- MODULE MCHistory ------------------------------
(***************************************************************************)
(* Store for TLC, with one set of clients at a time: each client plan is   *)
(* an instance of Store with its requests, reads and bounds.               *)
(***************************************************************************)
EXTENDS MCStore

VARIABLE plan    \* which clients there are

(* Every shape of fact list, over two namespaces. *)
Shapes == INSTANCE Store WITH
  NsArgs <- {-1}, Selected <- {0, 1}, Requests <- HistoryRequests,
  ReadArgs <- {}, MaxTx <- 2

(* Facts, a schema fact and a retraction, with a reader. *)
Reads == INSTANCE Store WITH
  NsArgs <- {0}, Selected <- {0}, Requests <- ReaderRequests,
  ReadArgs <- ReaderArgs, MaxTx <- 3

(* Identifiers that are set, changed, swapped and retracted, while a later *)
(* namespace may exist.                                                    *)
Idents == INSTANCE Store WITH
  NsArgs <- {1}, Selected <- {0}, Requests <- IdentRequests,
  ReadArgs <- {}, MaxTx <- 4

AllRequests == HistoryRequests \cup ReaderRequests \cup IdentRequests

PlanInit == Init /\ plan \in {"shapes", "reads", "idents"}

PlanNext ==
  /\ \/ plan = "shapes" /\ Shapes!Next
     \/ plan = "reads" /\ Reads!Next
     \/ plan = "idents" /\ Idents!Next
  /\ UNCHANGED plan

PlanSpec == PlanInit /\ [][PlanNext]_<<vars, plan>>

=============================================================================
