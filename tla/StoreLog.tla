------------------------------ MODULE StoreLog ------------------------------
(***************************************************************************)
(* Store implements FactLog: the EATV index of a namespace, cut up by the  *)
(* transaction numbers in its stamps, is the namespace's log.              *)
(***************************************************************************)
EXTENDS Store

(* The first n transactions of an index. *)
Cut(eatv, n) == [i \in 1 .. n |-> {d \in eatv : TxOf(d) = i}]

LogOf == [ns \in DOMAIN db |-> Cut(db[ns].eatv, db[ns].tx - 1)]

ReplyOf ==
  [ack |-> reply.ack, ns |-> reply.ns, tx |-> reply.tx,
   facts |-> {reply.facts[i] : i \in DOMAIN reply.facts}]

(* A snapshot is a read of the transactions it holds. *)
ReadOf(q) ==
  [pc |-> q.pc, ns |-> q.ns, arg |-> q.arg, seen |-> q.snap.tx - 1]

AnswerOf(ans) == [ns |-> ans.ns, tx |-> ans.tx, facts |-> ans.facts]

ReadingOf == [r \in Readers |-> ReadOf(rd[r])]
AnswersOf == [r \in Readers |-> AnswerOf(answer[r])]

Schema(eatv) == {d \in eatv : d.a < db_initial_id}

(* What handle_facts may answer from a store that holds just these datoms. *)
AnswersFrom(eatv, tx) ==
  {FactsAt([eatv |-> eatv, aetv |-> Schema(eatv)], tx, junk) :
     junk \in JunkChoices(Schema(eatv), db_cardinality)}

Log == INSTANCE FactLog WITH
  Basic <- BasicFacts,
  Answers <- AnswersFrom,
  log <- LogOf,
  reply <- ReplyOf,
  reading <- ReadingOf,
  answer <- AnswersOf

(* The store, with its indices, stamps, snapshots and write transactions,  *)
(* does only what a log of transactions may do: handle_transact appends    *)
(* its facts to the log at once or not at all, handle_facts answers from a *)
(* prefix that has all that was there when it began, and a crash loses no  *)
(* transaction.                                                            *)
ImplementsLog == Log!Spec

=============================================================================
