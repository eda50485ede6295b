------------------------------- MODULE FactLog -------------------------------
(***************************************************************************)
(* What nstore promises its clients.  A namespace is a log of transactions *)
(* that only grows at its end.  A transaction is appended as a whole or    *)
(* not at all, and its response says where and what.  A read is answered   *)
(* from a prefix of the log that has at least the transactions which were  *)
(* there when it began.                                                    *)
(*                                                                         *)
(* There are no indices, snapshots, stamps, ids or write transactions      *)
(* here.  What a read makes of the facts of a prefix is a parameter.       *)
(***************************************************************************)
EXTENDS Integers, Sequences

CONSTANTS
  Namespaces,      \* the namespaces there may be
  Readers,         \* those who read
  Basic,           \* the facts every namespace starts with
  Answers(_, _)    \* the answers to a read of some facts as of a transaction

VARIABLES
  log,             \* for each namespace that exists, its transactions' facts
  reply,           \* the last reply to a write
  reading,         \* for each reader, the read it has begun
  answer           \* for each reader, its last answer

vars == <<log, reply, reading, answer>>

Range(seq) == {seq[i] : i \in DOMAIN seq}

Error == [ack |-> "error", ns |-> 0, tx |-> 0, facts |-> {}]
Done  == [ack |-> "ok", ns |-> 0, tx |-> 0, facts |-> {}]

NotReading == [pc |-> "idle", ns |-> 0, arg |-> 0, seen |-> 0]

(* A namespace is created, or is there already. *)
Create(n) ==
  /\ reply' = Done
  /\ log' = IF n \in DOMAIN log THEN log
            ELSE [m \in DOMAIN log \cup {n} |-> IF m = n THEN <<>> ELSE log[m]]
  /\ UNCHANGED <<reading, answer>>

(* A write is refused or fails: it leaves no trace. *)
Refuse ==
  /\ reply' = Error
  /\ UNCHANGED <<log, reading, answer>>

(* A transaction takes effect. *)
Commit(n) ==
  /\ n \in DOMAIN log
  /\ reply' = [ack |-> "ok", ns |-> n, tx |-> Len(log[n]) + 1,
               facts |-> reply'.facts]
  /\ log' = [log EXCEPT ![n] = Append(@, reply'.facts)]
  /\ UNCHANGED <<reading, answer>>

BeginRead(r) ==
  /\ reading[r].pc = "idle"
  /\ reading'[r].ns \in DOMAIN log
  /\ reading' = [reading EXCEPT ![r] =
                   [pc |-> "scan", ns |-> reading'[r].ns, arg |-> reading'[r].arg,
                    seen |-> Len(log[reading'[r].ns])]]
  /\ UNCHANGED <<log, reply, answer>>

(* The read is answered from the first k transactions; a negative argument *)
(* asks for all of them.                                                   *)
EndRead(r) ==
  LET q == reading[r]
      facts(k) == Basic \cup UNION Range(SubSeq(log[q.ns], 1, k))
      asked(k) == IF q.arg < 0 THEN k + 1 ELSE q.arg
  IN  /\ q.pc = "scan"
      /\ \E k \in q.seen .. Len(log[q.ns]) :
           \E ans \in Answers(facts(k), asked(k)) :
             answer' = [answer EXCEPT ![r] =
                          [ns |-> q.ns, tx |-> asked(k), facts |-> ans]]
      /\ reading' = [reading EXCEPT ![r] = NotReading]
      /\ UNCHANGED <<log, reply>>

(* The server is restarted: reads that had begun are not answered. *)
Restart ==
  /\ reading' = [r \in Readers |-> NotReading]
  /\ UNCHANGED <<log, reply, answer>>

Init ==
  /\ log = [n \in {0} |-> <<>>]
  /\ reply = [Done EXCEPT !.ack = "none"]
  /\ reading = [r \in Readers |-> NotReading]
  /\ answer = [r \in Readers |-> [ns |-> 0, tx |-> -1, facts |-> {}]]

Next ==
  \/ \E n \in Namespaces : Create(n)
  \/ Refuse
  \/ \E n \in Namespaces : Commit(n)
  \/ \E r \in Readers : BeginRead(r)
  \/ \E r \in Readers : EndRead(r)
  \/ Restart

Spec == Init /\ [][Next]_vars

=============================================================================
