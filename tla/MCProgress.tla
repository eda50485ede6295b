----------------------------- MODULE MCProgress -----------------------------
(***************************************************************************)
(* What becomes of a request, from its bytes on the connection (Wire) over *)
(* the queues and threads of the server (Server) to the work of a handler  *)
(* on the store (Store).  One of the three moves in a behaviour, and the   *)
(* fairness assumed of each is its FairSpec.                               *)
(***************************************************************************)
EXTENDS MCStore

CONSTANTS s1, s2, r2   \* two sessions and a second reader thread

VARIABLES
  part,              \* which one moves
  conn, reading, nreq, ns, wq, writing, sent, members, ioq, writerq, readerq, wthr,
  rthr, tx, main,
  stream, bytesSent, got, closed, buf, op, taken, outq, total, events, log, out

server == <<conn, reading, nreq, ns, wq, writing, sent, members, ioq, writerq, readerq,
            wthr, rthr, tx, main>>
wire   == <<stream, bytesSent, got, closed, buf, op, taken, outq, total, events, log, out>>

-----------------------------------------------------------------------------
(* The reads of the store. *)
Asked == {-1, TxWrap}

(* Two reader threads and one slot. *)
Srv == INSTANCE Server WITH
  Sessions <- {s1, s2}, NsIds <- {0}, Ops <- {"ping", "select", "transact"},
  Faults <- {"error", "signal"}, Readers <- Readers \cup {r2}, Slots <- 1,
  MaxReq <- 1, MaxTx <- 1

(* What a client sends: two requests at once; a carriage return before the *)
(* end of line; a line feed inside a request; half an end of line and half *)
(* a request at the end; empty lines.                                      *)
Streams ==
  { << "p", "x", "cr", "lf", "f", "cr", "lf" >>,
    << "x", "cr", "cr", "lf", "p", "cr", "x", "cr", "lf" >>,
    << "f", "lf", "p", "cr", "lf", "x", "cr" >>,
    << "cr", "lf", "lf", "cr", "lf", "f" >> }

Conn == INSTANCE Wire WITH
  Replies <- {<< "0", "cr", "lf" >>}, Messages <- {<< "t", "cr", "lf" >>},
  MaxEvents <- 1, ReadMax <- 4, WriteMax <- 2,
  sent <- bytesSent, wq <- outq

-----------------------------------------------------------------------------
parts == <<part, vars, server, wire>>

InStore(A)  == part = "store" /\ A /\ UNCHANGED <<part, server, wire>>
InServer(A) == part = "server" /\ A /\ UNCHANGED <<part, vars, wire>>
OnWire(A)   == part = "wire" /\ A /\ UNCHANGED <<part, vars, server>>

PartsInit ==
  /\ Init /\ Srv!Init /\ Conn!Init
  /\ part \in {"store", "server", "wire"}
  /\ part # "wire" => stream = CHOOSE s \in Streams : TRUE

PartsNext == InStore(Next) \/ InServer(Srv!Next) \/ OnWire(Conn!Next)

PartsSpec ==
  /\ PartsInit /\ [][PartsNext]_parts
  /\ WF_parts(InStore(TransactStep))
  /\ \A r \in Readers : WF_parts(InStore(facts_scan(r)))
  /\ WF_parts(InServer(Srv!run_posted))
  /\ WF_parts(InServer(Srv!WriterStep))
  /\ \A r \in Readers \cup {r2} : WF_parts(InServer(Srv!ReaderStep(r)))
  /\ WF_parts(InServer(Srv!MainStep))
  /\ WF_parts(OnWire(Conn!Receive))
  /\ WF_parts(OnWire(Conn!reply))

-----------------------------------------------------------------------------
(* Every request is answered, or the server is stopped: no queue, thread   *)
(* or missing reader slot keeps a session waiting (session.cpp 82-102).      *)
RequestAnswered == Srv!RequestAnswered

(* After a signal the server ends: the writer and the readers work off     *)
(* their queues and are joined (server.cpp 141-154).                       *)
ShutdownEnds == Srv!ShutdownEnds

(* However the bytes of requests are cut on their way, read_request takes  *)
(* them as they came and no line before its request's end (session.cpp     *)
(* 75-103).                                                                *)
LinesInOrder == Conn!LinesInOrder

(* A client reads the replies and events in the order session::write       *)
(* queued them, each whole (session.cpp 42-73).                          *)
RepliesWhole == Conn!RepliesWhole

(* Every request whose end the client has sent is taken, also when the     *)
(* client closes right after it (session.cpp 75-103).                      *)
AllTaken == Conn!AllTaken

=============================================================================
