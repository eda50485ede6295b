-------------------------------- MODULE Wire --------------------------------
(***************************************************************************)
(* The bytes of one connection: how session::read_request cuts what the    *)
(* client sends into requests (asio::async_read_until, then std::getline)  *)
(* and how session::write sends replies and events (a queue, and           *)
(* asio::async_write, which sends a message in as many pieces as the       *)
(* socket takes).  Server has the requests as wholes; this module is about *)
(* where they begin and end.                                               *)
(*                                                                         *)
(* A byte is a member of a small set: the line ends, "p" for a ping, "f"   *)
(* for a request that another thread answers, anything else for a request  *)
(* the dispatch does not know.                                             *)
(***************************************************************************)
EXTENDS Integers, SequencesExt

CONSTANTS
  Streams,     \* what a client may send, each a sequence of bytes
  Replies,     \* what a handler of another thread may answer
  Messages,    \* what a channel may publish to the session
  MaxEvents,   \* how many of those there are
  ReadMax,     \* read_size_helper: the most bytes one read takes
  WriteMax     \* the most bytes one write takes

VARIABLES
  stream,   \* what this client sends
  sent,     \* how many of its bytes it has sent
  got,      \* how many of them the server has read
  closed,   \* the client has closed its side
  buf,      \* session::data, the bytes read and not yet taken
  op,       \* the read operation: search_position_ and the room offered
  taken,    \* the lines std::getline has returned
  wq, total,\* write_queue, and total_transferred_ of its head
  events,   \* events published so far
  log,      \* every message ever passed to session::write
  out       \* the bytes the client was sent

vars == << stream, sent, got, closed, buf, op, taken, wq, total, events, log, out >>

CR  == "cr"
LF  == "lf"
EOL == << CR, LF >>
ACK_ERR == << "1" >> \o EOL

(* No read is outstanding: a handler has the request, or the session ended. *)
Handling == [pos |-> -1, room |-> 0]
Ended    == [pos |-> -2, room |-> 0]

Init ==
  /\ stream \in Streams
  /\ sent = 0 /\ got = 0 /\ closed = FALSE
  /\ buf = << >> /\ op = [pos |-> 0, room |-> ReadMax]
  /\ taken = << >>
  /\ wq = << >> /\ total = 0 /\ events = 0 /\ log = << >> /\ out = << >>

-----------------------------------------------------------------------------
(* Reading. *)

(* Mutant: the end of line is complete with its first byte. *)
partial_search_Short(b, from) ==
  LET hits == {i \in from .. Len(b) - 1 : b[i + 1] = CR}
  IN  IF hits = {} THEN [at |-> Len(b), full |-> FALSE]
                   ELSE [at |-> Min(hits), full |-> TRUE]

(* The first place of b, from `from' on, where an end of line is or may    *)
(* begin, and whether it is all there.                                     *)
partial_search(b, from) ==
  LET hits == {i \in from .. Len(b) - 1 :
                 \A j \in 0 .. 1 : i + j < Len(b) => b[i + j + 1] = EOL[j + 1]}
  IN  IF hits = {} THEN [at |-> Len(b), full |-> FALSE]
                   ELSE [at |-> Min(hits), full |-> Min(hits) + 2 <= Len(b)]

(* Mutant: the next search starts with the new data even when the old data *)
(* end in half an end of line.                                             *)
search_NewData(b, from) ==
  LET r == partial_search(b, from)
  IN  IF r.full THEN [pos |-> r.at + 2, room |-> 0]
                ELSE [pos |-> Len(b), room |-> ReadMax]

(* The search of read_until_delim_string_op: no more room is asked for     *)
(* after a match; otherwise the next search starts at a partial match or   *)
(* at the end.  The buffer's own limit is the size of the address space    *)
(* and is left out.                                                        *)
search(b, from) ==
  LET r == partial_search(b, from)
  IN  IF r.full THEN [pos |-> r.at + 2, room |-> 0]
                ELSE [pos |-> r.at, room |-> ReadMax]

(* std::getline: the bytes before the first line feed, which goes too; all *)
(* of them when there is none.                                             *)
Upto(b) == Min({i \in 1 .. Len(b) : b[i] = LF} \cup {Len(b) + 1})
getline(b)   == SubSeq(b, 1, Upto(b) - 1)
AfterLine(b) == SubSeq(b, Upto(b) + 1, Len(b))

(* session::write: the queue gets the message; a write is outstanding      *)
(* whenever the queue is not empty.                                        *)
write(m) == wq' = Append(wq, m) /\ log' = Append(log, m)

(* The completion handler of read_request, with the buffer b.  A ping and  *)
(* an unknown request are answered at once and the next read begins with   *)
(* what is left; any other request is posted to another thread.            *)
handle(b) ==
  LET line  == getline(b)
      first == IF line = << >> THEN "nul" ELSE Head(line)
  IN  /\ taken' = Append(taken, line)
      /\ buf' = AfterLine(b)
      /\ \/ /\ first = "p"
            /\ write(Tail(line) \o EOL)
            /\ op' = search(buf', 0)
         \/ /\ first = "f"
            /\ op' = Handling
            /\ UNCHANGED << wq, log >>
         \/ /\ first \notin {"p", "f"}
            /\ write(ACK_ERR)
            /\ op' = search(buf', 0)

Reading == op \notin {Handling, Ended}

(* A line was in the buffer already: the read of no bytes completes.       *)
read_nothing ==
  /\ Reading /\ op.room = 0
  /\ handle(buf)
  /\ UNCHANGED << stream, sent, got, closed, total, events, out >>

(* Some bytes arrive: the handler runs when they complete a line, and more *)
(* are asked for when they do not.                                         *)
read_some ==
  /\ Reading /\ op.room > 0
  /\ \E k \in 1 .. Min({op.room, sent - got}) :
       LET b    == buf \o SubSeq(stream, got + 1, got + k)
           next == search(b, op.pos)
       IN  /\ got' = got + k
           /\ \/ next.room = 0 /\ handle(b)
              \/ /\ next.room > 0 /\ op' = next /\ buf' = b
                 /\ UNCHANGED << taken, wq, log >>
  /\ UNCHANGED << stream, sent, closed, total, events, out >>

(* All bytes are read and the client has closed: the session ends, and     *)
(* half a line goes with it.                                               *)
read_eof ==
  /\ Reading /\ op.room > 0 /\ got = sent /\ closed
  /\ op' = Ended
  /\ UNCHANGED << stream, sent, got, closed, buf, taken, wq, total, events, log, out >>

(* The other thread's handler posts its reply and the next read.           *)
reply ==
  /\ op = Handling
  /\ \E m \in Replies : write(m)
  /\ op' = search(buf, 0)
  /\ UNCHANGED << stream, sent, got, closed, buf, taken, total, events, out >>

-----------------------------------------------------------------------------
(* Writing. *)

(* channel::publish *)
publish ==
  /\ op # Ended /\ events < MaxEvents
  /\ events' = events + 1
  /\ \E m \in Messages : write(m)
  /\ UNCHANGED << stream, sent, got, closed, buf, op, taken, total, out >>

(* Mutant: a piece that was sent is not counted, and goes out again. *)
write_some_Again ==
  /\ wq # << >>
  /\ \E k \in 1 .. Min({WriteMax, Len(Head(wq)) - total}) :
       /\ out' = out \o SubSeq(Head(wq), total + 1, total + k)
       /\ \/ total + k = Len(Head(wq)) /\ wq' = Tail(wq)
          \/ total + k < Len(Head(wq)) /\ wq' = wq
       /\ total' = total
  /\ UNCHANGED << stream, sent, got, closed, buf, op, taken, events, log >>

(* The socket takes a piece of the message; the handler of do_write runs   *)
(* after the last piece and starts the next message.                       *)
write_some ==
  /\ wq # << >>
  /\ \E k \in 1 .. Min({WriteMax, Len(Head(wq)) - total}) :
       /\ out' = out \o SubSeq(Head(wq), total + 1, total + k)
       /\ \/ total + k = Len(Head(wq)) /\ wq' = Tail(wq) /\ total' = 0
          \/ total + k < Len(Head(wq)) /\ wq' = wq /\ total' = total + k
  /\ UNCHANGED << stream, sent, got, closed, buf, op, taken, events, log >>

-----------------------------------------------------------------------------
(* The client. *)

client_send ==
  /\ ~closed
  /\ \E k \in 1 .. Len(stream) - sent : sent' = sent + k
  /\ UNCHANGED << stream, got, closed, buf, op, taken, wq, total, events, log, out >>

client_close ==
  /\ ~closed /\ closed' = TRUE
  /\ UNCHANGED << stream, sent, got, buf, op, taken, wq, total, events, log, out >>

Receive == read_nothing \/ read_some \/ read_eof

Next == Receive \/ reply \/ publish \/ write_some \/ client_send \/ client_close

Spec == Init /\ [][Next]_vars

(* The io thread runs the completion of a read whose bytes have come, and  *)
(* a handler of another thread posts its reply.  Nothing is assumed of the *)
(* client, of channels or of writes.                                       *)
FairSpec == Spec /\ WF_vars(Receive) /\ WF_vars(reply)

-----------------------------------------------------------------------------
(* Properties. *)

EolsIn(b) == {i \in 2 .. Len(b) : b[i - 1] = CR /\ b[i] = LF}

TakenText == FlattenSeq([i \in 1 .. Len(taken) |-> Append(taken[i], LF)])

(* However the bytes are cut on their way, and however many requests come  *)
(* at once, read_request neither loses, repeats nor reorders a byte: the   *)
(* lines it took and what it holds are what was received; and it takes no  *)
(* line before the end of a request has come.  A line feed inside a        *)
(* request does end a line.                                                *)
LinesInOrder ==
  LET received == SubSeq(stream, 1, got)
  IN  /\ TakenText \o buf = received
      /\ Len(TakenText) <= Max(EolsIn(received) \cup {0})

(* What a client reads is the replies and events in the order they were    *)
(* queued by session::write, each whole, and cutting it at EOL gives back  *)
(* exactly the messages: not even the echo of a ping contains an EOL.      *)
RepliesWhole ==
  /\ IsPrefix(out, FlattenSeq(log))
  /\ Cardinality(EolsIn(out)) = Len(log) - Len(wq)

Due(b) == LET end == Max(EolsIn(b) \cup {0})
          IN  Cardinality({i \in 1 .. end : b[i] = LF})

(* Every request whose end the client has sent is taken, also when the     *)
(* client closes right after it, when its EOL comes in two pieces, and     *)
(* when it came together with an earlier one.                              *)
AllTaken ==
  \A n \in 1 .. 3 :
    (Due(SubSeq(stream, 1, sent)) >= n) ~> (Len(taken) >= n)

=============================================================================
