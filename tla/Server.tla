------------------------------- MODULE Server -------------------------------
(***************************************************************************)
(* The nstore server around the store: sessions with their write queues,   *)
(* the io thread that reads requests and writes replies, the writer and    *)
(* the reader threads that handle them, the channels that events are       *)
(* published to, and the shutdown.                                         *)
(*                                                                         *)
(* Each of the three io_services is the queue of the jobs posted to it.    *)
(* The io thread runs one completion at a time; a handler on another       *)
(* thread takes a job, works on the store and posts its reply, in three    *)
(* steps.  The store is what a client can tell of it: META_TX of each      *)
(* namespace that exists.                                                  *)
(***************************************************************************)
EXTENDS Integers, Sequences, FiniteSets

CONSTANTS
  Sessions,   \* the connections clients make
  NsIds,      \* the namespaces clients name; 0 exists from the start
  Ops,        \* the requests clients send, of those below
  Faults,     \* what happens besides, of those below
  Readers,    \* the reader threads
  Slots,      \* the reader slots of the LMDB environment
  MaxReq,     \* bound: requests read from a session
  MaxTx       \* bound: no transaction begins past this number

ASSUME ServerAssumption ==
  /\ 0 \in NsIds
  /\ NsIds \subseteq Nat
  /\ Ops \subseteq {"ping", "bad", "namespace", "select", "facts", "transact"}
  /\ Faults \subseteq {"disconnect", "error", "signal"}
  /\ Slots \in Nat
  /\ MaxReq \in Nat
  /\ MaxTx \in Nat

VARIABLES
  conn,       \* "new", "open", or "broken" once its client is gone
  reading,    \* the sessions with an async_read_until outstanding
  nreq,       \* history: the number of requests read from each session
  ns,         \* session::ns, the namespace selected
  wq,         \* session::write_queue
  writing,    \* the sessions with an async_write of their queue's head
  sent,       \* history: the messages whose write completed
  members,    \* channel.cpp: the members of each channel
  ioq,        \* the replies posted to io_service
  writerq,    \* the jobs posted to writer_service
  readerq,    \* the jobs posted to reader_service
  wthr,       \* the writer thread
  rthr,       \* the reader threads
  tx,         \* META_TX of each namespace that exists
  main        \* where the main thread, which is the io thread, is

session == <<conn, reading, nreq, ns, wq, writing, sent>>
queues  == <<ioq, writerq, readerq>>
threads == <<wthr, rthr>>
vars    == <<session, members, queues, threads, tx, main>>

-----------------------------------------------------------------------------
(* A request with its number in the session (history), and a reply or an   *)
(* event.  The s of an event is the session whose transaction it reports.  *)

Job == [s : Sessions, op : Ops, arg : NsIds, no : Nat]

Msg == [s : Sessions, op : Ops \cup {"event"}, no : Nat, ok : BOOLEAN,
        ns : NsIds, tx : Nat]

Reply(job, ok, n, t) ==
  [s |-> job.s, op |-> job.op, no |-> job.no, ok |-> ok, ns |-> n, tx |-> t]

ErrorReply(job) == Reply(job, FALSE, 0, 0)

(* A handler may fail: its argument is not what it expects, or LMDB says   *)
(* so.  The request has no effect then.                                    *)
MayFail == "error" \in Faults

Event(m) == [m EXCEPT !.op = "event"]

(* A thread: before its first job, between two jobs, with a job taken, or  *)
(* about to post the reply of it.                                          *)
Thread == [pc : {"start", "idle", "gone"}]
          \cup [pc : {"run"}, job : Job]
          \cup [pc : {"post"}, msg : Msg]

At(pc)      == [pc |-> pc]
Run(job)    == [pc |-> "run", job |-> job]
Post(msg)   == [pc |-> "post", msg |-> msg]
Busy(thr)   == thr.pc \in {"run", "post"}

-----------------------------------------------------------------------------
(* The io thread. *)

IoRuns == main = "run"

(* session::write for each session and each of its new messages; a write   *)
(* is started when the queue was empty.                                    *)
Write(out) ==
  /\ wq' = [s \in Sessions |-> wq[s] \o out[s]]
  /\ writing' = writing \cup {s \in Sessions : wq[s] = <<>> /\ out[s] # <<>>}

Nothing == [s \in Sessions |-> <<>>]

(* The channels: join is called for channel 0 alone. *)
join(n, s)  == [members EXCEPT ![n] = @ \cup {s}]
leave(n, s) == [members EXCEPT ![n] = @ \ {s}]

(* Mutant: the session is told about its own transaction. *)
publish_Everyone(m) == [s \in Sessions |-> IF s \in members[m.ns] THEN <<Event(m)>> ELSE <<>>]

publish(m) ==
  [s \in Sessions |-> IF s \in members[m.ns] \ {m.s} THEN <<Event(m)>> ELSE <<>>]

(* do_accept and session::start. *)
accept(s) ==
  /\ IoRuns
  /\ conn[s] = "new"
  /\ conn' = [conn EXCEPT ![s] = "open"]
  /\ members' = join(0, s)
  /\ reading' = reading \cup {s}
  /\ UNCHANGED <<nreq, ns, wq, writing, sent, queues, threads, tx, main>>

(* The client closes its connection or loses it. *)
disconnect(s) ==
  /\ "disconnect" \in Faults
  /\ conn[s] = "open"
  /\ conn' = [conn EXCEPT ![s] = "broken"]
  /\ UNCHANGED <<reading, nreq, ns, wq, writing, sent, members, queues,
                 threads, tx, main>>

(* The argument of a request; some requests have none. *)
ArgsOf(op) == IF op \in {"namespace", "select"} THEN NsIds ELSE {0}

(* Mutant: the next request is read before this one is handled. *)
request_read_Early(s, op, arg) ==
  LET job == [s |-> s, op |-> op, arg |-> arg, no |-> nreq[s] + 1]
  IN  /\ IoRuns
      /\ s \in reading
      /\ nreq[s] < MaxReq
      /\ op \in {"namespace", "transact"}
      /\ nreq' = [nreq EXCEPT ![s] = @ + 1]
      /\ writerq' = Append(writerq, job)
      /\ UNCHANGED <<conn, reading, ns, wq, writing, sent, members, ioq, readerq,
                     threads, tx, main>>

(* read_request completes.  A request may have arrived before its          *)
(* connection broke.                                                       *)
request_read(s, op, arg) ==
  LET job == [s |-> s, op |-> op, arg |-> arg, no |-> nreq[s] + 1]
  IN  /\ IoRuns
      /\ s \in reading
      /\ nreq[s] < MaxReq
      /\ nreq' = [nreq EXCEPT ![s] = @ + 1]
      /\ IF op \in {"ping", "bad"}
           THEN /\ Write([Nothing EXCEPT ![s] = <<Reply(job, op = "ping", 0, 0)>>])
                /\ UNCHANGED <<reading, queues>>
           ELSE /\ reading' = reading \ {s}
                /\ IF op \in {"namespace", "transact"}
                     THEN writerq' = Append(writerq, job) /\ UNCHANGED readerq
                     ELSE readerq' = Append(readerq, job) /\ UNCHANGED writerq
                /\ UNCHANGED <<wq, writing, ioq>>
      /\ UNCHANGED <<conn, ns, sent, members, threads, tx, main>>

(* Mutant: the session does not leave its channel. *)
end_Stay(s) == UNCHANGED members

(* session::end leaves the channel of the namespace selected now. *)
end(s) == members' = leave(ns[s], s)

read_failed(s) ==
  /\ IoRuns
  /\ s \in reading
  /\ conn[s] = "broken"
  /\ reading' = reading \ {s}
  /\ end(s)
  /\ UNCHANGED <<conn, nreq, ns, wq, writing, sent, queues, threads, tx, main>>

(* The completion of do_write. *)
write_done(s) ==
  /\ IoRuns
  /\ s \in writing
  /\ sent' = [sent EXCEPT ![s] = Append(@, Head(wq[s]))]
  /\ wq' = [wq EXCEPT ![s] = Tail(@)]
  /\ writing' = IF Tail(wq[s]) = <<>> THEN writing \ {s} ELSE writing
  /\ UNCHANGED <<conn, reading, nreq, ns, members, queues, threads, tx, main>>

(* Mutant: the message that was not written is dropped and the next one is *)
(* written.                                                                *)
write_failed_Skip(s) ==
  /\ IoRuns
  /\ s \in writing
  /\ conn[s] = "broken"
  /\ end(s)
  /\ wq' = [wq EXCEPT ![s] = Tail(@)]
  /\ writing' = IF Tail(wq[s]) = <<>> THEN writing \ {s} ELSE writing
  /\ UNCHANGED <<conn, reading, nreq, ns, sent, queues, threads, tx, main>>

(* A failed write ends the session, leaves the message in the queue and    *)
(* starts no other write; requests of the session are still read.          *)
write_failed(s) ==
  /\ IoRuns
  /\ s \in writing
  /\ conn[s] = "broken"
  /\ end(s)
  /\ writing' = writing \ {s}
  /\ UNCHANGED <<conn, reading, nreq, ns, wq, sent, queues, threads, tx, main>>

(* The function a handler posted: it leaves the channel of the namespace   *)
(* just selected, writes the reply, publishes the event of a transaction,  *)
(* and reads the next request.                                             *)
run_posted ==
  LET m == Head(ioq)
      reply == [Nothing EXCEPT ![m.s] = <<m>>]
      event == IF m.op = "transact" /\ m.ok THEN publish(m) ELSE Nothing
  IN  /\ IoRuns
      /\ ioq # <<>>
      /\ ioq' = Tail(ioq)
      /\ members' = IF m.op = "select" /\ m.ok THEN leave(m.ns, m.s) ELSE members
      /\ Write([s \in Sessions |-> reply[s] \o event[s]])
      /\ reading' = reading \cup {m.s}
      /\ UNCHANGED <<conn, nreq, ns, sent, writerq, readerq, threads, tx, main>>

-----------------------------------------------------------------------------
(* The writer thread. *)

writer_take ==
  /\ wthr.pc = "idle"
  /\ writerq # <<>>
  /\ wthr' = Run(Head(writerq))
  /\ writerq' = Tail(writerq)
  /\ UNCHANGED <<session, members, ioq, readerq, rthr, tx, main>>

(* A handler is about to post m. *)
WriterReplies(m) ==
  /\ wthr' = Post(m)
  /\ UNCHANGED <<session, members, queues, rthr, main>>

handle_namespace ==
  /\ wthr.pc = "run"
  /\ wthr.job.op = "namespace"
  /\ \/ /\ tx' = [n \in DOMAIN tx \cup {wthr.job.arg} |->
                    IF n \in DOMAIN tx THEN tx[n] ELSE 1]
        /\ WriterReplies(Reply(wthr.job, TRUE, 0, 0))
     \/ /\ MayFail
        /\ WriterReplies(ErrorReply(wthr.job))
        /\ UNCHANGED tx

(* Mutant: an error after the commit is reported as a failed transaction. *)
handle_transact_Denied ==
  LET job == wthr.job
  IN  /\ wthr.pc = "run"
      /\ job.op = "transact"
      /\ tx[ns[job.s]] <= MaxTx
      /\ tx' = [tx EXCEPT ![ns[job.s]] = @ + 1]
      /\ WriterReplies(ErrorReply(job))

(* The transaction commits in the namespace of the session, or fails.      *)
(* Past the bound MaxTx it can only fail, so that requests stay answered.  *)
handle_transact ==
  LET job == wthr.job
      n   == ns[job.s]
  IN  /\ wthr.pc = "run"
      /\ job.op = "transact"
      /\ \/ /\ tx[n] <= MaxTx
            /\ tx' = [tx EXCEPT ![n] = @ + 1]
            /\ WriterReplies(Reply(job, TRUE, n, tx[n]))
         \/ /\ MayFail \/ tx[n] > MaxTx
            /\ WriterReplies(ErrorReply(job))
            /\ UNCHANGED tx

(* Mutant: the reply is not posted after an error. *)
writer_post_Silent ==
  /\ wthr.pc = "post"
  /\ ioq' = IF wthr.msg.ok THEN Append(ioq, wthr.msg) ELSE ioq
  /\ wthr' = At("idle")
  /\ UNCHANGED <<session, members, writerq, readerq, rthr, tx, main>>

writer_post ==
  /\ wthr.pc = "post"
  /\ ioq' = Append(ioq, wthr.msg)
  /\ wthr' = At("idle")
  /\ UNCHANGED <<session, members, writerq, readerq, rthr, tx, main>>

(* Mutant: the work object is dropped after the join. *)
writer_exit_Late ==
  /\ wthr.pc = "idle"
  /\ main = "join_readers"
  /\ writerq = <<>>
  /\ wthr' = At("gone")
  /\ UNCHANGED <<session, members, queues, rthr, tx, main>>

(* run() returns once the work object is gone and no job is left. *)
writer_exit ==
  /\ wthr.pc = "idle"
  /\ main \in {"join_writer", "join_readers"}
  /\ writerq = <<>>
  /\ wthr' = At("gone")
  /\ UNCHANGED <<session, members, queues, rthr, tx, main>>

-----------------------------------------------------------------------------
(* The reader threads. *)

SlotsInUse == {r \in Readers : rthr[r].pc \notin {"start", "gone"}}

(* A thread that gets no reader slot returns without a word. *)
reader_start(r) ==
  /\ rthr[r].pc = "start"
  /\ rthr' = [rthr EXCEPT ![r] =
                At(IF Cardinality(SlotsInUse) < Slots THEN "idle" ELSE "gone")]
  /\ UNCHANGED <<session, members, queues, wthr, tx, main>>

reader_take(r) ==
  /\ rthr[r].pc = "idle"
  /\ readerq # <<>>
  /\ rthr' = [rthr EXCEPT ![r] = Run(Head(readerq))]
  /\ readerq' = Tail(readerq)
  /\ UNCHANGED <<session, members, ioq, writerq, wthr, tx, main>>

ReaderReplies(r, m) ==
  /\ rthr' = [rthr EXCEPT ![r] = Post(m)]
  /\ UNCHANGED <<conn, reading, nreq, wq, writing, sent, members, queues, wthr,
                 tx, main>>

(* Mutant: the namespace is not kept. *)
handle_select_Forget(r) ==
  LET job == rthr[r].job
  IN  /\ rthr[r].pc = "run"
      /\ job.op = "select"
      /\ \/ /\ job.arg \in DOMAIN tx
            /\ ReaderReplies(r, Reply(job, TRUE, job.arg, 0))
         \/ MayFail /\ ReaderReplies(r, ErrorReply(job))
      /\ UNCHANGED ns

(* session::ns is assigned here, on the reader thread; the channel is left *)
(* later, on the io thread.                                                *)
handle_select(r) ==
  LET job == rthr[r].job
  IN  /\ rthr[r].pc = "run"
      /\ job.op = "select"
      /\ \/ /\ job.arg \in DOMAIN tx
            /\ ns' = [ns EXCEPT ![job.s] = job.arg]
            /\ ReaderReplies(r, Reply(job, TRUE, job.arg, 0))
         \/ /\ MayFail \/ job.arg \notin DOMAIN tx
            /\ ReaderReplies(r, ErrorReply(job))
            /\ UNCHANGED ns

(* Mutant: the snapshot is one commit old. *)
handle_facts_Stale(r) ==
  LET job == rthr[r].job
      old == IF tx[ns[job.s]] > 1 THEN tx[ns[job.s]] - 1 ELSE 1
  IN  /\ rthr[r].pc = "run"
      /\ job.op = "facts"
      /\ ReaderReplies(r, Reply(job, TRUE, ns[job.s], old))
      /\ UNCHANGED ns

(* The snapshot an answer is computed from, as its META_TX. *)
handle_facts(r) ==
  LET job == rthr[r].job
  IN  /\ rthr[r].pc = "run"
      /\ job.op = "facts"
      /\ \/ ReaderReplies(r, Reply(job, TRUE, ns[job.s], tx[ns[job.s]]))
         \/ MayFail /\ ReaderReplies(r, ErrorReply(job))
      /\ UNCHANGED ns

reader_post(r) ==
  /\ rthr[r].pc = "post"
  /\ ioq' = Append(ioq, rthr[r].msg)
  /\ rthr' = [rthr EXCEPT ![r] = At("idle")]
  /\ UNCHANGED <<session, members, writerq, readerq, wthr, tx, main>>

reader_exit(r) ==
  /\ rthr[r].pc = "idle"
  /\ main = "join_readers"
  /\ readerq = <<>>
  /\ \A q \in Readers : ~Busy(rthr[q])
  /\ rthr' = [rthr EXCEPT ![r] = At("gone")]
  /\ UNCHANGED <<session, members, queues, wthr, tx, main>>

-----------------------------------------------------------------------------
(* The main thread, from the signal to the end. *)

signal ==
  /\ "signal" \in Faults
  /\ main = "run"
  /\ main' = "clear"
  /\ UNCHANGED <<session, members, queues, threads, tx>>

channels_clear ==
  /\ main = "clear"
  /\ members' = [n \in NsIds |-> {}]
  /\ main' = "join_writer"
  /\ UNCHANGED <<session, queues, threads, tx>>

writer_joined ==
  /\ main = "join_writer"
  /\ wthr.pc = "gone"
  /\ main' = "join_readers"
  /\ UNCHANGED <<session, members, queues, threads, tx>>

readers_joined ==
  /\ main = "join_readers"
  /\ \A r \in Readers : rthr[r].pc = "gone"
  /\ main' = "closed"
  /\ UNCHANGED <<session, members, queues, threads, tx>>

-----------------------------------------------------------------------------
Init ==
  /\ conn = [s \in Sessions |-> "new"]
  /\ reading = {}
  /\ nreq = [s \in Sessions |-> 0]
  /\ ns = [s \in Sessions |-> 0]
  /\ wq = Nothing
  /\ writing = {}
  /\ sent = Nothing
  /\ members = [n \in NsIds |-> {}]
  /\ ioq = <<>>
  /\ writerq = <<>>
  /\ readerq = <<>>
  /\ wthr = At("idle")
  /\ rthr = [r \in Readers |-> At("start")]
  /\ tx = [n \in {0} |-> 1]
  /\ main = "run"

SessionStep(s) ==
  \/ accept(s)
  \/ disconnect(s)
  \/ \E op \in Ops : \E arg \in ArgsOf(op) : request_read(s, op, arg)
  \/ read_failed(s)
  \/ write_done(s)
  \/ write_failed(s)

WriterStep ==
  \/ writer_take
  \/ handle_namespace
  \/ handle_transact
  \/ writer_post
  \/ writer_exit

ReaderStep(r) ==
  \/ reader_start(r)
  \/ reader_take(r)
  \/ handle_select(r)
  \/ handle_facts(r)
  \/ reader_post(r)
  \/ reader_exit(r)

MainStep == channels_clear \/ writer_joined \/ readers_joined

Next ==
  \/ \E s \in Sessions : SessionStep(s)
  \/ run_posted
  \/ WriterStep
  \/ \E r \in Readers : ReaderStep(r)
  \/ signal
  \/ MainStep

Spec == Init /\ [][Next]_vars

(* Every thread goes on, and the io service runs what was posted to it     *)
(* whatever else completes: its queue is first in, first out.  Nothing is  *)
(* assumed of clients: they need not send, read or stay connected.         *)
FairSpec ==
  /\ Spec
  /\ WF_vars(run_posted)
  /\ WF_vars(WriterStep)
  /\ \A r \in Readers : WF_vars(ReaderStep(r))
  /\ WF_vars(MainStep)

-----------------------------------------------------------------------------
(* Type correctness; a session's namespace exists, and only a session with *)
(* messages to write is writing.                                           *)
TypeOK ==
  /\ conn \in [Sessions -> {"new", "open", "broken"}]
  /\ reading \subseteq Sessions
  /\ nreq \in [Sessions -> Nat]
  /\ ns \in [Sessions -> DOMAIN tx]
  /\ wq \in [Sessions -> Seq(Msg)]
  /\ writing \subseteq {s \in Sessions : wq[s] # <<>>}
  /\ sent \in [Sessions -> Seq(Msg)]
  /\ members \in [NsIds -> SUBSET Sessions]
  /\ ioq \in Seq(Msg)
  /\ writerq \in Seq(Job)
  /\ readerq \in Seq(Job)
  /\ wthr \in Thread
  /\ rthr \in [Readers -> Thread]
  /\ DOMAIN tx \subseteq NsIds
  /\ 0 \in DOMAIN tx
  /\ tx \in [DOMAIN tx -> Nat]
  /\ main \in {"run", "clear", "join_writer", "join_readers", "closed"}

(* The session a thread works for. *)
Serves(thr, s) ==
  (thr.pc = "run" /\ thr.job.s = s) \/ (thr.pc = "post" /\ thr.msg.s = s)

(* The places where a session's request is, from read_request on. *)
Places(s) ==
  {<<"read", 0>> : x \in {s} \cap reading}
  \cup {<<"writerq", i>> : i \in {j \in DOMAIN writerq : writerq[j].s = s}}
  \cup {<<"readerq", i>> : i \in {j \in DOMAIN readerq : readerq[j].s = s}}
  \cup {<<"writer", 0>> : x \in {y \in {s} : Serves(wthr, y)}}
  \cup {<<"reader", r>> : r \in {q \in Readers : Serves(rthr[q], s)}}
  \cup {<<"ioq", i>> : i \in {j \in DOMAIN ioq : ioq[j].s = s}}

(* A request of the session was read and its reply is not written yet. *)
InFlight(s) == Places(s) \ {<<"read", 0>>} # {}

(* A session has one request in one place at a time: no read is outstanding *)
(* while a handler uses session::arg and session::ns on another thread, and *)
(* no two handlers of a session run at once.  Before it is accepted a       *)
(* session has none.                                                        *)
OneInFlight ==
  \A s \in Sessions :
    /\ \A p, q \in Places(s) : p = q
    /\ conn[s] = "new" => Places(s) = {}

(* All that was written to a session, whether or not it has left. *)
Written(s) == sent[s] \o wq[s]

(* The replies in q are those to the first k requests of session s, in     *)
(* order and one for each.                                                 *)
IsReply(m) == m.op # "event"

RepliesTo(q, s, k) ==
  /\ \A i \in DOMAIN q : IsReply(q[i]) => q[i].s = s /\ q[i].no \in 1 .. k
  /\ \A i, j \in DOMAIN q :
       IsReply(q[i]) /\ IsReply(q[j]) /\ i < j => q[i].no < q[j].no
  /\ \A no \in 1 .. k : \E i \in DOMAIN q : IsReply(q[i]) /\ q[i].no = no

(* Replies come in the order of the requests, one for each: the requests   *)
(* read and the replies written differ by the one in flight, whichever     *)
(* threads handled them and whatever writes failed.                        *)
RepliesInOrder ==
  \A s \in Sessions :
    RepliesTo(Written(s), s, nreq[s] - (IF InFlight(s) THEN 1 ELSE 0))

(* The message m reports a transaction of namespace n. *)
Reports(m, n) == m.op \in {"transact", "event"} /\ m.ok /\ m.ns = n

(* The transactions of n that q reports are the last ones up to t, each    *)
(* after those before it, none twice and none left out.                    *)
ReportsUpTo(q, n, t) ==
  LET told == {i \in DOMAIN q : Reports(q[i], n)}
  IN  /\ \A i, j \in told : i < j => q[i].tx < q[j].tx
      /\ \A i \in told : q[i].tx <= t
      /\ \A i \in told : \A k \in q[i].tx .. t : \E j \in told : q[j].tx = k

(* The replies that io_service has not run yet, those of the writer in the *)
(* order of its transactions.                                              *)
OnTheirWay == ioq \o (IF wthr.pc = "post" THEN <<wthr.msg>> ELSE <<>>)

(* A member of a channel misses no transaction and sees none twice: what   *)
(* it was told since it joined, by responses and by events, and what is    *)
(* still on its way are the last transactions of the namespace in the      *)
(* order of their commits.                                                 *)
EventsComplete ==
  \A n \in DOMAIN tx : \A s \in members[n] :
    ReportsUpTo(Written(s) \o OnTheirWay, n, tx[n] - 1)

(* Where the responses to transaction t of namespace n are. *)
IsResponse(m, n, t) == m.op = "transact" /\ m.ok /\ m.ns = n /\ m.tx = t

Responses(n, t) ==
  (UNION {{<<"written", s, i>> :
             i \in {j \in DOMAIN Written(s) : IsResponse(Written(s)[j], n, t)}} :
           s \in Sessions})
  \cup {<<"posted", 0, i>> :
          i \in {j \in DOMAIN OnTheirWay : IsResponse(OnTheirWay[j], n, t)}}

(* Every transaction that commits has one response, written or on its way, *)
(* even when its client is gone and after the signal.                      *)
CommitsAnswered ==
  \A n \in DOMAIN tx : \A t \in 1 .. tx[n] - 1 :
    \E p \in Responses(n, t) : Responses(n, t) = {p}

(* The answer m is as new as the first k messages of q: it has every       *)
(* transaction they answer, is no older than an answer among them, and     *)
(* misses at most the events after the last reply.                         *)
AsNewAs(m, q, k) ==
  \A i \in 1 .. k : q[i].ok /\ q[i].ns = m.ns =>
    /\ q[i].op = "facts" => q[i].tx <= m.tx
    /\ q[i].op = "transact" => q[i].tx < m.tx
    /\ q[i].op = "event" /\ (\E h \in i .. k : IsReply(q[h])) => q[i].tx < m.tx

(* Reads of a session never go back: an answer has every transaction the   *)
(* session was answered before, is no older than an earlier answer, and    *)
(* misses at most the events that came while it was computed.              *)
AnswersFresh ==
  \A s \in Sessions : \A j \in DOMAIN Written(s) :
    LET m == Written(s)[j]
    IN  m.op = "facts" /\ m.ok => AsNewAs(m, Written(s), j - 1)

(* n is the namespace of the last select among the first k messages of q   *)
(* that succeeded, or the first namespace.                                 *)
IsSelect(m) == m.op = "select" /\ m.ok

SelectedIn(q, k, n) ==
  \/ n = 0 /\ \A i \in 1 .. k : ~IsSelect(q[i])
  \/ \E i \in 1 .. k : /\ IsSelect(q[i]) /\ q[i].ns = n
                      /\ \A h \in i + 1 .. k : ~IsSelect(q[h])

(* A request is about the namespace of the last select that was            *)
(* acknowledged before it, whichever thread handled either.                *)
SelectTakesEffect ==
  \A s \in Sessions : \A j \in DOMAIN Written(s) :
    LET m == Written(s)[j]
    IN  m.op \in {"facts", "transact"} /\ m.ok => SelectedIn(Written(s), j - 1, m.ns)

(* A session whose connection was found gone is a member of no channel,    *)
(* unless it had selected another namespace than the one it joined:        *)
(* session::end leaves the channel of the namespace selected last.         *)
EndedLeave ==
  \A s \in Sessions :
    conn[s] = "broken" /\ Places(s) = {} =>
      \A n \in NsIds : s \in members[n] => n = 0 /\ ns[s] # 0

(* Every request is answered, or the server is stopped: no queue, thread   *)
(* or missing reader slot keeps a session waiting.                         *)
RequestAnswered ==
  \A s \in Sessions : InFlight(s) ~> (s \in reading \/ main # "run")

(* After a signal the server ends: the writer and the readers work off     *)
(* their queues and are joined.                                            *)
ShutdownEnds == main = "clear" ~> main = "closed"

=============================================================================
