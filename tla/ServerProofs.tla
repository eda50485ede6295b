---------------------------- MODULE ServerProofs ----------------------------
(***************************************************************************)
(* Theorems about Server, for every choice of its constants: types, and no *)
(* session with two requests in flight; then the kinds of steps Server has. *)
(*                                                                         *)
(* The queues and threads a request passes matter little to a client: a    *)
(* request is pending, then its reply is on its way, then it is written.   *)
(* Every step of the server is one of five kinds (Quiet, AnswerStep,       *)
(* RequestStep, HandleStep, DeliverStep); the theorems about what clients  *)
(* are told take five cases each.                                          *)
(***************************************************************************)
EXTENDS Server, TLAPS

-----------------------------------------------------------------------------
(* Types. *)

(* A thread with a job, or with a reply, has a well-typed one. *)
LEMMA ThreadType ==
  ASSUME NEW thr \in Thread
  PROVE  /\ thr.pc = "run" => thr.job \in Job
         /\ thr.pc = "post" => thr.msg \in Msg
  BY Zenon DEF Thread

(* The states of a thread are threads. *)
LEMMA ThreadStates ==
  /\ \A pc \in {"start", "idle", "gone"} : At(pc) \in Thread
  /\ \A job \in Job : Run(job) \in Thread
  /\ \A msg \in Msg : Post(msg) \in Thread
  BY Zenon DEF Thread, At, Run, Post

(* A request that was read is a job. *)
LEMMA RequestType ==
  ASSUME TypeOK, NEW s \in Sessions, NEW op \in Ops, NEW arg \in ArgsOf(op)
  PROVE  [s |-> s, op |-> op, arg |-> arg, no |-> nreq[s] + 1] \in Job
<1>1. nreq[s] + 1 \in Nat
  BY SMTT(30) DEF TypeOK
<1>2. arg \in NsIds
  BY ServerAssumption, Zenon DEF ArgsOf
<1> QED
  BY <1>1, <1>2, Zenon DEF Job

(* A reply is a message. *)
LEMMA ReplyType ==
  ASSUME NEW job \in Job, NEW ok \in BOOLEAN, NEW n \in NsIds, NEW t \in Nat
  PROVE  Reply(job, ok, n, t) \in Msg /\ Reply(job, ok, n, t).s = job.s
  BY Zenon DEF Reply, Job, Msg

(* An error is a message. *)
LEMMA ErrorType ==
  ASSUME NEW job \in Job
  PROVE  ErrorReply(job) \in Msg /\ ErrorReply(job).s = job.s
  BY ReplyType, ServerAssumption, ZenonT(30) DEF ErrorReply

(* An event is a message. *)
LEMMA EventType == ASSUME NEW m \in Msg PROVE Event(m) \in Msg
  BY Zenon DEF Event, Msg

(* What publish tells the sessions is well typed. *)
LEMMA PublishType ==
  ASSUME TypeOK, NEW m \in Msg
  PROVE  publish(m) \in [Sessions -> Seq(Msg)]
  BY EventType DEF publish

(* session::write keeps the queues well typed, and starts a write only for *)
(* a session that has something to write.                                  *)
LEMMA WriteType ==
  ASSUME TypeOK, NEW out \in [Sessions -> Seq(Msg)], Write(out)
  PROVE  /\ wq' \in [Sessions -> Seq(Msg)]
         /\ writing' \subseteq {s \in Sessions : wq'[s] # <<>>}
<1>1. \A s \in Sessions : wq[s] \in Seq(Msg) /\ out[s] \in Seq(Msg)
  BY Zenon DEF TypeOK
<1>2. \A s \in Sessions : wq'[s] = wq[s] \o out[s] /\ wq'[s] \in Seq(Msg)
  BY <1>1, SMTT(30) DEF Write
<1>3. wq' \in [Sessions -> Seq(Msg)]
  BY <1>2, Zenon DEF Write
<1>4. \A u, v \in Seq(Msg) : u # <<>> \/ v # <<>> => u \o v # <<>>
  OBVIOUS
<1>5. \A s \in writing' : s \in Sessions /\ (wq[s] # <<>> \/ out[s] # <<>>)
  BY Zenon DEF Write, TypeOK
<1> QED
  BY <1>1, <1>2, <1>3, <1>4, <1>5, Zenon

(* A namespace that is created begins with transaction 1, and one that     *)
(* exists keeps its number.                                                *)
LEMMA NamespaceAdded ==
  ASSUME NEW D, NEW f \in [D -> Nat], NEW n
  PROVE  [k \in D \cup {n} |-> IF k \in D THEN f[k] ELSE 1]
           \in [D \cup {n} -> Nat]
  BY Zenon

(* No step of the server leaves the types. *)
LEMMA TypeStep == TypeOK /\ [Next]_vars => TypeOK'
<1> SUFFICES ASSUME TypeOK, [Next]_vars PROVE TypeOK'
  BY Zenon
<1> USE DEF session, queues, threads
<1>0. Nothing \in [Sessions -> Seq(Msg)]
  BY DEF Nothing
<1>1. ASSUME NEW s \in Sessions, accept(s) PROVE TypeOK'
  BY <1>1, ServerAssumption, ZenonT(30) DEF TypeOK, accept, join
<1>2. ASSUME NEW s \in Sessions, disconnect(s) PROVE TypeOK'
  BY <1>2, Zenon DEF TypeOK, disconnect
<1>3. ASSUME NEW s \in Sessions, NEW op \in Ops, NEW arg \in ArgsOf(op),
             request_read(s, op, arg)
      PROVE  TypeOK'
  <2> DEFINE job == [s |-> s, op |-> op, arg |-> arg, no |-> nreq[s] + 1]
             out == [Nothing EXCEPT ![s] = <<Reply(job, op = "ping", 0, 0)>>]
  <2>1. job \in Job
    BY RequestType, Zenon
  <2>2. out \in [Sessions -> Seq(Msg)]
    <3>1. Reply(job, op = "ping", 0, 0) \in Msg
      BY <2>1, ReplyType, ServerAssumption, Zenon
    <3> QED
      BY <1>0, <3>1
  <2>3. nreq' \in [Sessions -> Nat]
    BY <1>3, SMTT(30) DEF request_read, TypeOK
  <2> HIDE DEF job, out
  <2>4. CASE op \in {"ping", "bad"}
    <3>1. Write(out)
      BY <1>3, <2>4, Zenon DEF request_read, job, out
    <3>2. /\ wq' \in [Sessions -> Seq(Msg)]
          /\ writing' \subseteq {x \in Sessions : wq'[x] # <<>>}
      BY <2>2, <3>1, WriteType, Zenon
    <3> QED
      BY <1>3, <2>3, <2>4, <3>2, Zenon DEF request_read, TypeOK
  <2>5. CASE op \notin {"ping", "bad"}
    <3>1. \/ writerq' = Append(writerq, job) /\ readerq' = readerq
          \/ readerq' = Append(readerq, job) /\ writerq' = writerq
      BY <1>3, <2>5, Zenon DEF request_read, job
    <3>2. writerq' \in Seq(Job) /\ readerq' \in Seq(Job)
      <4>1. writerq \in Seq(Job) /\ readerq \in Seq(Job)
        BY Zenon DEF TypeOK
      <4>2. \A q \in Seq(Job) : Append(q, job) \in Seq(Job)
        BY <2>1
      <4> QED
        BY <3>1, <4>1, <4>2, Zenon
    <3> QED
      BY <1>3, <2>3, <2>5, <3>2, Zenon DEF request_read, TypeOK
  <2> QED
    BY <2>4, <2>5, Zenon
<1>4. ASSUME NEW s \in Sessions, read_failed(s) PROVE TypeOK'
  BY <1>4, Zenon DEF TypeOK, read_failed, end, leave
<1>5. ASSUME NEW s \in Sessions, write_done(s) PROVE TypeOK'
  <2>1. wq[s] \in Seq(Msg) /\ wq[s] # <<>>
    BY <1>5, Zenon DEF write_done, TypeOK
  <2>2. Head(wq[s]) \in Msg /\ Tail(wq[s]) \in Seq(Msg)
    BY <2>1
  <2>3. wq' \in [Sessions -> Seq(Msg)] /\ sent' \in [Sessions -> Seq(Msg)]
    BY <1>5, <2>2, SMTT(60) DEF write_done, TypeOK
  <2>4. writing' \subseteq {x \in Sessions : wq'[x] # <<>>}
    BY <1>5, <2>3, Zenon DEF write_done, TypeOK
  <2> QED
    BY <1>5, <2>3, <2>4, Zenon DEF write_done, TypeOK
<1>6. ASSUME NEW s \in Sessions, write_failed(s) PROVE TypeOK'
  BY <1>6, Zenon DEF TypeOK, write_failed, end, leave
<1>7. CASE run_posted
  <2> DEFINE m == Head(ioq)
             reply == [Nothing EXCEPT ![m.s] = <<m>>]
             event == IF m.op = "transact" /\ m.ok THEN publish(m) ELSE Nothing
             out == [s \in Sessions |-> reply[s] \o event[s]]
  <2>1. m \in Msg /\ Tail(ioq) \in Seq(Msg)
    BY <1>7 DEF run_posted, TypeOK
  <2>2. reply \in [Sessions -> Seq(Msg)] /\ event \in [Sessions -> Seq(Msg)]
    <3>1. reply \in [Sessions -> Seq(Msg)]
      <4>1. <<m>> \in Seq(Msg)
        BY <2>1
      <4> QED
        BY <1>0, <4>1, Zenon
    <3>2. event \in [Sessions -> Seq(Msg)]
      BY <1>0, <2>1, PublishType, Zenon
    <3> QED
      BY <3>1, <3>2, Zenon
  <2>3. out \in [Sessions -> Seq(Msg)] /\ Write(out)
    <3>1. Write(out)
      BY <1>7, Zenon DEF run_posted
    <3> HIDE DEF reply, event
    <3> QED
      BY <2>2, <3>1
  <2>4. m.s \in Sessions /\ m.ns \in NsIds
    BY <2>1, Zenon DEF Msg
  <2> HIDE DEF out
  <2>5. /\ wq' \in [Sessions -> Seq(Msg)]
        /\ writing' \subseteq {x \in Sessions : wq'[x] # <<>>}
    BY <2>3, WriteType, Zenon
  <2>6. members' \in [NsIds -> SUBSET Sessions] /\ reading' \subseteq Sessions
    BY <1>7, <2>4, Zenon DEF run_posted, leave, TypeOK
  <2> QED
    BY <1>7, <2>1, <2>5, <2>6, Zenon DEF run_posted, TypeOK
<1>8. CASE writer_take
  <2>1. Head(writerq) \in Job /\ Tail(writerq) \in Seq(Job)
    BY <1>8 DEF writer_take, TypeOK
  <2> QED
    BY <1>8, <2>1, ThreadStates, Zenon DEF writer_take, TypeOK
<1>9. CASE handle_namespace
  <2>1. wthr.job \in Job
    BY <1>9, ThreadType, Zenon DEF handle_namespace, TypeOK
  <2>2. \A ok \in BOOLEAN : Reply(wthr.job, ok, 0, 0) \in Msg
    BY <2>1, ReplyType, ServerAssumption, Zenon
  <2>3. wthr' \in Thread
    BY <1>9, <2>2, ThreadStates, Zenon DEF handle_namespace, WriterReplies, ErrorReply
  <2>4. /\ tx' \in [DOMAIN tx' -> Nat]
        /\ DOMAIN tx' \subseteq NsIds
        /\ DOMAIN tx \subseteq DOMAIN tx'
    <3>1. CASE tx' = [n \in DOMAIN tx \cup {wthr.job.arg} |->
                        IF n \in DOMAIN tx THEN tx[n] ELSE 1]
      <4>1. tx' \in [DOMAIN tx \cup {wthr.job.arg} -> Nat]
        BY <3>1, NamespaceAdded, Zenon DEF TypeOK
      <4>2. DOMAIN tx' = DOMAIN tx \cup {wthr.job.arg}
        BY <3>1, Zenon
      <4>3. wthr.job.arg \in NsIds /\ DOMAIN tx \subseteq NsIds
        BY <2>1, Zenon DEF Job, TypeOK
      <4> QED
        BY <4>1, <4>2, <4>3, Zenon
    <3>2. CASE tx' = tx
      BY <3>2, Zenon DEF TypeOK
    <3> QED
      BY <1>9, <3>1, <3>2, Zenon DEF handle_namespace
  <2> QED
    <3>1. UNCHANGED <<session, members, queues, rthr, main>>
      BY <1>9, Zenon DEF handle_namespace, WriterReplies
    <3>2. ns' \in [Sessions -> DOMAIN tx']
      BY <2>4, <3>1, Zenon DEF TypeOK
    <3>3. 0 \in DOMAIN tx'
      BY <2>4, Zenon DEF TypeOK
    <3> QED
      BY <2>3, <2>4, <3>1, <3>2, <3>3, Zenon DEF TypeOK
<1>10. CASE handle_transact
  <2>1. wthr.job \in Job /\ wthr.job.s \in Sessions
    BY <1>10, ThreadType, Zenon DEF handle_transact, TypeOK, Job
  <2>2. ns[wthr.job.s] \in NsIds /\ tx[ns[wthr.job.s]] \in Nat
    BY <2>1, Zenon DEF TypeOK
  <2>3. /\ Reply(wthr.job, TRUE, ns[wthr.job.s], tx[ns[wthr.job.s]]) \in Msg
        /\ ErrorReply(wthr.job) \in Msg
    BY <2>1, <2>2, ReplyType, ErrorType, Zenon
  <2>4. wthr' \in Thread
    BY <1>10, <2>3, ThreadStates, Zenon DEF handle_transact, WriterReplies
  <2>5. tx' \in [DOMAIN tx -> Nat] /\ DOMAIN tx' = DOMAIN tx
    <3>1. \/ tx' = tx
          \/ tx' = [tx EXCEPT ![ns[wthr.job.s]] = @ + 1]
      BY <1>10, Zenon DEF handle_transact
    <3>2. tx \in [DOMAIN tx -> Nat] /\ ns[wthr.job.s] \in DOMAIN tx
      BY <2>1, Zenon DEF TypeOK
    <3>3. tx' \in [DOMAIN tx -> Nat]
      <4> DEFINE D == DOMAIN tx
      <4>1. tx \in [D -> Nat] /\ ns[wthr.job.s] \in D
        BY <3>2, Zenon
      <4> SUFFICES tx' \in [D -> Nat]
        BY Zenon
      <4> HIDE DEF D
      <4> QED
        BY <3>1, <4>1
    <3> QED
      BY <3>3, Zenon
  <2> QED
    BY <1>10, <2>4, <2>5, Zenon DEF handle_transact, WriterReplies, TypeOK
<1>11. CASE writer_post
  BY <1>11, ThreadType, ThreadStates, SMTT(30) DEF writer_post, TypeOK
<1>12. CASE writer_exit
  BY <1>12, ThreadStates, Zenon DEF writer_exit, TypeOK
<1>13. ASSUME NEW r \in Readers, reader_start(r) PROVE TypeOK'
  BY <1>13, ThreadStates, Zenon DEF reader_start, TypeOK
<1>14. ASSUME NEW r \in Readers, reader_take(r) PROVE TypeOK'
  <2>1. Head(readerq) \in Job /\ Tail(readerq) \in Seq(Job)
    BY <1>14 DEF reader_take, TypeOK
  <2> QED
    BY <1>14, <2>1, ThreadStates, Zenon DEF reader_take, TypeOK
<1>15. ASSUME NEW r \in Readers, handle_select(r) PROVE TypeOK'
  <2>1. rthr[r] \in Thread /\ rthr[r].job \in Job
    BY <1>15, ThreadType, Zenon DEF handle_select, TypeOK
  <2>2. rthr[r].job.s \in Sessions /\ rthr[r].job.arg \in NsIds
    BY <2>1, Zenon DEF Job
  <2>3. /\ Reply(rthr[r].job, TRUE, rthr[r].job.arg, 0) \in Msg
        /\ ErrorReply(rthr[r].job) \in Msg
    BY <2>1, <2>2, ReplyType, ErrorType, Zenon
  <2>4. rthr' \in [Readers -> Thread]
    <3>1. PICK m \in Msg : rthr' = [rthr EXCEPT ![r] = Post(m)]
      BY <1>15, <2>3, Zenon DEF handle_select, ReaderReplies
    <3> QED
      BY <3>1, ThreadStates, Zenon DEF TypeOK
  <2>5. ns' \in [Sessions -> DOMAIN tx]
    BY <1>15, <2>2, Zenon DEF handle_select, TypeOK
  <2> QED
    BY <1>15, <2>4, <2>5, ZenonT(30) DEF handle_select, ReaderReplies, TypeOK
<1>16. ASSUME NEW r \in Readers, handle_facts(r) PROVE TypeOK'
  <2>1. rthr[r] \in Thread /\ rthr[r].job \in Job
    BY <1>16, ThreadType, Zenon DEF handle_facts, TypeOK
  <2>2. ns[rthr[r].job.s] \in NsIds /\ tx[ns[rthr[r].job.s]] \in Nat
    BY <2>1, Zenon DEF TypeOK, Job
  <2>3. /\ Reply(rthr[r].job, TRUE, ns[rthr[r].job.s], tx[ns[rthr[r].job.s]]) \in Msg
        /\ ErrorReply(rthr[r].job) \in Msg
    BY <2>1, <2>2, ReplyType, ErrorType, Zenon
  <2>4. rthr' \in [Readers -> Thread]
    <3>1. PICK m \in Msg : rthr' = [rthr EXCEPT ![r] = Post(m)]
      BY <1>16, <2>3, Zenon DEF handle_facts, ReaderReplies
    <3> QED
      BY <3>1, ThreadStates, Zenon DEF TypeOK
  <2> QED
    BY <1>16, <2>4, Zenon DEF handle_facts, ReaderReplies, TypeOK
<1>17. ASSUME NEW r \in Readers, reader_post(r) PROVE TypeOK'
  BY <1>17, ThreadType, ThreadStates, SMTT(30) DEF reader_post, TypeOK
<1>18. ASSUME NEW r \in Readers, reader_exit(r) PROVE TypeOK'
  BY <1>18, ThreadStates, Zenon DEF reader_exit, TypeOK
<1>19. CASE signal \/ MainStep
  BY <1>19, Zenon DEF signal, MainStep, channels_clear, writer_joined, readers_joined,
               TypeOK
<1>20. CASE UNCHANGED vars
  BY <1>20, Zenon DEF vars, TypeOK
<1> QED
  BY <1>1, <1>2, <1>3, <1>4, <1>5, <1>6, <1>7, <1>8, <1>9, <1>10, <1>11, <1>12,
     <1>13, <1>14, <1>15, <1>16, <1>17, <1>18, <1>19, <1>20, Zenon
     DEF Next, SessionStep, WriterStep, ReaderStep

(* Every reachable state is well typed: a session's namespace exists, and  *)
(* an async_write is outstanding only for a queue that is not empty.       *)
THEOREM ServerTyped == Spec => []TypeOK
<1>1. Init => TypeOK
  BY ServerAssumption, ThreadStates DEF Init, TypeOK, Nothing
<1> QED
  BY <1>1, TypeStep, PTL DEF Spec

-----------------------------------------------------------------------------
(* One request in flight. *)

(* A message or a job of session s is in the queue q; no two are. *)
InQueue(q, s) == \E i \in DOMAIN q : q[i].s = s
OneInQueue(q, s) == \A i, j \in DOMAIN q : q[i].s = s /\ q[j].s = s => i = j

InReaders(s)   == \E r \in Readers : Serves(rthr[r], s)
OneInReaders(s) ==
  \A p, q \in Readers : Serves(rthr[p], s) /\ Serves(rthr[q], s) => p = q

(* OneInFlight for a session, with its places apart. *)
Single(s) ==
  /\ OneInQueue(writerq, s) /\ OneInQueue(readerq, s) /\ OneInQueue(ioq, s)
  /\ OneInReaders(s)
  /\ s \in reading => ~InQueue(writerq, s) /\ ~InQueue(readerq, s)
                      /\ ~InQueue(ioq, s) /\ ~Serves(wthr, s) /\ ~InReaders(s)
  /\ InQueue(writerq, s) => ~InQueue(readerq, s) /\ ~InQueue(ioq, s)
                            /\ ~Serves(wthr, s) /\ ~InReaders(s)
  /\ InQueue(readerq, s) => ~InQueue(ioq, s) /\ ~Serves(wthr, s) /\ ~InReaders(s)
  /\ InQueue(ioq, s) => ~Serves(wthr, s) /\ ~InReaders(s)
  /\ Serves(wthr, s) => ~InReaders(s)

Absent(s) ==
  /\ s \notin reading
  /\ ~InQueue(writerq, s) /\ ~InQueue(readerq, s) /\ ~InQueue(ioq, s)
  /\ ~Serves(wthr, s) /\ ~InReaders(s)

(* The places of a session, one by one. *)
LEMMA PlaceCases ==
  ASSUME NEW s, NEW p
  PROVE  p \in Places(s) <=>
           \/ s \in reading /\ p = <<"read", 0>>
           \/ \E i \in DOMAIN writerq : writerq[i].s = s /\ p = <<"writerq", i>>
           \/ \E i \in DOMAIN readerq : readerq[i].s = s /\ p = <<"readerq", i>>
           \/ Serves(wthr, s) /\ p = <<"writer", 0>>
           \/ \E r \in Readers : Serves(rthr[r], s) /\ p = <<"reader", r>>
           \/ \E i \in DOMAIN ioq : ioq[i].s = s /\ p = <<"ioq", i>>
  BY Zenon DEF Places

(* A session with one place has one in the sense of Single. *)
LEMMA SingleFromPlaces ==
  ASSUME NEW s, \A p, q \in Places(s) : p = q
  PROVE  Single(s)
<1>1. ASSUME NEW i \in DOMAIN writerq, writerq[i].s = s
      PROVE  <<"writerq", i>> \in Places(s)
  BY <1>1, PlaceCases, Zenon
<1>2. ASSUME NEW i \in DOMAIN readerq, readerq[i].s = s
      PROVE  <<"readerq", i>> \in Places(s)
  BY <1>2, PlaceCases, Zenon
<1>3. ASSUME NEW i \in DOMAIN ioq, ioq[i].s = s
      PROVE  <<"ioq", i>> \in Places(s)
  BY <1>3, PlaceCases, Zenon
<1>4. ASSUME NEW r \in Readers, Serves(rthr[r], s)
      PROVE  <<"reader", r>> \in Places(s)
  BY <1>4, PlaceCases, Zenon
<1>5. s \in reading => <<"read", 0>> \in Places(s)
  BY PlaceCases, Zenon
<1>6. Serves(wthr, s) => <<"writer", 0>> \in Places(s)
  BY PlaceCases, Zenon
<1>7. OneInQueue(writerq, s) /\ OneInQueue(readerq, s) /\ OneInQueue(ioq, s)
  BY <1>1, <1>2, <1>3, Zenon DEF OneInQueue
<1>8. OneInReaders(s)
  BY <1>4, Zenon DEF OneInReaders
<1> QED
  BY <1>1, <1>2, <1>3, <1>4, <1>5, <1>6, <1>7, <1>8, Zenon
     DEF Single, InQueue, InReaders

(* And the other way. *)
LEMMA PlacesFromSingle ==
  ASSUME NEW s, Single(s)
  PROVE  \A p, q \in Places(s) : p = q
  BY PlaceCases DEF Single, InQueue, OneInQueue, InReaders, OneInReaders

(* No place is an empty set of places. *)
LEMMA AbsentPlaces == ASSUME NEW s PROVE Absent(s) <=> Places(s) = {}
<1>1. Absent(s) <=> \A p : p \notin Places(s)
  BY PlaceCases, ZenonT(60) DEF Absent, InQueue, InReaders
<1> QED
  BY <1>1, Zenon

(* OneInFlight in terms of the places one by one. *)
LEMMA SingleForm ==
  OneInFlight <=>
    \A s \in Sessions : Single(s) /\ (conn[s] = "new" => Absent(s))
  BY SingleFromPlaces, PlacesFromSingle, AbsentPlaces, Zenon DEF OneInFlight

(* What taking the first of a queue leaves of a session in it. *)
LEMMA TailQueue ==
  ASSUME NEW T, NEW q \in Seq(T), q # <<>>, NEW s
  PROVE  /\ InQueue(Tail(q), s) => InQueue(q, s)
         /\ OneInQueue(q, s) => OneInQueue(Tail(q), s)
         /\ Head(q).s = s => InQueue(q, s)
         /\ Head(q).s = s /\ OneInQueue(q, s) => ~InQueue(Tail(q), s)
<1>1. /\ Len(q) \in Nat \ {0} /\ Head(q) = q[1]
      /\ DOMAIN q = 1 .. Len(q) /\ DOMAIN Tail(q) = 1 .. Len(q) - 1
  OBVIOUS
<1>2. \A i \in DOMAIN Tail(q) : i + 1 \in DOMAIN q /\ Tail(q)[i] = q[i + 1] /\ i + 1 # 1
  OBVIOUS
<1>3. 1 \in DOMAIN q
  BY <1>1
<1>4. InQueue(Tail(q), s) => InQueue(q, s)
  BY <1>2, Zenon DEF InQueue
<1>5. OneInQueue(q, s) => OneInQueue(Tail(q), s)
  BY <1>1, <1>2, SMTT(30) DEF OneInQueue
<1>6. Head(q).s = s => InQueue(q, s)
  BY <1>1, <1>3, Zenon DEF InQueue
<1>7. Head(q).s = s /\ OneInQueue(q, s) => ~InQueue(Tail(q), s)
  BY <1>1, <1>2, <1>3, Zenon DEF InQueue, OneInQueue
<1> QED
  BY <1>4, <1>5, <1>6, <1>7, Zenon

(* What posting to a queue changes for a session. *)
LEMMA AppendQueue ==
  ASSUME NEW T, NEW q \in Seq(T), NEW x \in T, NEW s
  PROVE  /\ InQueue(Append(q, x), s) <=> InQueue(q, s) \/ x.s = s
         /\ OneInQueue(q, s) /\ (x.s = s => ~InQueue(q, s)) =>
              OneInQueue(Append(q, x), s)
<1>1. /\ Len(q) \in Nat
      /\ DOMAIN q = 1 .. Len(q)
      /\ DOMAIN Append(q, x) = 1 .. Len(q) + 1
      /\ \A i \in 1 .. Len(q) : Append(q, x)[i] = q[i]
      /\ Append(q, x)[Len(q) + 1] = x
  OBVIOUS
<1>2. DOMAIN Append(q, x) = DOMAIN q \cup {Len(q) + 1} /\ Len(q) + 1 \notin DOMAIN q
  BY <1>1
<1>3. InQueue(Append(q, x), s) <=> InQueue(q, s) \/ x.s = s
  BY <1>1, <1>2, Zenon DEF InQueue
<1> QED
  BY <1>1, <1>2, <1>3, Zenon DEF InQueue, OneInQueue

(* Whom a thread serves in each of its states. *)
LEMMA ServesStates ==
  ASSUME NEW s
  PROVE  /\ \A pc \in {"start", "idle", "gone"} : ~Serves(At(pc), s)
         /\ \A job : Serves(Run(job), s) <=> job.s = s
         /\ \A msg : Serves(Post(msg), s) <=> msg.s = s
  BY Zenon DEF Serves, At, Run, Post

(* What a step of one reader thread changes for a session. *)
LEMMA ReaderMoves ==
  ASSUME TypeOK, NEW s, NEW r \in Readers, NEW thr,
         rthr' = [rthr EXCEPT ![r] = thr]
  PROVE  /\ InReaders(s)' => InReaders(s) \/ Serves(thr, s)
         /\ Serves(rthr[r], s) => InReaders(s)
         /\ Serves(rthr[r], s) /\ OneInReaders(s) /\ ~Serves(thr, s)
              => ~InReaders(s)'
         /\ OneInReaders(s) /\ (Serves(thr, s) => ~InReaders(s) \/ Serves(rthr[r], s))
              => OneInReaders(s)'
<1>1. rthr'[r] = thr /\ \A q \in Readers \ {r} : rthr'[q] = rthr[q]
  BY Zenon DEF TypeOK
<1>2. InReaders(s)' <=> \E q \in Readers : Serves(rthr'[q], s)
  BY Zenon DEF InReaders, Serves
<1>3. OneInReaders(s)' <=>
        \A p, q \in Readers : Serves(rthr'[p], s) /\ Serves(rthr'[q], s) => p = q
  BY Zenon DEF OneInReaders, Serves
<1>4. \A q \in Readers \ {r} : Serves(rthr'[q], s) <=> Serves(rthr[q], s)
  BY <1>1, Zenon
<1>5. Serves(rthr'[r], s) <=> Serves(thr, s)
  BY <1>1, Zenon
<1> QED
  BY <1>2, <1>3, <1>4, <1>5, Zenon DEF InReaders, OneInReaders

(* Each step moves a session's request from the place it is at to the next *)
(* one, or leaves it where it is.                                          *)
LEMMA OneInFlightStep ==
  TypeOK /\ OneInFlight /\ [Next]_vars => OneInFlight'
<1> SUFFICES ASSUME TypeOK, OneInFlight, [Next]_vars PROVE OneInFlight'
  BY Zenon
<1>p. (\A s \in Sessions : Single(s) /\ (conn[s] = "new" => Absent(s)))'
        => OneInFlight'
  BY SingleForm, PTL
<1> SUFFICES ASSUME NEW x \in Sessions
             PROVE  Single(x)' /\ (conn'[x] = "new" => Absent(x)')
  BY <1>p, Zenon
<1>0. Single(x) /\ (conn[x] = "new" => Absent(x))
  BY SingleForm, Zenon
<1> USE DEF session, queues, threads
<1>a. /\ UNCHANGED writerq => InQueue(writerq, x)' = InQueue(writerq, x)
                              /\ OneInQueue(writerq, x)' = OneInQueue(writerq, x)
      /\ UNCHANGED readerq => InQueue(readerq, x)' = InQueue(readerq, x)
                              /\ OneInQueue(readerq, x)' = OneInQueue(readerq, x)
      /\ UNCHANGED ioq => InQueue(ioq, x)' = InQueue(ioq, x)
                          /\ OneInQueue(ioq, x)' = OneInQueue(ioq, x)
  BY Zenon DEF InQueue, OneInQueue
<1>b. /\ UNCHANGED wthr => Serves(wthr, x)' = Serves(wthr, x)
      /\ UNCHANGED rthr => InReaders(x)' = InReaders(x)
                           /\ OneInReaders(x)' = OneInReaders(x)
  BY DEF Serves, InReaders, OneInReaders
<1>c. /\ writerq \in Seq(Job) /\ readerq \in Seq(Job) /\ ioq \in Seq(Msg)
      /\ wthr \in Thread
      /\ conn \in [Sessions -> {"new", "open", "broken"}]
  BY Zenon DEF TypeOK
<1>d. \A thr : wthr' = thr => (Serves(wthr, x)' <=> Serves(thr, x))
  BY Zenon DEF Serves
<1>s. ASSUME UNCHANGED <<reading, queues, threads>>,
             conn'[x] = "new" => conn[x] = "new"
      PROVE  Single(x)' /\ (conn'[x] = "new" => Absent(x)')
  BY <1>0, <1>a, <1>b, <1>s, Zenon DEF Single, Absent
<1>1. ASSUME NEW s \in Sessions, accept(s)
      PROVE  Single(x)' /\ (conn'[x] = "new" => Absent(x)')
  <2>1. UNCHANGED <<queues, threads>> /\ reading' = reading \cup {s}
        /\ conn[s] = "new" /\ conn' = [conn EXCEPT ![s] = "open"]
    BY <1>1, Zenon DEF accept
  <2>2. CASE x = s
    BY <1>0, <1>a, <1>b, <1>c, <2>1, <2>2, Zenon DEF Single, Absent
  <2>3. CASE x # s
    BY <1>0, <1>a, <1>b, <1>c, <2>1, <2>3, Zenon DEF Single, Absent
  <2> QED
    BY <2>2, <2>3, Zenon
<1>2. ASSUME NEW s \in Sessions, disconnect(s)
      PROVE  Single(x)' /\ (conn'[x] = "new" => Absent(x)')
  BY <1>2, <1>s, <1>c, Zenon DEF disconnect
<1>3. ASSUME NEW s \in Sessions, NEW op \in Ops, NEW arg \in ArgsOf(op),
             request_read(s, op, arg)
      PROVE  Single(x)' /\ (conn'[x] = "new" => Absent(x)')
  <2> DEFINE job == [s |-> s, op |-> op, arg |-> arg, no |-> nreq[s] + 1]
  <2>1. job \in Job /\ job.s = s
    BY RequestType, Zenon
  <2> HIDE DEF job
  <2>2. s \in reading /\ UNCHANGED <<conn, threads>>
    BY <1>3, Zenon DEF request_read
  <2>3. CASE UNCHANGED <<reading, queues>>
    BY <1>s, <2>2, <2>3, Zenon
  <2>4. CASE reading' = reading \ {s} /\ writerq' = Append(writerq, job)
             /\ UNCHANGED <<readerq, ioq>>
    <3>1. /\ InQueue(writerq, x)' <=> InQueue(writerq, x) \/ s = x
          /\ OneInQueue(writerq, x) /\ (s = x => ~InQueue(writerq, x))
               => OneInQueue(writerq, x)'
      <4>1. /\ InQueue(writerq', x) <=> InQueue(writerq, x) \/ s = x
            /\ OneInQueue(writerq, x) /\ (s = x => ~InQueue(writerq, x))
                 => OneInQueue(writerq', x)
        BY <1>c, <2>1, <2>4, AppendQueue, Zenon
      <4> QED
        BY <4>1, Zenon DEF InQueue, OneInQueue
    <3> QED
      BY <1>0, <1>a, <1>b, <2>2, <2>4, <3>1, Zenon DEF Single, Absent
  <2>5. CASE reading' = reading \ {s} /\ readerq' = Append(readerq, job)
             /\ UNCHANGED <<writerq, ioq>>
    <3>1. /\ InQueue(readerq, x)' <=> InQueue(readerq, x) \/ s = x
          /\ OneInQueue(readerq, x) /\ (s = x => ~InQueue(readerq, x))
               => OneInQueue(readerq, x)'
      <4>1. /\ InQueue(readerq', x) <=> InQueue(readerq, x) \/ s = x
            /\ OneInQueue(readerq, x) /\ (s = x => ~InQueue(readerq, x))
                 => OneInQueue(readerq', x)
        BY <1>c, <2>1, <2>5, AppendQueue, Zenon
      <4> QED
        BY <4>1, Zenon DEF InQueue, OneInQueue
    <3> QED
      BY <1>0, <1>a, <1>b, <2>2, <2>5, <3>1, Zenon DEF Single, Absent
  <2> QED
    BY <1>3, <2>3, <2>4, <2>5, Zenon DEF request_read, job
<1>4. ASSUME NEW s \in Sessions, read_failed(s)
      PROVE  Single(x)' /\ (conn'[x] = "new" => Absent(x)')
  BY <1>4, <1>0, <1>a, <1>b, Zenon DEF read_failed, Single, Absent
<1>5. ASSUME NEW s \in Sessions, write_done(s) \/ write_failed(s)
      PROVE  Single(x)' /\ (conn'[x] = "new" => Absent(x)')
  BY <1>5, <1>s, Zenon DEF write_done, write_failed
<1>6. CASE run_posted
  <2> DEFINE m == Head(ioq)
  <2>1. /\ ioq # <<>> /\ ioq' = Tail(ioq) /\ reading' = reading \cup {m.s}
        /\ UNCHANGED <<conn, writerq, readerq, threads>>
    BY <1>6, Zenon DEF run_posted
  <2>2. /\ InQueue(ioq', x) => InQueue(ioq, x)
        /\ OneInQueue(ioq, x) => OneInQueue(ioq', x)
        /\ m.s = x => InQueue(ioq, x)
        /\ m.s = x /\ OneInQueue(ioq, x) => ~InQueue(ioq', x)
    BY <1>c, <2>1, TailQueue, Zenon
  <2>3. InQueue(ioq, x)' = InQueue(ioq', x) /\ OneInQueue(ioq, x)' = OneInQueue(ioq', x)
    BY Zenon DEF InQueue, OneInQueue
  <2> HIDE DEF m
  <2> QED
    BY <1>0, <1>a, <1>b, <2>1, <2>2, <2>3, Zenon DEF Single, Absent
<1>7. CASE writer_take
  <2> DEFINE job == Head(writerq)
  <2>1. /\ writerq # <<>> /\ writerq' = Tail(writerq) /\ wthr' = Run(job)
        /\ wthr.pc = "idle" /\ UNCHANGED <<conn, reading, readerq, ioq, rthr>>
    BY <1>7, Zenon DEF writer_take
  <2>2. /\ InQueue(writerq', x) => InQueue(writerq, x)
        /\ OneInQueue(writerq, x) => OneInQueue(writerq', x)
        /\ job.s = x => InQueue(writerq, x)
        /\ job.s = x /\ OneInQueue(writerq, x) => ~InQueue(writerq', x)
    BY <1>c, <2>1, TailQueue, Zenon
  <2>3. /\ InQueue(writerq, x)' = InQueue(writerq', x)
        /\ OneInQueue(writerq, x)' = OneInQueue(writerq', x)
    BY Zenon DEF InQueue, OneInQueue
  <2>4. (Serves(wthr, x)' <=> job.s = x) /\ ~Serves(wthr, x)
    BY <1>d, <2>1, ServesStates, SMTT(30) DEF Serves
  <2> HIDE DEF job
  <2> QED
    BY <1>0, <1>a, <1>b, <2>1, <2>2, <2>3, <2>4, Zenon DEF Single, Absent
<1>8. CASE handle_namespace \/ handle_transact
  <2>1. PICK m : /\ wthr' = Post(m) /\ m.s = wthr.job.s /\ wthr.pc = "run"
                 /\ UNCHANGED <<session, queues, rthr>>
    BY <1>8, Zenon
       DEF handle_namespace, handle_transact, WriterReplies, Reply, ErrorReply
  <2>2. Serves(wthr, x)' <=> Serves(wthr, x)
    <3>1. (Serves(wthr, x)' <=> m.s = x) /\ (Serves(wthr, x) <=> wthr.job.s = x)
      BY <1>d, <2>1, ServesStates DEF Serves
    <3> QED
      BY <2>1, <3>1, Zenon
  <2> QED
    BY <1>0, <1>a, <1>b, <2>1, <2>2, Zenon DEF Single, Absent
<1>9. CASE writer_post
  <2>1. /\ wthr.pc = "post" /\ ioq' = Append(ioq, wthr.msg) /\ wthr' = At("idle")
        /\ UNCHANGED <<conn, reading, writerq, readerq, rthr>>
    BY <1>9, Zenon DEF writer_post
  <2>2. wthr.msg \in Msg /\ (Serves(wthr, x) <=> wthr.msg.s = x)
    BY <1>c, <2>1, ThreadType, Zenon DEF Serves
  <2>3. ~Serves(wthr, x)'
    BY <1>d, <2>1, ServesStates, Zenon
  <2>4. /\ InQueue(ioq', x) <=> InQueue(ioq, x) \/ wthr.msg.s = x
        /\ OneInQueue(ioq, x) /\ (wthr.msg.s = x => ~InQueue(ioq, x))
             => OneInQueue(ioq', x)
    BY <1>c, <2>1, <2>2, AppendQueue, ZenonT(120)
  <2>5. InQueue(ioq, x)' = InQueue(ioq', x) /\ OneInQueue(ioq, x)' = OneInQueue(ioq', x)
    BY Zenon DEF InQueue, OneInQueue
  <2> QED
    BY <1>0, <1>a, <1>b, <2>1, <2>2, <2>3, <2>4, <2>5, Zenon DEF Single, Absent
<1>10. CASE writer_exit
  <2>1. ~Serves(wthr, x)'
    BY <1>10, <1>d, ServesStates, Zenon DEF writer_exit
  <2> QED
    BY <1>0, <1>10, <1>a, <1>b, <2>1, Zenon DEF writer_exit, Single, Absent
<1>11. ASSUME NEW r \in Readers, reader_start(r) \/ reader_exit(r)
       PROVE  Single(x)' /\ (conn'[x] = "new" => Absent(x)')
  <2>1. PICK pc \in {"start", "idle", "gone"} :
          /\ rthr' = [rthr EXCEPT ![r] = At(pc)]
          /\ UNCHANGED <<session, queues, wthr>>
    BY <1>11, Zenon DEF reader_start, reader_exit
  <2>2. ~Serves(At(pc), x)
    BY ServesStates, Zenon
  <2>3. (InReaders(x)' => InReaders(x)) /\ (OneInReaders(x) => OneInReaders(x)')
    BY <2>1, <2>2, ReaderMoves, Zenon
  <2> QED
    BY <1>0, <1>a, <1>b, <2>1, <2>3, Zenon DEF Single, Absent
<1>12. ASSUME NEW r \in Readers, reader_take(r)
       PROVE  Single(x)' /\ (conn'[x] = "new" => Absent(x)')
  <2> DEFINE job == Head(readerq)
  <2>1. /\ readerq # <<>> /\ readerq' = Tail(readerq)
        /\ rthr' = [rthr EXCEPT ![r] = Run(job)]
        /\ UNCHANGED <<conn, reading, writerq, ioq, wthr>>
    BY <1>12, Zenon DEF reader_take
  <2>2. /\ InQueue(readerq', x) => InQueue(readerq, x)
        /\ OneInQueue(readerq, x) => OneInQueue(readerq', x)
        /\ job.s = x => InQueue(readerq, x)
        /\ job.s = x /\ OneInQueue(readerq, x) => ~InQueue(readerq', x)
    BY <1>c, <2>1, TailQueue, Zenon
  <2>3. /\ InQueue(readerq, x)' = InQueue(readerq', x)
        /\ OneInQueue(readerq, x)' = OneInQueue(readerq', x)
    BY Zenon DEF InQueue, OneInQueue
  <2>4. Serves(Run(job), x) <=> job.s = x
    BY ServesStates, Zenon
  <2>5. /\ InReaders(x)' => InReaders(x) \/ job.s = x
        /\ OneInReaders(x) /\ (job.s = x => ~InReaders(x)) => OneInReaders(x)'
    BY <2>1, <2>4, ReaderMoves, Zenon
  <2> HIDE DEF job
  <2> QED
    BY <1>0, <1>a, <1>b, <2>1, <2>2, <2>3, <2>5, Zenon DEF Single, Absent
<1>13. ASSUME NEW r \in Readers, handle_select(r) \/ handle_facts(r)
       PROVE  Single(x)' /\ (conn'[x] = "new" => Absent(x)')
  <2>1. PICK m : /\ rthr' = [rthr EXCEPT ![r] = Post(m)]
                 /\ m.s = rthr[r].job.s /\ rthr[r].pc = "run"
                 /\ UNCHANGED <<conn, reading, queues, wthr>>
    BY <1>13, Zenon
       DEF handle_select, handle_facts, ReaderReplies, Reply, ErrorReply
  <2>2. Serves(Post(m), x) <=> Serves(rthr[r], x)
    BY <2>1, ServesStates, SMTT(30) DEF Serves
  <2>3. (InReaders(x)' => InReaders(x)) /\ (OneInReaders(x) => OneInReaders(x)')
    BY <2>1, <2>2, ReaderMoves, Zenon
  <2> QED
    BY <1>0, <1>a, <1>b, <2>1, <2>3, Zenon DEF Single, Absent
<1>14. ASSUME NEW r \in Readers, reader_post(r)
       PROVE  Single(x)' /\ (conn'[x] = "new" => Absent(x)')
  <2> DEFINE msg == rthr[r].msg
  <2>1. /\ rthr[r].pc = "post" /\ ioq' = Append(ioq, msg)
        /\ rthr' = [rthr EXCEPT ![r] = At("idle")]
        /\ UNCHANGED <<conn, reading, writerq, readerq, wthr>>
    BY <1>14, Zenon DEF reader_post
  <2>2. rthr[r] \in Thread
    BY Zenon DEF TypeOK
  <2>3. msg \in Msg /\ (Serves(rthr[r], x) <=> msg.s = x)
    BY <2>1, <2>2, ThreadType, Zenon DEF Serves
  <2>4. ~Serves(At("idle"), x)
    BY ServesStates, Zenon
  <2>5. /\ InReaders(x)' => InReaders(x)
        /\ OneInReaders(x) => OneInReaders(x)'
        /\ msg.s = x => InReaders(x)
        /\ msg.s = x /\ OneInReaders(x) => ~InReaders(x)'
    BY <2>1, <2>3, <2>4, ReaderMoves, Zenon
  <2>6. /\ InQueue(ioq', x) <=> InQueue(ioq, x) \/ msg.s = x
        /\ OneInQueue(ioq, x) /\ (msg.s = x => ~InQueue(ioq, x))
             => OneInQueue(ioq', x)
    BY <1>c, <2>1, <2>3, AppendQueue
  <2>7. InQueue(ioq, x)' = InQueue(ioq', x) /\ OneInQueue(ioq, x)' = OneInQueue(ioq', x)
    BY Zenon DEF InQueue, OneInQueue
  <2>8. /\ conn' = conn /\ reading' = reading
        /\ (InQueue(writerq, x)' <=> InQueue(writerq, x))
        /\ (OneInQueue(writerq, x)' <=> OneInQueue(writerq, x))
        /\ (InQueue(readerq, x)' <=> InQueue(readerq, x))
        /\ (OneInQueue(readerq, x)' <=> OneInQueue(readerq, x))
        /\ (Serves(wthr, x)' <=> Serves(wthr, x))
    BY <1>a, <1>b, <2>1, Zenon
  <2>9. /\ InQueue(ioq, x)' <=> InQueue(ioq, x) \/ msg.s = x
        /\ OneInQueue(ioq, x) /\ (msg.s = x => ~InQueue(ioq, x)) => OneInQueue(ioq, x)'
    BY <2>6, <2>7, Zenon
  <2> HIDE DEF msg
  <2>10. Single(x)'
    BY <1>0, <2>5, <2>8, <2>9, Zenon DEF Single
  <2>11. conn'[x] = "new" => Absent(x)'
    BY <1>0, <2>5, <2>8, <2>9, Zenon DEF Absent
  <2> QED
    BY <2>10, <2>11, Zenon
<1>15. CASE signal \/ MainStep
  BY <1>15, <1>s, Zenon DEF signal, MainStep, channels_clear, writer_joined, readers_joined
<1>16. CASE UNCHANGED vars
  BY <1>16, <1>s, Zenon DEF vars
<1> QED
  BY <1>1, <1>2, <1>3, <1>4, <1>5, <1>6, <1>7, <1>8, <1>9, <1>10, <1>11, <1>12,
     <1>13, <1>14, <1>15, <1>16, Zenon DEF Next, SessionStep, WriterStep, ReaderStep

(* A session has at most one request, and it is in one place: session::arg *)
(* and session::ns, which two threads use without a lock, are never used   *)
(* by two at once.                                                         *)
THEOREM OneRequestInFlight == Spec => []OneInFlight
<1>1. Init => OneInFlight
  <2>1. ASSUME Init, NEW s PROVE Absent(s) /\ Single(s)
    <3>1. DOMAIN writerq = {} /\ DOMAIN readerq = {} /\ DOMAIN ioq = {}
      BY <2>1 DEF Init
    <3>2. ~Serves(wthr, s) /\ \A r \in Readers : ~Serves(rthr[r], s)
      BY <2>1, ServesStates, Zenon DEF Init
    <3>3. s \notin reading
      BY <2>1, Zenon DEF Init
    <3> QED
      BY <3>1, <3>2, <3>3, Zenon
         DEF Absent, Single, InQueue, OneInQueue, InReaders, OneInReaders
  <2> QED
    BY <2>1, SingleForm, Zenon
<1> QED
  BY <1>1, ServerTyped, OneInFlightStep, PTL DEF Spec

-----------------------------------------------------------------------------
(* Requests that are pending and replies that are on their way. *)

In(q, x) == \E i \in DOMAIN q : q[i] = x

Works(thr, j) == thr.pc = "run" /\ thr.job = j
Posts(thr, m) == thr.pc = "post" /\ thr.msg = m

ReadersWork(j) == \E r \in Readers : Works(rthr[r], j)
ReadersPost(m) == \E r \in Readers : Posts(rthr[r], m)

Pending(j) == In(writerq, j) \/ In(readerq, j) \/ Works(wthr, j) \/ ReadersWork(j)

OnItsWay(m) == In(ioq, m) \/ Posts(wthr, m) \/ ReadersPost(m)

(* What is in a queue from which the first is taken. *)
LEMMA InTail ==
  ASSUME NEW T, NEW q \in Seq(T), q # <<>>, NEW x
  PROVE  /\ In(q, x) <=> x = Head(q) \/ In(Tail(q), x)
         /\ In(q, Head(q))
<1>1. /\ Len(q) \in Nat \ {0} /\ Head(q) = q[1]
      /\ DOMAIN q = 1 .. Len(q) /\ DOMAIN Tail(q) = 1 .. Len(q) - 1
      /\ \A i \in 1 .. Len(q) - 1 : Tail(q)[i] = q[i + 1]
  OBVIOUS
<1>2. 1 \in DOMAIN q /\ \A i \in DOMAIN q \ {1} : i - 1 \in DOMAIN Tail(q) /\ Tail(q)[i - 1] = q[i]
  BY <1>1
<1>3. \A i \in DOMAIN Tail(q) : i + 1 \in DOMAIN q /\ Tail(q)[i] = q[i + 1]
  BY <1>1
<1> QED
  BY <1>1, <1>2, <1>3, ZenonT(60) DEF In

(* What is in a queue to which something is posted. *)
LEMMA InAppend ==
  ASSUME NEW T, NEW q \in Seq(T), NEW y \in T, NEW x
  PROVE  In(Append(q, y), x) <=> In(q, x) \/ x = y
<1>1. /\ Len(q) \in Nat
      /\ DOMAIN q = 1 .. Len(q)
      /\ DOMAIN Append(q, y) = 1 .. Len(q) + 1
      /\ \A i \in 1 .. Len(q) : Append(q, y)[i] = q[i]
      /\ Append(q, y)[Len(q) + 1] = y
  OBVIOUS
<1>2. DOMAIN Append(q, y) = DOMAIN q \cup {Len(q) + 1}
  BY <1>1
<1> QED
  BY <1>1, <1>2, Zenon DEF In

(* What a thread has in each of its states. *)
LEMMA WorkStates ==
  ASSUME NEW x
  PROVE  /\ \A pc \in {"start", "idle", "gone"} : ~Works(At(pc), x) /\ ~Posts(At(pc), x)
         /\ \A job : (Works(Run(job), x) <=> job = x) /\ ~Posts(Run(job), x)
         /\ \A msg : (Posts(Post(msg), x) <=> msg = x) /\ ~Works(Post(msg), x)
  BY Zenon DEF Works, Posts, At, Run, Post

(* What a step of one reader thread changes. *)
LEMMA ReaderWorkMoves ==
  ASSUME TypeOK, NEW x, NEW r \in Readers, NEW thr,
         rthr' = [rthr EXCEPT ![r] = thr]
  PROVE  /\ ~Works(rthr[r], x) => (ReadersWork(x)' <=> ReadersWork(x) \/ Works(thr, x))
         /\ ~Posts(rthr[r], x) => (ReadersPost(x)' <=> ReadersPost(x) \/ Posts(thr, x))
         /\ ReadersWork(x) => ReadersWork(x)' \/ Works(rthr[r], x)
         /\ ReadersPost(x) => ReadersPost(x)' \/ Posts(rthr[r], x)
         /\ ReadersWork(x)' => ReadersWork(x) \/ Works(thr, x)
         /\ ReadersPost(x)' => ReadersPost(x) \/ Posts(thr, x)
         /\ Works(rthr[r], x) => ReadersWork(x)
         /\ Posts(rthr[r], x) => ReadersPost(x)
<1>1. rthr'[r] = thr /\ \A q \in Readers \ {r} : rthr'[q] = rthr[q]
  BY Zenon DEF TypeOK
<1>2. /\ ReadersWork(x)' <=> \E q \in Readers : Works(rthr'[q], x)
      /\ ReadersPost(x)' <=> \E q \in Readers : Posts(rthr'[q], x)
  BY Zenon DEF ReadersWork, ReadersPost, Works, Posts
<1>3. \A q \in Readers \ {r} : /\ Works(rthr'[q], x) <=> Works(rthr[q], x)
                               /\ Posts(rthr'[q], x) <=> Posts(rthr[q], x)
  BY <1>1, Zenon
<1>4. (Works(rthr'[r], x) <=> Works(thr, x)) /\ (Posts(rthr'[r], x) <=> Posts(thr, x))
  BY <1>1, Zenon
<1> QED
  BY <1>2, <1>3, <1>4, Zenon DEF ReadersWork, ReadersPost

(* A session has no request or reply besides the one it has. *)
LEMMA OneCarried ==
  ASSUME OneInFlight
  PROVE  /\ \A x, y : x.s \in Sessions /\ x.s = y.s =>
              /\ Pending(x) /\ Pending(y) => x = y
              /\ OnItsWay(x) /\ OnItsWay(y) => x = y
              /\ ~(Pending(x) /\ OnItsWay(y))
         /\ \A x : x.s \in Sessions /\ (x.s \in reading \/ conn[x.s] = "new") =>
              ~Pending(x) /\ ~OnItsWay(x)
<1>1. ASSUME NEW x
      PROVE  /\ In(writerq, x) => InQueue(writerq, x.s)
             /\ In(readerq, x) => InQueue(readerq, x.s)
             /\ In(ioq, x) => InQueue(ioq, x.s)
             /\ Works(wthr, x) \/ Posts(wthr, x) => Serves(wthr, x.s)
             /\ ReadersWork(x) \/ ReadersPost(x) => InReaders(x.s)
  BY Zenon DEF In, InQueue, Works, Posts, Serves, ReadersWork, ReadersPost, InReaders
<1>2. ASSUME NEW x, NEW y, x.s = y.s
      PROVE  /\ OneInQueue(writerq, x.s) /\ In(writerq, x) /\ In(writerq, y) => x = y
             /\ OneInQueue(readerq, x.s) /\ In(readerq, x) /\ In(readerq, y) => x = y
             /\ OneInQueue(ioq, x.s) /\ In(ioq, x) /\ In(ioq, y) => x = y
  BY <1>2, Zenon DEF In, OneInQueue
<1>3. ASSUME NEW x, NEW y, x.s = y.s
      PROVE  /\ Works(wthr, x) /\ Works(wthr, y) => x = y
             /\ Posts(wthr, x) /\ Posts(wthr, y) => x = y
             /\ ~(Works(wthr, x) /\ Posts(wthr, y))
  BY Zenon DEF Works, Posts
<1>4. ASSUME NEW x, NEW y, x.s = y.s, OneInReaders(x.s)
      PROVE  /\ ReadersWork(x) /\ ReadersWork(y) => x = y
             /\ ReadersPost(x) /\ ReadersPost(y) => x = y
             /\ ~(ReadersWork(x) /\ ReadersPost(y))
  <2>1. \A p, q \in Readers : \A v, w \in {x, y} :
          (Works(rthr[p], v) \/ Posts(rthr[p], v)) /\ (Works(rthr[q], w) \/ Posts(rthr[q], w))
            => p = q
    BY <1>4, ZenonT(120) DEF OneInReaders, Serves, Works, Posts
  <2>2. \A p \in Readers : /\ Works(rthr[p], x) /\ Works(rthr[p], y) => x = y
                           /\ Posts(rthr[p], x) /\ Posts(rthr[p], y) => x = y
                           /\ ~(Works(rthr[p], x) /\ Posts(rthr[p], y))
    BY Zenon DEF Works, Posts
  <2> QED
    BY <2>1, <2>2, Zenon DEF ReadersWork, ReadersPost
<1>5. \A s \in Sessions : Single(s) /\ (conn[s] = "new" => Absent(s))
  BY SingleForm, Zenon
<1>6. ASSUME NEW x, NEW y, x.s \in Sessions, x.s = y.s
      PROVE  /\ Pending(x) /\ Pending(y) => x = y
             /\ OnItsWay(x) /\ OnItsWay(y) => x = y
             /\ ~(Pending(x) /\ OnItsWay(y))
  <2>1. Single(x.s)
    BY <1>5, <1>6, Zenon
  <2> QED
    BY <1>1, <1>2, <1>3, <1>4, <1>6, <2>1, Zenon DEF Single, Pending, OnItsWay
<1>7. ASSUME NEW x, x.s \in Sessions, x.s \in reading \/ conn[x.s] = "new"
      PROVE  ~Pending(x) /\ ~OnItsWay(x)
  BY <1>1, <1>5, <1>7, Zenon DEF Single, Absent, Pending, OnItsWay
<1> QED
  BY <1>6, <1>7, Zenon

(* A request in flight is pending, or its reply is on its way. *)
LEMMA InFlightForm ==
  ASSUME NEW s
  PROVE  InFlight(s) <=> \E x : x.s = s /\ (Pending(x) \/ OnItsWay(x))
<1>1. InFlight(s) <=> \/ InQueue(writerq, s) \/ InQueue(readerq, s) \/ InQueue(ioq, s)
                      \/ Serves(wthr, s) \/ InReaders(s)
  <2>1. InFlight(s) <=> \E p : p \in Places(s) /\ p # <<"read", 0>>
    BY Zenon DEF InFlight
  <2>2. /\ \A i : <<"writerq", i>> # <<"read", 0>> /\ <<"readerq", i>> # <<"read", 0>>
                  /\ <<"ioq", i>> # <<"read", 0>> /\ <<"reader", i>> # <<"read", 0>>
        /\ <<"writer", 0>> # <<"read", 0>>
    BY Zenon
  <2> QED
    BY <2>1, <2>2, PlaceCases, ZenonT(120) DEF InQueue, InReaders
<1>2. InQueue(writerq, s) <=> \E x : x.s = s /\ In(writerq, x)
  BY Zenon DEF InQueue, In
<1>3. InQueue(readerq, s) <=> \E x : x.s = s /\ In(readerq, x)
  BY Zenon DEF InQueue, In
<1>4. InQueue(ioq, s) <=> \E x : x.s = s /\ In(ioq, x)
  BY Zenon DEF InQueue, In
<1>5. \A thr : Serves(thr, s) <=> \E x : x.s = s /\ (Works(thr, x) \/ Posts(thr, x))
  BY Zenon DEF Serves, Works, Posts
<1>6. InReaders(s) <=> \E x : x.s = s /\ (ReadersWork(x) \/ ReadersPost(x))
  BY <1>5, Zenon DEF InReaders, ReadersWork, ReadersPost
<1> QED
  BY <1>1, <1>2, <1>3, <1>4, <1>5, <1>6, Zenon DEF Pending, OnItsWay

-----------------------------------------------------------------------------
(* The five kinds of steps. *)

KeepsText    == \A s \in Sessions : Written(s)' = Written(s)
KeepsPending == \A x : Pending(x)' <=> Pending(x)
KeepsReplies == \A x : OnItsWay(x)' <=> OnItsWay(x)

Quiet == KeepsText /\ KeepsPending /\ KeepsReplies /\ UNCHANGED <<nreq, ns, tx>>

(* The io thread answers a request itself. *)
AnswerStep(m) ==
  /\ m \in Msg /\ m.s \in reading /\ m.op \in {"ping", "bad"}
  /\ m.no = nreq[m.s] + 1 /\ nreq' = [nreq EXCEPT ![m.s] = @ + 1]
  /\ \A s \in Sessions :
       Written(s)' = IF s = m.s THEN Append(Written(s), m) ELSE Written(s)
  /\ KeepsPending /\ KeepsReplies /\ UNCHANGED <<reading, ns, tx>>

(* The io thread posts a request to another thread. *)
RequestStep(j) ==
  /\ j \in Job /\ j.s \in reading /\ reading' = reading \ {j.s}
  /\ j.no = nreq[j.s] + 1 /\ nreq' = [nreq EXCEPT ![j.s] = @ + 1]
  /\ \A x : Pending(x)' <=> Pending(x) \/ x = j
  /\ KeepsText /\ KeepsReplies /\ UNCHANGED <<ns, tx>>

(* What handling the request j with the reply m does to the store and to   *)
(* the session's namespace.                                                *)
Effect(j, m) ==
  \/ ~m.ok /\ UNCHANGED <<ns, tx>>
  \/ /\ m.ok /\ j.op = "namespace" /\ ns' = ns
     /\ DOMAIN tx' = DOMAIN tx \cup {j.arg}
     /\ \A n \in DOMAIN tx' : tx'[n] = IF n \in DOMAIN tx THEN tx[n] ELSE 1
  \/ /\ m.ok /\ j.op = "transact" /\ ns' = ns
     /\ m.ns = ns[j.s] /\ m.tx = tx[m.ns] /\ tx' = [tx EXCEPT ![m.ns] = @ + 1]
  \/ /\ m.ok /\ j.op = "select" /\ tx' = tx
     /\ m.ns \in DOMAIN tx /\ ns' = [ns EXCEPT ![j.s] = m.ns]
  \/ /\ m.ok /\ j.op = "facts" /\ UNCHANGED <<ns, tx>>
     /\ m.ns = ns[j.s] /\ m.tx = tx[m.ns]

(* The writer or a reader handles the request j. *)
HandleStep(j, m) ==
  /\ j \in Job /\ m \in Msg /\ Pending(j)
  /\ m.s = j.s /\ m.no = j.no /\ m.op = j.op
  /\ \A x : (Pending(x) => Pending(x)' \/ x = j) /\ (Pending(x)' => Pending(x))
  /\ \A x : OnItsWay(x)' <=> OnItsWay(x) \/ x = m
  /\ KeepsText /\ UNCHANGED <<reading, nreq>>
  /\ Effect(j, m)

(* The io thread writes the reply m and publishes it. *)
DeliverStep(m) ==
  /\ m \in Msg /\ OnItsWay(m) /\ reading' = reading \cup {m.s}
  /\ \A x : (OnItsWay(x) => OnItsWay(x)' \/ x = m) /\ (OnItsWay(x)' => OnItsWay(x))
  /\ Written(m.s)' = Append(Written(m.s), m)
  /\ \A s \in Sessions \ {m.s} :
       \/ Written(s)' = Written(s)
       \/ m.op = "transact" /\ m.ok /\ Written(s)' = Append(Written(s), Event(m))
  /\ KeepsPending /\ UNCHANGED <<nreq, ns, tx>>

(* Sequences of messages. *)
LEMMA MessageSeqs ==
  /\ \A u, v, w \in Seq(Msg) : (u \o v) \o w = u \o (v \o w)
  /\ \A u \in Seq(Msg) : \A m \in Msg : Append(u, m) = u \o <<m>>
  /\ \A u \in Seq(Msg) : u \o <<>> = u
<1>1. ASSUME NEW u \in Seq(Msg), NEW v \in Seq(Msg), NEW w \in Seq(Msg)
      PROVE  (u \o v) \o w = u \o (v \o w)
  BY SMTT(30)
<1>2. ASSUME NEW u \in Seq(Msg), NEW m \in Msg PROVE Append(u, m) = u \o <<m>>
  OBVIOUS
<1> QED
  BY <1>1, <1>2, SMTT(60)

(* What was written to a session is a sequence of messages. *)
LEMMA WrittenType ==
  ASSUME TypeOK, NEW s \in Sessions
  PROVE  Written(s) \in Seq(Msg)
<1>1. sent[s] \in Seq(Msg) /\ wq[s] \in Seq(Msg)
  BY Zenon DEF TypeOK
<1> QED
  BY <1>1 DEF Written

(* Without a write nothing is written. *)
LEMMA TextUnchanged == UNCHANGED <<sent, wq>> => KeepsText
  BY Zenon DEF KeepsText, Written

(* session::write adds to what was written. *)
LEMMA WriteText ==
  ASSUME TypeOK, NEW out \in [Sessions -> Seq(Msg)], Write(out), UNCHANGED sent,
         NEW s \in Sessions
  PROVE  Written(s)' = Written(s) \o out[s]
<1>1. sent[s] \in Seq(Msg) /\ wq[s] \in Seq(Msg) /\ out[s] \in Seq(Msg)
  BY Zenon DEF TypeOK
<1>2. wq'[s] = wq[s] \o out[s] /\ sent'[s] = sent[s]
  BY Zenon DEF Write
<1>3. Written(s)' = sent[s] \o (wq[s] \o out[s])
  BY <1>2, Zenon DEF Written
<1>4. sent[s] \o (wq[s] \o out[s]) = Written(s) \o out[s]
  BY <1>1, MessageSeqs, ZenonT(30) DEF Written
<1> QED
  BY <1>3, <1>4, Zenon

(* A write that completes moves a message within what was written. *)
LEMMA WriteDoneText ==
  ASSUME TypeOK, NEW s \in Sessions, write_done(s)
  PROVE  KeepsText
<1>1. /\ sent[s] \in Seq(Msg) /\ wq[s] \in Seq(Msg) /\ wq[s] # <<>>
  BY Zenon DEF write_done, TypeOK
<1>2. /\ sent'[s] = Append(sent[s], Head(wq[s])) /\ wq'[s] = Tail(wq[s])
      /\ \A x \in Sessions \ {s} : sent'[x] = sent[x] /\ wq'[x] = wq[x]
  BY Zenon DEF write_done, TypeOK
<1>3. ASSUME NEW u \in Seq(Msg), NEW v \in Seq(Msg), v # <<>>
      PROVE  Append(u, Head(v)) \o Tail(v) = u \o v
  <2>1. Head(v) \in Msg /\ Tail(v) \in Seq(Msg) /\ <<Head(v)>> \in Seq(Msg)
    BY <1>3
  <2>2. Append(u, Head(v)) = u \o <<Head(v)>>
    BY <2>1, MessageSeqs, Zenon
  <2>3. <<Head(v)>> \o Tail(v) = v
    BY <1>3
  <2> QED
    BY <2>1, <2>2, <2>3, MessageSeqs, SMTT(30)
<1>4. Written(s)' = sent[s] \o wq[s]
  BY <1>1, <1>2, <1>3, ZenonT(30) DEF Written
<1> QED
  BY <1>2, <1>4, Zenon DEF KeepsText, Written

(* Without a step of a queue or a thread nothing moves. *)
LEMMA WorkUnchanged ==
  /\ UNCHANGED <<writerq, readerq, threads>> => KeepsPending
  /\ UNCHANGED <<ioq, threads>> => KeepsReplies
  BY Zenon DEF KeepsPending, KeepsReplies, Pending, OnItsWay, In, Works, Posts,
         ReadersWork, ReadersPost, threads

(* The parts of Pending and OnItsWay in the next state. *)
LEMMA NextParts ==
  ASSUME NEW x
  PROVE  /\ Pending(x)' <=> \/ In(writerq', x) \/ In(readerq', x) \/ Works(wthr', x)
                            \/ ReadersWork(x)'
         /\ OnItsWay(x)' <=> In(ioq', x) \/ Posts(wthr', x) \/ ReadersPost(x)'
         /\ UNCHANGED rthr => /\ ReadersWork(x)' <=> ReadersWork(x)
                              /\ ReadersPost(x)' <=> ReadersPost(x)
  BY Zenon DEF Pending, OnItsWay, In, Works, Posts, ReadersWork, ReadersPost

(* Taking a request and posting a reply change only where it is. *)
LEMMA MovesQuiet ==
  ASSUME TypeOK,
         \/ writer_take \/ writer_post \/ writer_exit
         \/ \E r \in Readers : reader_start(r) \/ reader_take(r) \/ reader_post(r)
                               \/ reader_exit(r)
  PROVE  Quiet
<1> USE DEF session, queues, threads
<1>1. UNCHANGED <<session, tx>>
  BY Zenon DEF writer_take, writer_post, writer_exit, reader_start, reader_take,
               reader_post, reader_exit
<1>2. KeepsText /\ UNCHANGED <<nreq, ns, tx>>
  BY <1>1, TextUnchanged, Zenon
<1>3. SUFFICES ASSUME NEW x
               PROVE  (Pending(x)' <=> Pending(x)) /\ (OnItsWay(x)' <=> OnItsWay(x))
  BY <1>2, <1>3, Zenon DEF Quiet, KeepsPending, KeepsReplies
<1>4. /\ writerq \in Seq(Job) /\ readerq \in Seq(Job) /\ ioq \in Seq(Msg)
      /\ wthr \in Thread /\ \A r \in Readers : rthr[r] \in Thread
  BY Zenon DEF TypeOK
<1>5. CASE writer_take
  <2>1. /\ wthr.pc = "idle" /\ writerq # <<>> /\ wthr' = Run(Head(writerq))
        /\ writerq' = Tail(writerq) /\ UNCHANGED <<ioq, readerq, rthr>>
    BY <1>5, Zenon DEF writer_take
  <2>2. In(writerq, x) <=> x = Head(writerq) \/ In(writerq', x)
    BY <1>4, <2>1, InTail, Zenon
  <2>3. (Works(wthr', x) <=> x = Head(writerq)) /\ ~Posts(wthr', x)
    BY <2>1, WorkStates, Zenon
  <2>4. ~Works(wthr, x) /\ ~Posts(wthr, x)
    BY <2>1, Zenon DEF Works, Posts
  <2>5. readerq' = readerq /\ ioq' = ioq
    BY <2>1, Zenon
  <2> QED
    BY <2>1, <2>2, <2>3, <2>4, <2>5, NextParts, Zenon DEF Pending, OnItsWay
<1>6. CASE writer_post
  <2>1. /\ wthr.pc = "post" /\ ioq' = Append(ioq, wthr.msg) /\ wthr' = At("idle")
        /\ UNCHANGED <<writerq, readerq, rthr>>
    BY <1>6, Zenon DEF writer_post
  <2>2. In(ioq', x) <=> In(ioq, x) \/ x = wthr.msg
    BY <1>4, <2>1, ThreadType, InAppend
  <2>3. ~Works(wthr', x) /\ ~Posts(wthr', x)
    BY <2>1, WorkStates, Zenon
  <2>4. ~Works(wthr, x) /\ (Posts(wthr, x) <=> x = wthr.msg)
    BY <2>1, Zenon DEF Works, Posts
  <2> QED
    BY <2>1, <2>2, <2>3, <2>4, NextParts, Zenon DEF Pending, OnItsWay
<1>7. CASE writer_exit
  <2>1. wthr.pc = "idle" /\ wthr' = At("gone") /\ UNCHANGED <<queues, rthr>>
    BY <1>7, Zenon DEF writer_exit
  <2>2. ~Works(wthr', x) /\ ~Posts(wthr', x) /\ ~Works(wthr, x) /\ ~Posts(wthr, x)
    BY <2>1, WorkStates, Zenon DEF Works, Posts
  <2> QED
    BY <2>1, <2>2, NextParts, Zenon DEF Pending, OnItsWay
<1>8. ASSUME NEW r \in Readers, reader_start(r) \/ reader_exit(r)
      PROVE  (Pending(x)' <=> Pending(x)) /\ (OnItsWay(x)' <=> OnItsWay(x))
  <2>1. PICK pc \in {"start", "idle", "gone"} :
          /\ rthr[r].pc \in {"start", "idle"}
          /\ rthr' = [rthr EXCEPT ![r] = At(pc)] /\ UNCHANGED <<queues, wthr>>
    BY <1>8, Zenon DEF reader_start, reader_exit
  <2>2. ~Works(rthr[r], x) /\ ~Posts(rthr[r], x) /\ ~Works(At(pc), x) /\ ~Posts(At(pc), x)
    BY <2>1, WorkStates DEF Works, Posts
  <2>3. (ReadersWork(x)' <=> ReadersWork(x)) /\ (ReadersPost(x)' <=> ReadersPost(x))
    BY <2>1, <2>2, ReaderWorkMoves, Zenon
  <2> QED
    BY <2>1, <2>3, NextParts, Zenon DEF Pending, OnItsWay
<1>9. ASSUME NEW r \in Readers, reader_take(r)
      PROVE  (Pending(x)' <=> Pending(x)) /\ (OnItsWay(x)' <=> OnItsWay(x))
  <2> DEFINE job == Head(readerq)
  <2>1. /\ rthr[r].pc = "idle" /\ readerq # <<>>
        /\ rthr' = [rthr EXCEPT ![r] = Run(job)]
        /\ readerq' = Tail(readerq) /\ UNCHANGED <<ioq, writerq, wthr>>
    BY <1>9, Zenon DEF reader_take
  <2>2. In(readerq, x) <=> x = job \/ In(readerq', x)
    BY <1>4, <2>1, InTail, Zenon
  <2> HIDE DEF job
  <2>3. /\ ~Works(rthr[r], x) /\ ~Posts(rthr[r], x)
        /\ (Works(Run(job), x) <=> x = job) /\ ~Posts(Run(job), x)
    BY <2>1, WorkStates DEF Works, Posts
  <2>4. (ReadersWork(x)' <=> ReadersWork(x) \/ x = job) /\ (ReadersPost(x)' <=> ReadersPost(x))
    BY <2>1, <2>3, ReaderWorkMoves, Zenon
  <2> QED
    BY <2>1, <2>2, <2>4, NextParts, Zenon DEF Pending, OnItsWay
<1>10. ASSUME NEW r \in Readers, reader_post(r)
       PROVE  (Pending(x)' <=> Pending(x)) /\ (OnItsWay(x)' <=> OnItsWay(x))
  <2> DEFINE msg == rthr[r].msg
  <2>1. /\ rthr[r].pc = "post" /\ ioq' = Append(ioq, msg)
        /\ rthr' = [rthr EXCEPT ![r] = At("idle")]
        /\ UNCHANGED <<writerq, readerq, wthr>>
    BY <1>10, Zenon DEF reader_post
  <2>2. In(ioq', x) <=> In(ioq, x) \/ x = msg
    <3>1. msg \in Msg
      BY <1>4, <2>1, ThreadType, Zenon
    <3> QED
      BY <1>4, <2>1, <3>1, InAppend
  <2>3. /\ ~Works(rthr[r], x) /\ (Posts(rthr[r], x) <=> x = msg)
        /\ ~Works(At("idle"), x) /\ ~Posts(At("idle"), x)
    BY <2>1, WorkStates, Zenon DEF Works, Posts
  <2> HIDE DEF msg
  <2>4. /\ ReadersWork(x)' <=> ReadersWork(x)
        /\ ReadersPost(x) => ReadersPost(x)' \/ x = msg
        /\ ReadersPost(x)' => ReadersPost(x)
        /\ x = msg => ReadersPost(x)
    BY <2>1, <2>3, ReaderWorkMoves, Zenon
  <2> QED
    BY <2>1, <2>2, <2>4, NextParts, Zenon DEF Pending, OnItsWay
<1> QED
  BY <1>5, <1>6, <1>7, <1>8, <1>9, <1>10, Zenon

(* A reply is written to one session. *)
LEMMA WrittenToOne ==
  ASSUME NEW s \in Sessions, NEW w \in Seq(Msg)
  PROVE  /\ [Nothing EXCEPT ![s] = w] \in [Sessions -> Seq(Msg)]
         /\ [Nothing EXCEPT ![s] = w][s] = w
         /\ \A x \in Sessions \ {s} : [Nothing EXCEPT ![s] = w][x] = <<>>
<1>1. Nothing \in [Sessions -> Seq(Msg)] /\ \A x \in Sessions : Nothing[x] = <<>>
  BY DEF Nothing
<1> QED
  BY <1>1, Zenon

(* The io thread reads a request. *)
LEMMA ReadSteps ==
  ASSUME TypeOK, NEW s \in Sessions, NEW op \in Ops, NEW arg \in ArgsOf(op),
         request_read(s, op, arg)
  PROVE  (\E m : AnswerStep(m)) \/ (\E j : RequestStep(j))
<1> USE DEF queues, threads
<1> DEFINE job == [s |-> s, op |-> op, arg |-> arg, no |-> nreq[s] + 1]
           m == Reply(job, op = "ping", 0, 0)
           out == [Nothing EXCEPT ![s] = <<m>>]
<1>1. job \in Job /\ job.s = s /\ job.no = nreq[s] + 1 /\ job.op = op
  BY RequestType, Zenon
<1>2. m \in Msg /\ m.s = s /\ m.no = nreq[s] + 1 /\ m.op = op
  <2>1. m \in Msg
    BY <1>1, ReplyType, ServerAssumption, Zenon
  <2> QED
    BY <2>1, Zenon DEF Reply
<1>3. /\ s \in reading /\ nreq' = [nreq EXCEPT ![s] = @ + 1]
      /\ UNCHANGED <<ns, tx, sent, threads>>
  BY Zenon DEF request_read
<1>4. CASE op \in {"ping", "bad"}
  <2>1. Write(out) /\ UNCHANGED <<reading, queues>>
    BY <1>4, Zenon DEF request_read
  <2> HIDE DEF job, m
  <2>2. /\ out \in [Sessions -> Seq(Msg)] /\ out[s] = <<m>>
        /\ \A x \in Sessions \ {s} : out[x] = <<>>
    <3>1. <<m>> \in Seq(Msg)
      BY <1>2
    <3> QED
      BY <3>1, WrittenToOne, Zenon
  <2> HIDE DEF out
  <2>3. ASSUME NEW x \in Sessions
        PROVE  Written(x)' = IF x = m.s THEN Append(Written(x), m) ELSE Written(x)
    <3>1. Written(x) \in Seq(Msg)
      BY WrittenType, Zenon
    <3>2. Written(x)' = Written(x) \o out[x]
      BY <1>3, <2>1, <2>2, WriteText, Zenon
    <3>3. CASE x = s
      <4>1. Append(Written(s), m) = Written(s) \o <<m>>
        BY <1>2, <3>1, <3>3, MessageSeqs, Zenon
      <4> QED
        BY <1>2, <2>2, <3>2, <3>3, <4>1, Zenon
    <3>4. CASE x # s
      BY <1>2, <2>2, <3>1, <3>2, <3>4, MessageSeqs, Zenon
    <3> QED
      BY <3>3, <3>4, Zenon
  <2>4. KeepsPending /\ KeepsReplies
    BY <1>3, <2>1, WorkUnchanged, Zenon
  <2>5. AnswerStep(m)
    BY <1>2, <1>3, <1>4, <2>1, <2>3, <2>4, Zenon DEF AnswerStep
  <2> QED
    BY <2>5, Zenon
<1>5. CASE op \notin {"ping", "bad"}
  <2>1. /\ UNCHANGED <<wq, ioq>> /\ reading' = reading \ {s}
        /\ \/ writerq' = Append(writerq, job) /\ UNCHANGED readerq
           \/ readerq' = Append(readerq, job) /\ UNCHANGED writerq
    BY <1>5, Zenon DEF request_read
  <2>2. KeepsText /\ KeepsReplies
    BY <1>3, <2>1, TextUnchanged, WorkUnchanged, Zenon
  <2> HIDE DEF job
  <2>3. ASSUME NEW x PROVE Pending(x)' <=> Pending(x) \/ x = job
    <3>1. \A q \in Seq(Job) : In(Append(q, job), x) <=> In(q, x) \/ x = job
      BY <1>1, InAppend, Zenon
    <3>2. writerq \in Seq(Job) /\ readerq \in Seq(Job)
      BY Zenon DEF TypeOK
    <3>3. UNCHANGED <<wthr, rthr>>
      BY <1>3, Zenon
    <3>4. In(writerq', x) \/ In(readerq', x) <=> In(writerq, x) \/ In(readerq, x) \/ x = job
      BY <2>1, <3>1, <3>2, ZenonT(60)
    <3> QED
      BY <3>3, <3>4, NextParts, Zenon DEF Pending
  <2>4. RequestStep(job)
    BY <1>1, <1>3, <2>1, <2>2, <2>3, Zenon DEF RequestStep
  <2> QED
    BY <2>4, Zenon
<1> QED
  BY <1>4, <1>5, Zenon

(* A step of the writer that answers the request it works on. *)
LEMMA WriterHandles ==
  ASSUME TypeOK, NEW m \in Msg, wthr.pc = "run", WriterReplies(m),
         m.s = wthr.job.s, m.no = wthr.job.no, m.op = wthr.job.op, UNCHANGED ns,
         Effect(wthr.job, m)
  PROVE  HandleStep(wthr.job, m)
<1>1. wthr.job \in Job
  BY ThreadType, Zenon DEF TypeOK
<1>2. wthr' = Post(m) /\ UNCHANGED <<session, queues, rthr>>
  BY Zenon DEF WriterReplies
<1>3. KeepsText /\ UNCHANGED <<reading, nreq>>
  BY <1>2, TextUnchanged, Zenon DEF session
<1>4. ASSUME NEW x
      PROVE  /\ Pending(x) => Pending(x)' \/ x = wthr.job
             /\ Pending(x)' => Pending(x)
             /\ OnItsWay(x)' <=> OnItsWay(x) \/ x = m
  <2>1. ~Posts(wthr, x) /\ (Works(wthr, x) => x = wthr.job)
    BY Zenon DEF Works, Posts
  <2>2. (Posts(wthr', x) <=> x = m) /\ ~Works(wthr', x)
    BY <1>2, WorkStates, Zenon
  <2> QED
    BY <1>2, <2>1, <2>2, NextParts, Zenon DEF Pending, OnItsWay, queues
<1>5. Pending(wthr.job)
  BY Zenon DEF Pending, Works
<1> QED
  BY <1>1, <1>3, <1>4, <1>5, Zenon DEF HandleStep

(* A step of a reader that answers the request it works on. *)
LEMMA ReaderHandles ==
  ASSUME TypeOK, NEW r \in Readers, NEW m \in Msg, rthr[r].pc = "run",
         ReaderReplies(r, m), m.s = rthr[r].job.s, m.no = rthr[r].job.no,
         m.op = rthr[r].job.op, Effect(rthr[r].job, m)
  PROVE  HandleStep(rthr[r].job, m)
<1> DEFINE job == rthr[r].job
<1>1. job \in Job
  BY ThreadType, Zenon DEF TypeOK
<1>2. /\ rthr' = [rthr EXCEPT ![r] = Post(m)]
      /\ UNCHANGED <<reading, nreq, wq, sent, queues, wthr>>
  BY Zenon DEF ReaderReplies
<1>3. KeepsText /\ UNCHANGED <<reading, nreq>>
  BY <1>2, TextUnchanged, Zenon
<1>4. ASSUME NEW x
      PROVE  /\ Pending(x) => Pending(x)' \/ x = job
             /\ Pending(x)' => Pending(x)
             /\ OnItsWay(x)' <=> OnItsWay(x) \/ x = m
  <2>1. ~Posts(rthr[r], x) /\ (Works(rthr[r], x) => x = job)
    BY Zenon DEF Works, Posts
  <2>2. (Posts(Post(m), x) <=> x = m) /\ ~Works(Post(m), x)
    BY WorkStates, Zenon
  <2>3. /\ ReadersWork(x) => ReadersWork(x)' \/ x = job
        /\ ReadersWork(x)' => ReadersWork(x)
        /\ ReadersPost(x)' <=> ReadersPost(x) \/ x = m
    BY <1>2, <2>1, <2>2, ReaderWorkMoves, Zenon
  <2> QED
    BY <1>2, <2>3, NextParts, Zenon DEF Pending, OnItsWay, queues
<1>5. Pending(job)
  BY Zenon DEF Pending, ReadersWork, Works
<1>6. Effect(job, m) /\ m.s = job.s /\ m.no = job.no /\ m.op = job.op
  BY Zenon
<1> HIDE DEF job
<1>7. HandleStep(job, m)
  BY <1>1, <1>3, <1>4, <1>5, <1>6, Zenon DEF HandleStep
<1> QED
  BY <1>7, Zenon DEF job

=============================================================================
