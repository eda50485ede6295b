-------------------------- MODULE ServerStepProofs --------------------------
(***************************************************************************)
(* Every step of Server is one of five kinds as its clients tell them      *)
(* apart, for every choice of the constants; and the first of what the     *)
(* server promises them: replies in the order of the requests.             *)
(***************************************************************************)
EXTENDS ServerProofs

-----------------------------------------------------------------------------
(* The handlers, and the steps that deliver what they answer. *)

(* The columns of a reply to a request that succeeded. *)
Succeeds(m, job, n, t) ==
  /\ m = Reply(job, TRUE, n, t)
  /\ m.s = job.s /\ m.no = job.no /\ m.op = job.op
  /\ m.ok /\ m.ns = n /\ m.tx = t

(* There is such a reply. *)
LEMMA ReplyFields ==
  \A job \in Job : \A n \in NsIds : \A t \in Nat : \E m \in Msg : Succeeds(m, job, n, t)
<1> TAKE job \in Job
<1> TAKE n \in NsIds
<1> TAKE t \in Nat
<1>1. Reply(job, TRUE, n, t) \in Msg
  BY Zenon DEF Reply, Job, Msg
<1>2. LET m == Reply(job, TRUE, n, t)
      IN  /\ m.s = job.s /\ m.no = job.no /\ m.op = job.op /\ m.ok
          /\ m.ns = n /\ m.tx = t
  BY Zenon DEF Reply
<1> QED
  BY <1>1, <1>2, Zenon DEF Succeeds

(* The columns of a reply to a request that failed. *)
LEMMA ErrorFields ==
  ASSUME NEW job \in Job
  PROVE  /\ ErrorReply(job) \in Msg
         /\ ErrorReply(job).s = job.s /\ ErrorReply(job).no = job.no
         /\ ErrorReply(job).op = job.op /\ ~ErrorReply(job).ok
<1>1. ErrorReply(job) \in Msg
  BY ErrorType, Zenon
<1> QED
  BY <1>1, Zenon DEF ErrorReply, Reply

(* The writer answers the request it works on with m. *)
WriterAnswers(m) ==
  /\ WriterReplies(m) /\ HandleStep(wthr.job, m)
  /\ wthr.pc = "run" /\ wthr.job.op \in {"namespace", "transact"}

(* handle_namespace answers. *)
LEMMA NamespaceHandled ==
  ASSUME TypeOK, handle_namespace
  PROVE  \E m \in Msg : WriterAnswers(m)
<1>2. \A job \in Job : /\ ErrorReply(job) \in Msg
                        /\ ErrorReply(job).s = job.s /\ ErrorReply(job).no = job.no
                        /\ ErrorReply(job).op = job.op /\ ~ErrorReply(job).ok
  BY ErrorFields, Zenon
<1>3. \A n \in DOMAIN tx : n \in NsIds /\ tx[n] \in Nat
  BY Zenon DEF TypeOK
<1>0. 0 \in NsIds /\ 0 \in Nat
  BY ServerAssumption, Zenon
<1>4. \E m \in Msg : WriterAnswers(m)
  <2> DEFINE job == wthr.job
  <2>0. job \in Job
    BY ThreadType, Zenon DEF handle_namespace, TypeOK
  <2>1. /\ wthr.pc = "run" /\ job.op = "namespace" /\ job \in Job
    BY <2>0, Zenon DEF handle_namespace
  <2>2. CASE /\ tx' = [n \in DOMAIN tx \cup {job.arg} |-> IF n \in DOMAIN tx THEN tx[n] ELSE 1]
             /\ WriterReplies(Reply(job, TRUE, 0, 0))
    <3>0. PICK m \in Msg : Succeeds(m, job, 0, 0)
      BY <1>0, <2>0, ReplyFields, Zenon
    <3>1. /\ m = Reply(job, TRUE, 0, 0) /\ m.ok
          /\ m.s = job.s /\ m.no = job.no /\ m.op = job.op
      BY <3>0, Zenon DEF Succeeds
    <3>2. ns' = ns
      BY <2>2, Zenon DEF WriterReplies, session
    <3>3. Effect(job, m)
      BY <2>1, <2>2, <3>1, <3>2, Zenon DEF Effect
    <3>4. WriterReplies(m)
      BY <2>2, <3>1, Zenon
    <3>5. HandleStep(wthr.job, m)
      BY <2>1, <3>1, <3>2, <3>3, <3>4, WriterHandles, Zenon
    <3> QED
      BY <2>1, <3>4, <3>5, Zenon DEF WriterAnswers
  <2>3. CASE WriterReplies(ErrorReply(job)) /\ UNCHANGED tx
    <3> DEFINE m == ErrorReply(job)
    <3>1. m \in Msg /\ m.s = job.s /\ m.no = job.no /\ m.op = job.op /\ ~m.ok
      BY <1>2, <2>1, Zenon
    <3>2. ns' = ns
      BY <2>3, Zenon DEF WriterReplies, session
    <3> HIDE DEF m
    <3>3. Effect(job, m)
      BY <2>3, <3>1, <3>2, Zenon DEF Effect
    <3>4. WriterReplies(m)
      BY <2>3, Zenon DEF m
    <3>5. HandleStep(wthr.job, m)
      BY <2>1, <3>1, <3>2, <3>3, <3>4, WriterHandles, Zenon
    <3> QED
      BY <2>1, <3>1, <3>4, <3>5, Zenon DEF WriterAnswers
  <2> QED
    BY <2>2, <2>3, Zenon DEF handle_namespace
<1> QED
  BY <1>4, Zenon

(* handle_transact answers. *)
LEMMA TransactHandled ==
  ASSUME TypeOK, handle_transact
  PROVE  \E m \in Msg : WriterAnswers(m)
<1>2. \A job \in Job : /\ ErrorReply(job) \in Msg
                        /\ ErrorReply(job).s = job.s /\ ErrorReply(job).no = job.no
                        /\ ErrorReply(job).op = job.op /\ ~ErrorReply(job).ok
  BY ErrorFields, Zenon
<1>3. \A n \in DOMAIN tx : n \in NsIds /\ tx[n] \in Nat
  BY Zenon DEF TypeOK
<1>0. 0 \in NsIds /\ 0 \in Nat
  BY ServerAssumption, Zenon
<1>5. \E m \in Msg : WriterAnswers(m)
  <2> DEFINE job == wthr.job
             n == ns[job.s]
  <2>0. job \in Job
    BY ThreadType, Zenon DEF handle_transact, TypeOK
  <2>1. /\ wthr.pc = "run" /\ job.op = "transact" /\ job \in Job
    BY <2>0, Zenon DEF handle_transact
  <2>2. n \in DOMAIN tx
    BY <2>1, Zenon DEF Job, TypeOK
  <2>3. CASE /\ tx' = [tx EXCEPT ![n] = @ + 1]
             /\ WriterReplies(Reply(job, TRUE, n, tx[n]))
    <3>0. n \in NsIds /\ tx[n] \in Nat
      BY <1>3, <2>2, Zenon
    <3>6. PICK m \in Msg : Succeeds(m, job, n, tx[n])
      BY <2>0, <3>0, ReplyFields, Zenon
    <3>1. /\ m = Reply(job, TRUE, n, tx[n])
          /\ m.s = job.s /\ m.no = job.no /\ m.op = job.op
          /\ m.ok /\ m.ns = n /\ m.tx = tx[n]
      BY <3>6, Zenon DEF Succeeds
    <3>2. ns' = ns
      BY <2>3, Zenon DEF WriterReplies, session
    <3>3. Effect(job, m)
      BY <2>1, <2>3, <3>1, <3>2, Zenon DEF Effect
    <3>4. WriterReplies(m)
      BY <2>3, <3>1, Zenon
    <3>7. HandleStep(wthr.job, m)
      BY <2>1, <3>1, <3>2, <3>3, <3>4, WriterHandles, Zenon
    <3> QED
      BY <2>1, <3>4, <3>7, Zenon DEF WriterAnswers
  <2>4. CASE WriterReplies(ErrorReply(job)) /\ UNCHANGED tx
    <3> DEFINE m == ErrorReply(job)
    <3>1. m \in Msg /\ m.s = job.s /\ m.no = job.no /\ m.op = job.op /\ ~m.ok
      BY <1>2, <2>1, Zenon
    <3>2. ns' = ns
      BY <2>4, Zenon DEF WriterReplies, session
    <3> HIDE DEF m
    <3>3. Effect(job, m)
      BY <2>4, <3>1, <3>2, Zenon DEF Effect
    <3>4. WriterReplies(m)
      BY <2>4, Zenon DEF m
    <3>5. HandleStep(wthr.job, m)
      BY <2>1, <3>1, <3>2, <3>3, <3>4, WriterHandles, Zenon
    <3> QED
      BY <2>1, <3>1, <3>4, <3>5, Zenon DEF WriterAnswers
  <2> QED
    BY <2>3, <2>4, Zenon DEF handle_transact
<1> QED
  BY <1>5, Zenon

(* The handlers. *)
LEMMA HandlerSteps ==
  ASSUME TypeOK,
         \/ handle_namespace \/ handle_transact
         \/ \E r \in Readers : handle_select(r) \/ handle_facts(r)
  PROVE  \E j, m : HandleStep(j, m)
<1>2. \A job \in Job : /\ ErrorReply(job) \in Msg
                        /\ ErrorReply(job).s = job.s /\ ErrorReply(job).no = job.no
                        /\ ErrorReply(job).op = job.op /\ ~ErrorReply(job).ok
  BY ErrorFields, Zenon
<1>3. \A n \in DOMAIN tx : n \in NsIds /\ tx[n] \in Nat
  BY Zenon DEF TypeOK
<1>0. 0 \in NsIds /\ 0 \in Nat
  BY ServerAssumption, Zenon
<1>4. CASE handle_namespace \/ handle_transact
  BY <1>4, NamespaceHandled, TransactHandled, Zenon DEF WriterAnswers
<1>6. ASSUME NEW r \in Readers, handle_select(r) PROVE \E j, m : HandleStep(j, m)
  <2> DEFINE job == rthr[r].job
  <2>0. job \in Job
    BY <1>6, ThreadType, Zenon DEF handle_select, TypeOK
  <2>1. /\ rthr[r].pc = "run" /\ job.op = "select" /\ job \in Job
    BY <1>6, <2>0, Zenon DEF handle_select
  <2>2. PICK m \in Msg :
          /\ ReaderReplies(r, m) /\ m.s = job.s /\ m.no = job.no /\ m.op = job.op
          /\ \/ m.ok /\ m.ns \in DOMAIN tx /\ ns' = [ns EXCEPT ![job.s] = m.ns]
             \/ ~m.ok /\ ns' = ns
    <3>1. CASE /\ job.arg \in DOMAIN tx /\ ns' = [ns EXCEPT ![job.s] = job.arg]
               /\ ReaderReplies(r, Reply(job, TRUE, job.arg, 0))
      <4>0. job.arg \in NsIds
        BY <1>3, <3>1, Zenon
      <4>1. PICK m \in Msg : Succeeds(m, job, job.arg, 0)
        BY <1>0, <2>0, <4>0, ReplyFields, Zenon
      <4>2. /\ m = Reply(job, TRUE, job.arg, 0) /\ m.ok /\ m.ns = job.arg
            /\ m.s = job.s /\ m.no = job.no /\ m.op = job.op
        BY <4>1, Zenon DEF Succeeds
      <4> QED
        BY <3>1, <4>2, Zenon
    <3>2. CASE ReaderReplies(r, ErrorReply(job)) /\ UNCHANGED ns
      BY <1>2, <2>1, <3>2, Zenon
    <3> QED
      BY <1>6, <3>1, <3>2, Zenon DEF handle_select
  <2>3. tx' = tx
    BY <2>2, Zenon DEF ReaderReplies
  <2> HIDE DEF job
  <2>4. Effect(job, m)
    BY <2>1, <2>2, <2>3, Zenon DEF Effect
  <2>5. HandleStep(rthr[r].job, m)
    BY <2>1, <2>2, <2>4, ReaderHandles, Zenon DEF job
  <2> QED
    BY <2>5, Zenon
<1>7. ASSUME NEW r \in Readers, handle_facts(r) PROVE \E j, m : HandleStep(j, m)
  <2> DEFINE job == rthr[r].job
  <2>0. job \in Job
    BY <1>7, ThreadType, Zenon DEF handle_facts, TypeOK
  <2>1. /\ rthr[r].pc = "run" /\ job.op = "facts" /\ job \in Job
    BY <1>7, <2>0, Zenon DEF handle_facts
  <2>2. ns[job.s] \in DOMAIN tx
    BY <2>1, Zenon DEF Job, TypeOK
  <2>3. PICK m \in Msg :
          /\ ReaderReplies(r, m) /\ m.s = job.s /\ m.no = job.no /\ m.op = job.op
          /\ m.ok => m.ns = ns[job.s] /\ m.tx = tx[m.ns]
    <3>1. CASE ReaderReplies(r, Reply(job, TRUE, ns[job.s], tx[ns[job.s]]))
      <4>0. ns[job.s] \in NsIds /\ tx[ns[job.s]] \in Nat
        BY <1>3, <2>2, Zenon
      <4>3. PICK m \in Msg : Succeeds(m, job, ns[job.s], tx[ns[job.s]])
        BY <2>0, <4>0, ReplyFields, Zenon
      <4>1. /\ m = Reply(job, TRUE, ns[job.s], tx[ns[job.s]])
            /\ m.s = job.s /\ m.no = job.no /\ m.op = job.op
            /\ m.ns = ns[job.s] /\ m.tx = tx[ns[job.s]]
        BY <4>3, Zenon DEF Succeeds
      <4> QED
        BY <3>1, <4>1, Zenon
    <3>2. CASE ReaderReplies(r, ErrorReply(job))
      BY <1>2, <2>1, <3>2, Zenon
    <3> QED
      BY <1>7, <3>1, <3>2, Zenon DEF handle_facts
  <2>4. tx' = tx /\ ns' = ns
    BY <1>7, <2>3, Zenon DEF handle_facts, ReaderReplies
  <2> HIDE DEF job
  <2>5. Effect(job, m)
    BY <2>1, <2>3, <2>4, Zenon DEF Effect
  <2>6. HandleStep(rthr[r].job, m)
    BY <2>1, <2>3, <2>5, ReaderHandles, Zenon DEF job
  <2> QED
    BY <2>6, Zenon
<1> QED
  BY <1>4, <1>6, <1>7, Zenon

(* What the function that a handler posted writes: the reply to its        *)
(* session, the event of a transaction to the other members.               *)
LEMMA DeliveredText ==
  ASSUME TypeOK, run_posted, NEW m, m = Head(ioq)
  PROVE  /\ m \in Msg /\ m.s \in Sessions
         /\ Written(m.s)' = Append(Written(m.s), m)
         /\ \A x \in Sessions \ {m.s} :
              Written(x)' = IF m.op = "transact" /\ m.ok /\ x \in members[m.ns]
                              THEN Append(Written(x), Event(m)) ELSE Written(x)
<1> DEFINE reply == [Nothing EXCEPT ![m.s] = <<m>>]
           event == IF m.op = "transact" /\ m.ok THEN publish(m) ELSE Nothing
           out == [s \in Sessions |-> reply[s] \o event[s]]
<1>1. m \in Msg /\ m.s \in Sessions /\ <<m>> \in Seq(Msg)
  <2>1. m \in Msg
    BY DEF run_posted, TypeOK
  <2> QED
    BY <2>1, SMTT(30) DEF Msg
<1>2. Event(m) \in Msg /\ <<Event(m)>> \in Seq(Msg)
  BY <1>1, EventType
<1>3. /\ reply \in [Sessions -> Seq(Msg)] /\ reply[m.s] = <<m>>
      /\ \A x \in Sessions \ {m.s} : reply[x] = <<>>
  BY <1>1, WrittenToOne, ZenonT(60)
<1>4. ASSUME NEW x \in Sessions
      PROVE  /\ event[x] \in Seq(Msg)
             /\ x = m.s => event[x] = <<>>
             /\ event[x] = IF m.op = "transact" /\ m.ok /\ x \in members[m.ns] \ {m.s}
                             THEN <<Event(m)>> ELSE <<>>
  BY <1>2 DEF publish, Nothing
<1>5. Write(out) /\ UNCHANGED sent
  BY DEF run_posted
<1> HIDE DEF reply, event
<1>6. ASSUME NEW x \in Sessions
      PROVE  /\ out[x] = reply[x] \o event[x] /\ out[x] \in Seq(Msg)
             /\ x = m.s => out[x] = <<m>>
             /\ x # m.s => out[x] = event[x]
  <2>1. reply[x] \in Seq(Msg) /\ event[x] \in Seq(Msg) /\ out[x] = reply[x] \o event[x]
    BY <1>3, <1>4, Zenon
  <2>2. \A u \in Seq(Msg) : u \o <<>> = u /\ <<>> \o u = u
    OBVIOUS
  <2>3. x = m.s => out[x] = <<m>>
    BY <1>1, <1>3, <1>4, <2>1, <2>2, Zenon
  <2>4. x # m.s => out[x] = event[x]
    BY <1>3, <2>1, <2>2, Zenon
  <2>5. out[x] \in Seq(Msg)
    BY <1>1, <2>1, <2>3, <2>4, Zenon
  <2> QED
    BY <2>1, <2>3, <2>4, <2>5, Zenon
<1>7. out \in [Sessions -> Seq(Msg)]
  BY <1>6, Zenon
<1> HIDE DEF out
<1>8. ASSUME NEW x \in Sessions
      PROVE  /\ Written(x)' = Written(x) \o out[x] /\ Written(x) \in Seq(Msg)
             /\ Append(Written(x), m) = Written(x) \o <<m>>
             /\ Append(Written(x), Event(m)) = Written(x) \o <<Event(m)>>
             /\ Written(x) = Written(x) \o <<>>
  <2>1. Written(x)' = Written(x) \o out[x]
    BY <1>5, <1>7, WriteText, Zenon
  <2>2. Written(x) \in Seq(Msg)
    BY WrittenType, Zenon
  <2> QED
    BY <1>1, <1>2, <2>1, <2>2, MessageSeqs, Zenon
<1>9. Written(m.s)' = Append(Written(m.s), m)
  BY <1>1, <1>6, <1>8, ZenonT(30)
<1>10. ASSUME NEW x \in Sessions \ {m.s}
       PROVE  Written(x)' = IF m.op = "transact" /\ m.ok /\ x \in members[m.ns]
                              THEN Append(Written(x), Event(m)) ELSE Written(x)
  <2>1. Written(x)' = Written(x) \o event[x]
    BY <1>6, <1>8, Zenon
  <2>2. CASE m.op = "transact" /\ m.ok /\ x \in members[m.ns]
    <3>1. event[x] = <<Event(m)>>
      BY <1>4, <2>2, Zenon
    <3> QED
      BY <1>8, <2>1, <2>2, <3>1, Zenon
  <2>3. CASE ~(m.op = "transact" /\ m.ok /\ x \in members[m.ns])
    <3>1. event[x] = <<>>
      BY <1>4, <2>3, Zenon
    <3> QED
      BY <1>8, <2>1, <2>3, <3>1, Zenon
  <2> QED
    BY <2>2, <2>3, Zenon
<1> QED
  BY <1>1, <1>9, <1>10, Zenon

(* The io thread runs a function that a handler posted. *)
LEMMA PostedStep ==
  ASSUME TypeOK, run_posted
  PROVE  \E m : DeliverStep(m)
<1> USE DEF queues, threads
<1>0. PICK m : m = Head(ioq)
  BY Zenon
<1>1. /\ ioq \in Seq(Msg) /\ ioq # <<>> /\ ioq' = Tail(ioq)
      /\ reading' = reading \cup {m.s}
      /\ UNCHANGED <<nreq, ns, tx, writerq, readerq, threads>>
  BY <1>0, Zenon DEF run_posted, TypeOK
<1>2. /\ m \in Msg /\ m.s \in Sessions
      /\ Written(m.s)' = Append(Written(m.s), m)
      /\ \A x \in Sessions \ {m.s} :
           Written(x)' = IF m.op = "transact" /\ m.ok /\ x \in members[m.ns]
                           THEN Append(Written(x), Event(m)) ELSE Written(x)
  BY <1>0, DeliveredText, Zenon
<1>3. ASSUME NEW x
      PROVE  /\ In(ioq, x) <=> x = m \/ In(ioq', x)
             /\ In(ioq, m)
  BY <1>0, <1>1, InTail, Zenon
<1>4. KeepsPending
  BY <1>1, WorkUnchanged, Zenon
<1>5. ASSUME NEW x
      PROVE  /\ OnItsWay(x) => OnItsWay(x)' \/ x = m
             /\ OnItsWay(x)' => OnItsWay(x)
  <2>1. Posts(wthr', x) <=> Posts(wthr, x)
    BY <1>1, Zenon
  <2> QED
    BY <1>1, <1>3, <2>1, NextParts, Zenon DEF OnItsWay
<1>6. OnItsWay(m)
  BY <1>3, Zenon DEF OnItsWay
<1>7. \A x \in Sessions \ {m.s} :
        \/ Written(x)' = Written(x)
        \/ m.op = "transact" /\ m.ok /\ Written(x)' = Append(Written(x), Event(m))
  BY <1>2, Zenon
<1>8. DeliverStep(m)
  BY <1>1, <1>2, <1>4, <1>5, <1>6, <1>7, Zenon DEF DeliverStep
<1> QED
  BY <1>8, Zenon

(* Every step of the server is of one of the five kinds. *)
LEMMA Steps ==
  ASSUME TypeOK, [Next]_vars
  PROVE  \/ Quiet
         \/ \E m : AnswerStep(m)
         \/ \E j : RequestStep(j)
         \/ \E j, m : HandleStep(j, m)
         \/ \E m : DeliverStep(m)
<1> USE DEF session, queues, threads
<1>1. ASSUME UNCHANGED <<nreq, ns, sent, wq, queues, threads, tx>> PROVE Quiet
  BY <1>1, TextUnchanged, WorkUnchanged, Zenon DEF Quiet
<1>2. ASSUME NEW s \in Sessions, accept(s) \/ disconnect(s) \/ read_failed(s) \/ write_failed(s)
      PROVE  Quiet
  BY <1>1, <1>2, Zenon DEF accept, disconnect, read_failed, write_failed
<1>3. ASSUME NEW s \in Sessions, write_done(s) PROVE Quiet
  <2>1. UNCHANGED <<nreq, ns, queues, threads, tx>>
    BY <1>3, Zenon DEF write_done
  <2> QED
    BY <1>3, <2>1, WriteDoneText, WorkUnchanged, Zenon DEF Quiet
<1>4. CASE signal \/ MainStep \/ UNCHANGED vars
  BY <1>1, <1>4, Zenon DEF signal, MainStep, channels_clear, writer_joined,
                           readers_joined, vars
<1>5. ASSUME NEW s \in Sessions, SessionStep(s)
      PROVE  Quiet \/ (\E m : AnswerStep(m)) \/ (\E j : RequestStep(j))
  BY <1>2, <1>3, <1>5, ReadSteps, Zenon DEF SessionStep
<1>6. CASE WriterStep
  BY <1>6, MovesQuiet, HandlerSteps, Zenon DEF WriterStep
<1>7. ASSUME NEW r \in Readers, ReaderStep(r) PROVE Quiet \/ \E j, m : HandleStep(j, m)
  BY <1>7, MovesQuiet, HandlerSteps, Zenon DEF ReaderStep
<1> QED
  BY <1>4, <1>5, <1>6, <1>7, PostedStep, Zenon DEF Next

-----------------------------------------------------------------------------
(* Replies in order. *)

(* Requests that are pending, and replies on their way, are well typed. *)
LEMMA CarriedType ==
  ASSUME TypeOK
  PROVE  /\ \A x : Pending(x) => x \in Job /\ x.s \in Sessions
         /\ \A x : OnItsWay(x) => x \in Msg /\ x.s \in Sessions
<1>1. \A x \in Job : x.s \in Sessions
  BY Zenon DEF Job
<1>2. \A x \in Msg : x.s \in Sessions
  BY Zenon DEF Msg
<1>3. ASSUME NEW T, NEW q \in Seq(T) PROVE \A x : In(q, x) => x \in T
  BY <1>3 DEF In
<1>4. ASSUME NEW thr \in Thread, NEW x
      PROVE  (Works(thr, x) => x \in Job) /\ (Posts(thr, x) => x \in Msg)
  BY ThreadType, Zenon DEF Works, Posts
<1>5. /\ writerq \in Seq(Job) /\ readerq \in Seq(Job) /\ ioq \in Seq(Msg)
      /\ wthr \in Thread /\ \A r \in Readers : rthr[r] \in Thread
  BY Zenon DEF TypeOK
<1>6. ASSUME NEW x PROVE (Pending(x) => x \in Job) /\ (OnItsWay(x) => x \in Msg)
  BY <1>3, <1>4, <1>5, Zenon DEF Pending, OnItsWay, ReadersWork, ReadersPost
<1> QED
  BY <1>1, <1>2, <1>6, Zenon

(* The same as InFlightForm, for all sessions. *)
LEMMA InFlightForms ==
  \A y : InFlight(y) <=> \E x : x.s = y /\ (Pending(x) \/ OnItsWay(x))
  BY InFlightForm, Zenon

(* And in the next state. *)
LEMMA InFlightFormsNext ==
  \A y : InFlight(y)' <=> \E x : x.s = y /\ (Pending(x)' \/ OnItsWay(x)')
<1>1. (\A y : InFlight(y) <=> \E x : x.s = y /\ (Pending(x) \/ OnItsWay(x)))'
  BY InFlightForms, PTL
<1> QED
  BY <1>1, Zenon

(* While a session's next request is read, none is in flight. *)
LEMMA ReadingNotInFlight ==
  OneInFlight => \A y \in Sessions : y \in reading => ~InFlight(y)
<1> SUFFICES ASSUME OneInFlight, NEW s \in Sessions, s \in reading PROVE ~InFlight(s)
  BY Zenon
<1>1. \A x : x.s = s => ~Pending(x) /\ ~OnItsWay(x)
  BY OneCarried, Zenon
<1> QED
  BY <1>1, InFlightForm, Zenon

(* And in the next state. *)
LEMMA ReadingNotInFlightNext ==
  OneInFlight' => \A y \in Sessions : y \in reading' => ~InFlight(y)'
<1>1. OneInFlight' => (\A y \in Sessions : y \in reading => ~InFlight(y))'
  BY ReadingNotInFlight, PTL
<1> QED
  BY <1>1, Zenon

(* Which requests are in flight after each kind of step. *)
LEMMA FlightSteps ==
  ASSUME TypeOK, OneInFlight, OneInFlight', NEW s \in Sessions
  PROVE  /\ Quiet => (InFlight(s)' <=> InFlight(s))
         /\ \A m : AnswerStep(m) =>
              (InFlight(s)' <=> InFlight(s)) /\ (s = m.s => ~InFlight(s))
         /\ \A j : RequestStep(j) =>
              IF s = j.s THEN InFlight(s)' /\ ~InFlight(s) ELSE InFlight(s)' <=> InFlight(s)
         /\ \A j, m : HandleStep(j, m) =>
              (InFlight(s)' <=> InFlight(s)) /\ (s = j.s => InFlight(s))
         /\ \A m : DeliverStep(m) =>
              IF s = m.s THEN ~InFlight(s)' /\ InFlight(s) ELSE InFlight(s)' <=> InFlight(s)
<1>1. InFlight(s) <=> \E x : x.s = s /\ (Pending(x) \/ OnItsWay(x))
  BY InFlightForm, Zenon
<1>2. InFlight(s)' <=> \E x : x.s = s /\ (Pending(x)' \/ OnItsWay(x)')
  BY InFlightFormsNext, Zenon
<1>3. s \in reading => ~InFlight(s)
  BY ReadingNotInFlight, Zenon
<1>4. s \in reading' => ~InFlight(s)'
  BY ReadingNotInFlightNext, Zenon
<1>5. Quiet => (InFlight(s)' <=> InFlight(s))
  BY <1>1, <1>2, Zenon DEF Quiet, KeepsPending, KeepsReplies
<1>6. ASSUME NEW m, AnswerStep(m)
      PROVE  (InFlight(s)' <=> InFlight(s)) /\ (s = m.s => ~InFlight(s))
  BY <1>1, <1>2, <1>3, <1>6, Zenon DEF AnswerStep, KeepsPending, KeepsReplies
<1>7. ASSUME NEW j, RequestStep(j)
      PROVE  IF s = j.s THEN InFlight(s)' /\ ~InFlight(s) ELSE InFlight(s)' <=> InFlight(s)
  BY <1>1, <1>2, <1>3, <1>7, Zenon DEF RequestStep, KeepsReplies
<1>8. ASSUME NEW j, NEW m, HandleStep(j, m)
      PROVE  (InFlight(s)' <=> InFlight(s)) /\ (s = j.s => InFlight(s))
  BY <1>1, <1>2, <1>8, Zenon DEF HandleStep
<1>9. ASSUME NEW m, DeliverStep(m)
      PROVE  IF s = m.s THEN ~InFlight(s)' /\ InFlight(s) ELSE InFlight(s)' <=> InFlight(s)
  BY <1>1, <1>2, <1>4, <1>9, Zenon DEF DeliverStep, KeepsPending
<1> QED
  BY <1>5, <1>6, <1>7, <1>8, <1>9, Zenon

(* What writing the next reply, or an event, does to the replies written. *)
LEMMA RepliesAppend ==
  ASSUME NEW q \in Seq(Msg), NEW s \in Sessions, NEW k \in Nat, RepliesTo(q, s, k),
         NEW m \in Msg
  PROVE  /\ IsReply(m) /\ m.s = s /\ m.no = k + 1 => RepliesTo(Append(q, m), s, k + 1)
         /\ ~IsReply(m) => RepliesTo(Append(q, m), s, k)
<1> DEFINE w == Append(q, m)
           l == Len(q) + 1
<1>1. /\ DOMAIN w = DOMAIN q \cup {l} /\ l \notin DOMAIN q
      /\ \A i \in DOMAIN q : w[i] = q[i] /\ i \in Nat /\ i < l /\ q[i] \in Msg
      /\ w[l] = m /\ l \in Nat
  OBVIOUS
<1>2. \A i \in DOMAIN q : q[i].no \in Nat
  BY <1>1, Zenon DEF Msg
<1> HIDE DEF w, l
<1>3. /\ \A i \in DOMAIN q : IsReply(q[i]) => q[i].s = s /\ q[i].no \in 1 .. k
      /\ \A i, j \in DOMAIN q :
           IsReply(q[i]) /\ IsReply(q[j]) /\ i < j => q[i].no < q[j].no
      /\ \A no \in 1 .. k : \E i \in DOMAIN q : IsReply(q[i]) /\ q[i].no = no
  BY Zenon DEF RepliesTo
<1>4. ASSUME IsReply(m), m.s = s, m.no = k + 1 PROVE RepliesTo(w, s, k + 1)
  <2>1. \A i \in DOMAIN w : IsReply(w[i]) => w[i].s = s /\ w[i].no \in 1 .. k + 1
    BY <1>1, <1>3, <1>4, SMTT(30)
  <2>2. \A i, j \in DOMAIN w :
          IsReply(w[i]) /\ IsReply(w[j]) /\ i < j => w[i].no < w[j].no
    BY <1>1, <1>3, <1>4, SMTT(30)
  <2>3. \A no \in 1 .. k + 1 : \E i \in DOMAIN w : IsReply(w[i]) /\ w[i].no = no
    <3> TAKE no \in 1 .. k + 1
    <3>1. CASE no = k + 1
      BY <1>1, <1>4, <3>1, Zenon
    <3>2. CASE no \in 1 .. k
      BY <1>1, <1>3, <3>2, Zenon
    <3> QED
      BY <3>1, <3>2
  <2> QED
    BY <2>1, <2>2, <2>3, Zenon DEF RepliesTo
<1>5. ASSUME ~IsReply(m) PROVE RepliesTo(w, s, k)
  BY <1>1, <1>3, <1>5, Zenon DEF RepliesTo
<1> QED
  BY <1>4, <1>5, Zenon DEF w

(* The strengthening of RepliesInOrder: a request and its reply carry the  *)
(* number of the last request of their session.                            *)
Numbered ==
  /\ \A j \in Job : Pending(j) => j.no = nreq[j.s] /\ j.no > 0
  /\ \A m \in Msg : OnItsWay(m) => IsReply(m) /\ m.no = nreq[m.s] /\ m.no > 0
  /\ RepliesInOrder

(* The number of replies a session was written. *)
Answered(s) == nreq[s] - (IF InFlight(s) THEN 1 ELSE 0)

(* A request is numbered as it is read, and its reply keeps the number. *)
LEMMA NumberedStep ==
  TypeOK /\ OneInFlight /\ Numbered /\ [Next]_vars => Numbered'
<1> SUFFICES ASSUME TypeOK, OneInFlight, Numbered, [Next]_vars PROVE Numbered'
  BY Zenon
<1>0. OneInFlight'
  BY OneInFlightStep, Zenon
<1>1. /\ nreq \in [Sessions -> Nat]
      /\ \A j \in Job : j.s \in Sessions /\ j.no \in Nat
      /\ \A m \in Msg : m.s \in Sessions /\ m.no \in Nat
  BY Zenon DEF TypeOK, Job, Msg
<1>5. /\ \A j \in Job : Pending(j) => j.no = nreq[j.s] /\ j.no > 0
      /\ \A m \in Msg : OnItsWay(m) => IsReply(m) /\ m.no = nreq[m.s] /\ m.no > 0
  BY Zenon DEF Numbered
<1>2. ASSUME NEW s \in Sessions
      PROVE  /\ Written(s) \in Seq(Msg)
             /\ Answered(s) = nreq[s] - (IF InFlight(s) THEN 1 ELSE 0)
             /\ Answered(s) \in Nat
             /\ RepliesTo(Written(s), s, Answered(s))
  <2>1. InFlight(s) => nreq[s] > 0
    BY <1>5, CarriedType, InFlightForm, Zenon
  <2>2. nreq[s] \in Nat
    BY <1>1, Zenon
  <2> QED
    BY <2>1, <2>2, WrittenType DEF Numbered, RepliesInOrder, Answered
<1>3. ASSUME NEW s \in Sessions
      PROVE  Answered(s)' = nreq'[s] - (IF InFlight(s)' THEN 1 ELSE 0)
  BY Zenon DEF Answered
<1>4. SUFFICES /\ \A j \in Job : Pending(j)' => j.no = nreq'[j.s] /\ j.no > 0
               /\ \A m \in Msg : OnItsWay(m)' => IsReply(m) /\ m.no = nreq'[m.s] /\ m.no > 0
               /\ \A s \in Sessions : RepliesTo(Written(s)', s, Answered(s)')
  BY Zenon DEF Numbered, RepliesInOrder, Answered, RepliesTo, IsReply
<1>6. \A m \in Msg : Event(m) \in Msg /\ ~IsReply(Event(m))
  BY EventType, Zenon DEF Event, IsReply, Msg
<1>7. CASE Quiet
  <2>1. \A s \in Sessions : Answered(s)' = Answered(s) /\ Written(s)' = Written(s)
    BY <1>0, <1>2, <1>3, <1>7, FlightSteps, Zenon DEF Quiet, KeepsText
  <2> QED
    BY <1>2, <1>5, <1>7, <2>1, Zenon DEF Quiet, KeepsPending, KeepsReplies
<1>8. ASSUME NEW m, AnswerStep(m)
      PROVE  /\ \A j \in Job : Pending(j)' => j.no = nreq'[j.s] /\ j.no > 0
             /\ \A x \in Msg : OnItsWay(x)' => IsReply(x) /\ x.no = nreq'[x.s] /\ x.no > 0
             /\ \A s \in Sessions : RepliesTo(Written(s)', s, Answered(s)')
  <2>1. /\ m \in Msg /\ m.s \in Sessions /\ m.s \in reading /\ IsReply(m)
        /\ m.no = nreq[m.s] + 1
        /\ nreq' = [nreq EXCEPT ![m.s] = @ + 1]
    BY <1>1, <1>8, Zenon DEF AnswerStep, IsReply
  <2>2. \A x : x.s = m.s => ~Pending(x) /\ ~OnItsWay(x)
    BY <2>1, OneCarried, Zenon
  <2>3. /\ \A j \in Job : Pending(j)' => j.no = nreq'[j.s] /\ j.no > 0
        /\ \A x \in Msg : OnItsWay(x)' => IsReply(x) /\ x.no = nreq'[x.s] /\ x.no > 0
    BY <1>1, <1>5, <1>8, <2>1, <2>2, Zenon DEF AnswerStep, KeepsPending, KeepsReplies
  <2>4. ASSUME NEW s \in Sessions PROVE RepliesTo(Written(s)', s, Answered(s)')
    <3>1. CASE s = m.s
      <4>0. ~InFlight(s) /\ ~InFlight(s)'
        BY <1>0, <1>8, <3>1, FlightSteps, Zenon
      <4>3. nreq[s] \in Nat /\ nreq'[s] = nreq[s] + 1
        BY <1>1, <2>1, <3>1, Zenon
      <4>1. Answered(s) = nreq[s] /\ Answered(s)' = nreq[s] + 1 /\ nreq[s] \in Nat
        <5>1. Answered(s) = nreq[s]
          BY <4>0, <4>3 DEF Answered
        <5>2. Answered(s)' = nreq[s] + 1
          BY <4>0, <4>3 DEF Answered
        <5> QED
          BY <4>3, <5>1, <5>2, Zenon
      <4>2. Written(s)' = Append(Written(s), m)
        BY <1>8, <3>1, Zenon DEF AnswerStep
      <4> QED
        BY <1>2, <2>1, <3>1, <4>1, <4>2, RepliesAppend, ZenonT(60)
    <3>2. CASE s # m.s
      <4>1. nreq'[s] = nreq[s] /\ Written(s)' = Written(s)
        BY <1>1, <1>8, <2>1, <3>2, Zenon DEF AnswerStep
      <4>2. InFlight(s)' <=> InFlight(s)
        BY <1>0, <1>8, FlightSteps, Zenon
      <4>3. Answered(s)' = Answered(s)
        BY <1>2, <1>3, <4>1, <4>2, Zenon
      <4> QED
        BY <1>2, <4>1, <4>3, Zenon
    <3> QED
      BY <3>1, <3>2, Zenon
  <2> QED
    BY <2>3, <2>4, Zenon
<1>9. ASSUME NEW j, RequestStep(j)
      PROVE  /\ \A x \in Job : Pending(x)' => x.no = nreq'[x.s] /\ x.no > 0
             /\ \A x \in Msg : OnItsWay(x)' => IsReply(x) /\ x.no = nreq'[x.s] /\ x.no > 0
             /\ \A s \in Sessions : RepliesTo(Written(s)', s, Answered(s)')
  <2>1. /\ j \in Job /\ j.s \in Sessions /\ j.s \in reading
        /\ j.no = nreq[j.s] + 1
        /\ nreq' = [nreq EXCEPT ![j.s] = @ + 1]
    BY <1>1, <1>9, Zenon DEF RequestStep
  <2>2. \A x : x.s = j.s => ~Pending(x) /\ ~OnItsWay(x)
    BY <2>1, OneCarried, Zenon
  <2>3. /\ \A x \in Job : Pending(x)' => x.no = nreq'[x.s] /\ x.no > 0
        /\ \A x \in Msg : OnItsWay(x)' => IsReply(x) /\ x.no = nreq'[x.s] /\ x.no > 0
    BY <1>1, <1>5, <1>9, <2>1, <2>2 DEF RequestStep, KeepsReplies
  <2>4. ASSUME NEW s \in Sessions PROVE Answered(s)' = Answered(s) /\ Written(s)' = Written(s)
    <3>1. nreq[s] \in Nat /\ nreq'[s] = IF s = j.s THEN nreq[s] + 1 ELSE nreq[s]
      BY <1>1, <2>1, Zenon
    <3>2. IF s = j.s THEN InFlight(s)' /\ ~InFlight(s) ELSE InFlight(s)' <=> InFlight(s)
      BY <1>0, <1>9, FlightSteps, Zenon
    <3>3. Answered(s)' = Answered(s)
      BY <1>2, <1>3, <3>1, <3>2
    <3> QED
      BY <1>9, <3>3, Zenon DEF RequestStep, KeepsText
  <2> QED
    BY <1>2, <2>3, <2>4, Zenon
<1>10. ASSUME NEW j, NEW m, HandleStep(j, m)
       PROVE  /\ \A x \in Job : Pending(x)' => x.no = nreq'[x.s] /\ x.no > 0
              /\ \A x \in Msg : OnItsWay(x)' => IsReply(x) /\ x.no = nreq'[x.s] /\ x.no > 0
              /\ \A s \in Sessions : RepliesTo(Written(s)', s, Answered(s)')
  <2>1. /\ j \in Job /\ m \in Msg /\ Pending(j) /\ m.s = j.s /\ m.no = j.no /\ m.op = j.op
        /\ nreq' = nreq
    BY <1>10, Zenon DEF HandleStep
  <2>2. IsReply(m)
    BY <2>1, ServerAssumption, Zenon DEF IsReply, Job
  <2>3. /\ \A x \in Job : Pending(x)' => x.no = nreq'[x.s] /\ x.no > 0
        /\ \A x \in Msg : OnItsWay(x)' => IsReply(x) /\ x.no = nreq'[x.s] /\ x.no > 0
    BY <1>5, <1>10, <2>1, <2>2, Zenon DEF HandleStep
  <2>4. ASSUME NEW s \in Sessions PROVE Answered(s)' = Answered(s) /\ Written(s)' = Written(s)
    BY <1>0, <1>1, <1>2, <1>3, <1>10, <2>1, FlightSteps, ZenonT(30) DEF HandleStep, KeepsText
  <2> QED
    BY <1>2, <2>3, <2>4, Zenon
<1>11. ASSUME NEW m, DeliverStep(m)
       PROVE  /\ \A x \in Job : Pending(x)' => x.no = nreq'[x.s] /\ x.no > 0
              /\ \A x \in Msg : OnItsWay(x)' => IsReply(x) /\ x.no = nreq'[x.s] /\ x.no > 0
              /\ \A s \in Sessions : RepliesTo(Written(s)', s, Answered(s)')
  <2>1. /\ m \in Msg /\ m.s \in Sessions /\ OnItsWay(m) /\ nreq' = nreq
        /\ IsReply(m) /\ m.no = nreq[m.s] /\ m.no > 0
    BY <1>1, <1>5, <1>11, Zenon DEF DeliverStep
  <2>2. /\ \A x \in Job : Pending(x)' => x.no = nreq'[x.s] /\ x.no > 0
        /\ \A x \in Msg : OnItsWay(x)' => IsReply(x) /\ x.no = nreq'[x.s] /\ x.no > 0
    BY <1>5, <1>11, <2>1, Zenon DEF DeliverStep, KeepsPending
  <2>3. ASSUME NEW s \in Sessions PROVE RepliesTo(Written(s)', s, Answered(s)')
    <3>1. CASE s = m.s
      <4>0. InFlight(s) /\ ~InFlight(s)'
        BY <1>0, <1>11, <3>1, FlightSteps, Zenon
      <4>4. nreq[s] \in Nat /\ nreq'[s] = nreq[s]
        BY <1>1, <2>1, <3>1, Zenon
      <4>1. Answered(s) = nreq[s] - 1 /\ Answered(s)' = nreq[s] /\ nreq[s] \in Nat
        <5>1. Answered(s) = nreq[s] - 1
          BY <4>0, <4>4, Zenon DEF Answered
        <5>2. Answered(s)' = nreq[s]
          BY <4>0, <4>4 DEF Answered
        <5> QED
          BY <4>4, <5>1, <5>2, Zenon
      <4>2. nreq[s] - 1 \in Nat
        BY <1>1, <2>1, <3>1
      <4>3. Written(s)' = Append(Written(s), m)
        BY <1>11, <3>1, Zenon DEF DeliverStep
      <4> QED
        BY <1>2, <2>1, <3>1, <4>1, <4>2, <4>3, RepliesAppend
    <3>2. CASE s # m.s
      <4>1. Answered(s)' = Answered(s)
        BY <1>0, <1>1, <1>2, <1>3, <1>11, <2>1, <3>2, FlightSteps, Zenon
      <4>2. Written(s)' = Written(s) \/ Written(s)' = Append(Written(s), Event(m))
        BY <1>11, <3>2, Zenon DEF DeliverStep
      <4> QED
        BY <1>2, <1>6, <2>1, <4>1, <4>2, RepliesAppend, Zenon
    <3> QED
      BY <3>1, <3>2, Zenon
  <2> QED
    BY <2>2, <2>3, Zenon
<1> QED
  BY <1>7, <1>8, <1>9, <1>10, <1>11, Steps, Zenon

(* At first nothing was requested and nothing said. *)
LEMMA SilentInit ==
  ASSUME Init
  PROVE  /\ \A x : ~Pending(x) /\ ~OnItsWay(x)
         /\ \A s \in Sessions : Written(s) = <<>> /\ ~InFlight(s)
<1>1. ASSUME NEW x PROVE ~Pending(x) /\ ~OnItsWay(x)
  <2>1. DOMAIN writerq = {} /\ DOMAIN readerq = {} /\ DOMAIN ioq = {}
    BY DEF Init
  <2>2. ~In(writerq, x) /\ ~In(readerq, x) /\ ~In(ioq, x)
    BY <2>1, Zenon DEF In
  <2>3. /\ ~Works(wthr, x) /\ ~Posts(wthr, x)
        /\ \A r \in Readers : ~Works(rthr[r], x) /\ ~Posts(rthr[r], x)
    BY WorkStates, Zenon DEF Init
  <2> QED
    BY <2>2, <2>3, Zenon DEF Pending, OnItsWay, ReadersWork, ReadersPost
<1>2. ASSUME NEW s \in Sessions PROVE Written(s) = <<>>
  <2>1. sent[s] = <<>> /\ wq[s] = <<>>
    BY Zenon DEF Init, Nothing
  <2>2. <<>> \o <<>> = <<>>
    OBVIOUS
  <2> QED
    BY <2>1, <2>2, Zenon DEF Written
<1>3. ASSUME NEW s \in Sessions PROVE ~InFlight(s)
  BY <1>1, InFlightForm, Zenon
<1> QED
  BY <1>1, <1>2, <1>3, Zenon

(* The numbering holds at all times. *)
LEMMA NumberedInvariant == Spec => []Numbered
<1>1. Init => Numbered
  <2> SUFFICES ASSUME Init PROVE Numbered
    BY Zenon
  <2>1. ASSUME NEW s \in Sessions
        PROVE  RepliesTo(Written(s), s, nreq[s] - (IF InFlight(s) THEN 1 ELSE 0))
    <3>1. nreq[s] - (IF InFlight(s) THEN 1 ELSE 0) = 0
      BY SilentInit DEF Init
    <3>2. RepliesTo(<<>>, s, 0)
      BY DEF RepliesTo
    <3>3. Written(s) = <<>>
      BY SilentInit, Zenon
    <3> QED
      BY <3>1, <3>2, <3>3, Zenon
  <2> QED
    BY <2>1, SilentInit, Zenon DEF Numbered, RepliesInOrder
<1> QED
  BY <1>1, ServerTyped, OneRequestInFlight, NumberedStep, PTL DEF Spec

(* Each session gets one reply for each of its requests, in their order,   *)
(* though three threads handle them and writes fail.                       *)
THEOREM RepliesOrdered == Spec => []RepliesInOrder
<1>1. Numbered => RepliesInOrder
  BY Zenon DEF Numbered
<1> QED
  BY <1>1, NumberedInvariant, PTL

-----------------------------------------------------------------------------
(* What replies and events say. *)

Said(m) == OnItsWay(m) \/ \E s \in Sessions : In(Written(s), m)

(* No reply or event is ahead of the store: a snapshot is of a transaction *)
(* number that was reached, a transaction reported was committed.          *)
Truthful(m) ==
  m.ok => /\ m.op = "facts" => m.ns \in DOMAIN tx /\ m.tx <= tx[m.ns]
          /\ m.op \in {"transact", "event"} => m.ns \in DOMAIN tx /\ m.tx < tx[m.ns]

Bounded == \A m \in Msg : Said(m) => Truthful(m)

(* What is said after each kind of step. *)
LEMMA SaidSteps ==
  ASSUME TypeOK, NEW x
  PROVE  /\ Quiet => (Said(x)' <=> Said(x))
         /\ \A m : AnswerStep(m) => (Said(x)' <=> Said(x) \/ x = m)
         /\ \A j : RequestStep(j) => (Said(x)' <=> Said(x))
         /\ \A j, m : HandleStep(j, m) => (Said(x)' <=> Said(x) \/ x = m)
         /\ \A m : DeliverStep(m) =>
              /\ Said(x) => Said(x)'
              /\ Said(x)' => Said(x) \/ (m.op = "transact" /\ m.ok /\ x = Event(m))
              /\ Said(m)
<1>0. Said(x)' <=> OnItsWay(x)' \/ \E s \in Sessions : In(Written(s)', x)
  BY Zenon DEF Said, In
<1>1. \A s \in Sessions : Written(s) \in Seq(Msg)
  BY WrittenType, Zenon
<1>2. Quiet => (Said(x)' <=> Said(x))
  BY <1>0, Zenon DEF Said, Quiet, KeepsText, KeepsReplies
<1>3. ASSUME NEW m, AnswerStep(m) PROVE Said(x)' <=> Said(x) \/ x = m
  <2>1. /\ m \in Msg /\ m.s \in Sessions
        /\ \A s \in Sessions :
             Written(s)' = IF s = m.s THEN Append(Written(s), m) ELSE Written(s)
        /\ OnItsWay(x)' <=> OnItsWay(x)
    BY <1>3, Zenon DEF AnswerStep, KeepsReplies, Msg
  <2>2. \A s \in Sessions : In(Append(Written(s), m), x) <=> In(Written(s), x) \/ x = m
    BY <1>1, <2>1, InAppend, ZenonT(30)
  <2>3. \A s \in Sessions : In(Written(s)', x) <=> In(Written(s), x) \/ (s = m.s /\ x = m)
    BY <2>1, <2>2, Zenon
  <2> QED
    BY <1>0, <2>1, <2>3, Zenon DEF Said
<1>4. ASSUME NEW j, RequestStep(j) PROVE Said(x)' <=> Said(x)
  BY <1>0, <1>4, Zenon DEF Said, RequestStep, KeepsText, KeepsReplies
<1>5. ASSUME NEW j, NEW m, HandleStep(j, m) PROVE Said(x)' <=> Said(x) \/ x = m
  BY <1>0, <1>5, Zenon DEF Said, HandleStep, KeepsText
<1>6. ASSUME NEW m, DeliverStep(m)
      PROVE  /\ Said(x) => Said(x)'
             /\ Said(x)' => Said(x) \/ (m.op = "transact" /\ m.ok /\ x = Event(m))
             /\ Said(m)
  <2>1. m \in Msg /\ m.s \in Sessions /\ Event(m) \in Msg
    BY <1>6, EventType, Zenon DEF DeliverStep, Msg
  <2>2. /\ OnItsWay(m)
        /\ OnItsWay(x) => OnItsWay(x)' \/ x = m
        /\ OnItsWay(x)' => OnItsWay(x)
        /\ Written(m.s)' = Append(Written(m.s), m)
        /\ \A s \in Sessions \ {m.s} :
             \/ Written(s)' = Written(s)
             \/ m.op = "transact" /\ m.ok /\ Written(s)' = Append(Written(s), Event(m))
    BY <1>6, Zenon DEF DeliverStep
  <2>3. \A s \in Sessions :
          /\ In(Append(Written(s), m), x) <=> In(Written(s), x) \/ x = m
          /\ In(Append(Written(s), Event(m)), x) <=> In(Written(s), x) \/ x = Event(m)
    BY <1>1, <2>1, InAppend, Zenon
  <2>4. /\ In(Written(m.s)', x) <=> In(Written(m.s), x) \/ x = m
        /\ \A s \in Sessions \ {m.s} :
             /\ In(Written(s), x) => In(Written(s)', x)
             /\ In(Written(s)', x) =>
                  In(Written(s), x) \/ (m.op = "transact" /\ m.ok /\ x = Event(m))
    BY <2>1, <2>2, <2>3, Zenon
  <2> QED
    BY <1>0, <2>1, <2>2, <2>4, Zenon DEF Said
<1> QED
  BY <1>2, <1>3, <1>4, <1>5, <1>6, Zenon

(* Transaction numbers only grow. *)
LEMMA Effects ==
  ASSUME TypeOK, NEW j \in Job, NEW m \in Msg, Effect(j, m)
  PROVE  /\ DOMAIN tx \subseteq DOMAIN tx'
         /\ \A n \in DOMAIN tx : tx'[n] \in Nat /\ tx[n] \in Nat /\ tx[n] <= tx'[n]
  BY SMTT(30) DEF Effect, TypeOK

(* The transaction numbers in each kind of step: they change when a        *)
(* request is handled, and only grow.                                      *)
LEMMA TxGrows ==
  ASSUME TypeOK, [Next]_vars
  PROVE  /\ DOMAIN tx \subseteq DOMAIN tx'
         /\ \A n \in DOMAIN tx : tx'[n] \in Nat /\ tx[n] \in Nat /\ tx[n] <= tx'[n]
<1>1. ASSUME UNCHANGED tx
      PROVE  /\ DOMAIN tx \subseteq DOMAIN tx'
             /\ \A n \in DOMAIN tx : tx'[n] \in Nat /\ tx[n] \in Nat /\ tx[n] <= tx'[n]
  BY <1>1 DEF TypeOK
<1>2. ASSUME NEW j, NEW m, HandleStep(j, m)
      PROVE  /\ DOMAIN tx \subseteq DOMAIN tx'
             /\ \A n \in DOMAIN tx : tx'[n] \in Nat /\ tx[n] \in Nat /\ tx[n] <= tx'[n]
  BY <1>2, Effects, Zenon DEF HandleStep
<1>3. Quiet \/ (\E m : AnswerStep(m)) \/ (\E j : RequestStep(j)) \/ (\E m : DeliverStep(m))
        => UNCHANGED tx
  BY Zenon DEF Quiet, AnswerStep, RequestStep, DeliverStep
<1> QED
  BY <1>1, <1>2, <1>3, Steps, Zenon

(* A reply says what the store has when the request is handled, and the    *)
(* store never takes a transaction back.                                   *)
LEMMA BoundedStep ==
  TypeOK /\ Bounded /\ [Next]_vars => Bounded'
<1> SUFFICES ASSUME TypeOK, Bounded, [Next]_vars, NEW x \in Msg, Said(x)'
             PROVE  Truthful(x)'
  BY Zenon DEF Bounded
<1>0. /\ DOMAIN tx \subseteq DOMAIN tx'
      /\ \A n \in DOMAIN tx : tx'[n] \in Nat /\ tx[n] \in Nat /\ tx[n] <= tx'[n]
  BY TxGrows, Zenon
<1>1. ASSUME Said(x) PROVE Truthful(x)'
  <2>1. Truthful(x) /\ x.tx \in Nat
    BY <1>1, Zenon DEF Bounded, Msg
  <2> QED
    BY <1>0, <2>1 DEF Truthful
<1>2. CASE Quiet \/ \E j : RequestStep(j)
  BY <1>1, <1>2, SaidSteps, Zenon
<1>3. ASSUME NEW m, AnswerStep(m) PROVE Truthful(x)'
  <2>1. Said(x) \/ x.op \in {"ping", "bad"}
    BY <1>3, SaidSteps, Zenon DEF AnswerStep
  <2> QED
    BY <1>1, <2>1, Zenon DEF Truthful
<1>4. ASSUME NEW j, NEW m, HandleStep(j, m) PROVE Truthful(x)'
  <2>1. Said(x) \/ x = m
    BY <1>4, SaidSteps, Zenon
  <2>2. Truthful(m)'
    <3>1. /\ m \in Msg /\ j \in Job /\ m.op = j.op /\ j.s \in Sessions /\ Effect(j, m)
          /\ m.op # "event"
      BY <1>4, ServerAssumption, Zenon DEF HandleStep, Job
    <3>2. ns[j.s] \in DOMAIN tx
      BY <3>1, Zenon DEF TypeOK
    <3>3. m.ok /\ m.op \in {"facts", "transact"} => m.ns \in DOMAIN tx /\ m.tx = tx[m.ns]
      BY <3>1, <3>2, Zenon DEF Effect
    <3>4. m.ok /\ m.op = "transact" => tx'[m.ns] = tx[m.ns] + 1
      BY <3>1, <3>2, ZenonT(30) DEF Effect, TypeOK
    <3> QED
      BY <1>0, <3>1, <3>3, <3>4 DEF Truthful
  <2> QED
    BY <1>1, <2>1, <2>2, Zenon
<1>5. ASSUME NEW m, DeliverStep(m) PROVE Truthful(x)'
  <2>1. /\ Said(m) /\ m \in Msg
        /\ Said(x) \/ (m.op = "transact" /\ m.ok /\ x = Event(m))
    BY <1>5, SaidSteps, Zenon DEF DeliverStep
  <2>2. ASSUME m.op = "transact", m.ok, x = Event(m) PROVE Truthful(x)'
    <3>1. Truthful(m)
      BY <2>1, Zenon DEF Bounded
    <3>2. x.op = "event" /\ x.ok /\ x.ns = m.ns /\ x.tx = m.tx /\ m.tx \in Nat
      BY <2>1, <2>2, Zenon DEF Event, Msg
    <3> QED
      BY <1>0, <2>2, <3>1, <3>2 DEF Truthful
  <2> QED
    BY <1>1, <2>1, <2>2, Zenon
<1> QED
  BY <1>2, <1>3, <1>4, <1>5, Steps, Zenon

(* Replies and events are never ahead of the store. *)
LEMMA BoundedInvariant == Spec => []Bounded
<1>1. Init => Bounded
  BY SilentInit DEF Bounded, Said, In
<1> QED
  BY <1>1, ServerTyped, BoundedStep, PTL DEF Spec

-----------------------------------------------------------------------------
(* What the reader threads are given and what they post: selects and       *)
(* facts, never a transaction.                                             *)
Reads(x) == x.op \in {"select", "facts"}

ReadersRead ==
  \A x : In(readerq, x) \/ ReadersWork(x) \/ ReadersPost(x) => Reads(x)

(* read_request posts transactions to the writer alone. *)
LEMMA ReadersReadStep ==
  TypeOK /\ ReadersRead /\ [Next]_vars => ReadersRead'
<1> SUFFICES ASSUME TypeOK, ReadersRead, [Next]_vars PROVE ReadersRead'
  BY Zenon
<1> USE DEF session, queues, threads
<1>0. \A x : In(readerq, x) \/ ReadersWork(x) \/ ReadersPost(x) => Reads(x)
  BY Zenon DEF ReadersRead
<1>1. SUFFICES ASSUME NEW x, In(readerq', x) \/ ReadersWork(x)' \/ ReadersPost(x)'
               PROVE  Reads(x)
  BY Zenon DEF ReadersRead, In, Reads
<1>2. readerq \in Seq(Job)
  BY Zenon DEF TypeOK
<1>3. ASSUME readerq' = readerq, rthr' = rthr PROVE Reads(x)
  BY <1>0, <1>1, <1>3, NextParts, Zenon
<1>4. ASSUME NEW r \in Readers, NEW thr, rthr' = [rthr EXCEPT ![r] = thr],
             In(readerq', x) => In(readerq, x), Works(thr, x) \/ Posts(thr, x) => Reads(x)
      PROVE  Reads(x)
  <2>1. /\ ReadersWork(x)' => ReadersWork(x) \/ Works(thr, x)
        /\ ReadersPost(x)' => ReadersPost(x) \/ Posts(thr, x)
    BY <1>4, ReaderWorkMoves, Zenon
  <2> QED
    BY <1>0, <1>1, <1>4, <2>1, Zenon
<1>5. ASSUME NEW s \in Sessions, NEW op \in Ops, NEW arg \in ArgsOf(op),
             request_read(s, op, arg)
      PROVE  Reads(x)
  <2> DEFINE job == [s |-> s, op |-> op, arg |-> arg, no |-> nreq[s] + 1]
  <2>1. job \in Job /\ job.op = op
    BY RequestType, Zenon
  <2>2. /\ rthr' = rthr
        /\ \/ readerq' = readerq
           \/ readerq' = Append(readerq, job) /\ op \notin {"ping", "bad", "namespace", "transact"}
    BY <1>5, Zenon DEF request_read
  <2> HIDE DEF job
  <2>3. ASSUME readerq' = Append(readerq, job),
               op \notin {"ping", "bad", "namespace", "transact"}
        PROVE  Reads(x)
    <3>1. Reads(job)
      BY <2>1, <2>3, ServerAssumption, Zenon DEF Reads
    <3>2. In(readerq', x) => In(readerq, x) \/ x = job
      BY <1>2, <2>1, <2>3, InAppend, Zenon
    <3> QED
      BY <1>0, <1>1, <2>2, <3>1, <3>2, NextParts, Zenon
  <2> QED
    BY <1>3, <2>2, <2>3, Zenon
<1>6. ASSUME NEW r \in Readers, reader_take(r) PROVE Reads(x)
  <2>1. /\ readerq # <<>> /\ readerq' = Tail(readerq)
        /\ rthr' = [rthr EXCEPT ![r] = Run(Head(readerq))]
    BY <1>6, Zenon DEF reader_take
  <2>2. In(readerq, Head(readerq)) /\ (In(readerq', x) => In(readerq, x))
    BY <1>2, <2>1, InTail, Zenon
  <2>3. Works(Run(Head(readerq)), x) \/ Posts(Run(Head(readerq)), x) => Reads(x)
    BY <1>0, <2>2, WorkStates, Zenon
  <2> QED
    BY <1>4, <2>1, <2>2, <2>3, Zenon
<1>7. ASSUME NEW r \in Readers, NEW m, rthr' = [rthr EXCEPT ![r] = Post(m)],
             rthr[r].pc = "run", m.op = rthr[r].job.op, readerq' = readerq
      PROVE  Reads(x)
  <2>1. Reads(rthr[r].job)
    BY <1>0, <1>7, Zenon DEF ReadersWork, Works
  <2>2. Works(Post(m), x) \/ Posts(Post(m), x) => Reads(x)
    BY <1>7, <2>1, WorkStates, Zenon DEF Reads
  <2> QED
    BY <1>4, <1>7, <2>2, Zenon
<1>8. ASSUME NEW r \in Readers, handle_select(r) \/ handle_facts(r) PROVE Reads(x)
  <2>1. /\ rthr[r].pc = "run" /\ readerq' = readerq
        /\ \E m : rthr' = [rthr EXCEPT ![r] = Post(m)] /\ m.op = rthr[r].job.op
    <3>1. \A job, ok, n, t : Reply(job, ok, n, t).op = job.op
      BY Zenon DEF Reply
    <3>2. /\ rthr[r].pc = "run"
          /\ \E ok, n, t : ReaderReplies(r, Reply(rthr[r].job, ok, n, t))
      BY <1>8, Zenon DEF handle_select, handle_facts, ErrorReply
    <3>3. PICK ok, n, t : ReaderReplies(r, Reply(rthr[r].job, ok, n, t))
      BY <3>2, Zenon
    <3>4. /\ rthr' = [rthr EXCEPT ![r] = Post(Reply(rthr[r].job, ok, n, t))]
          /\ readerq' = readerq
      BY <3>3, Zenon DEF ReaderReplies
    <3>5. PICK m : m = Reply(rthr[r].job, ok, n, t)
      BY Zenon
    <3>6. m.op = rthr[r].job.op
      BY <3>1, <3>5
    <3>7. rthr' = [rthr EXCEPT ![r] = Post(m)]
      BY <3>4, <3>5, Zenon
    <3> QED
      BY <3>2, <3>4, <3>6, <3>7, Zenon
  <2> QED
    BY <1>7, <2>1, Zenon
<1>9. ASSUME NEW r \in Readers, reader_start(r) \/ reader_post(r) \/ reader_exit(r)
      PROVE  Reads(x)
  <2>1. PICK pc \in {"start", "idle", "gone"} : rthr' = [rthr EXCEPT ![r] = At(pc)]
    BY <1>9, Zenon DEF reader_start, reader_post, reader_exit
  <2>2. readerq' = readerq
    BY <1>9, Zenon DEF reader_start, reader_post, reader_exit
  <2>3. ~Works(At(pc), x) /\ ~Posts(At(pc), x)
    BY WorkStates, Zenon
  <2> QED
    BY <1>4, <2>1, <2>2, <2>3, Zenon
<1>10. ASSUME NEW s \in Sessions,
              accept(s) \/ disconnect(s) \/ read_failed(s) \/ write_done(s) \/ write_failed(s)
       PROVE  Reads(x)
  BY <1>3, <1>10, Zenon DEF accept, disconnect, read_failed, write_done, write_failed
<1>11. CASE \/ run_posted \/ WriterStep \/ signal \/ MainStep \/ UNCHANGED vars
  BY <1>3, <1>11, Zenon DEF run_posted, WriterStep, writer_take, handle_namespace,
     handle_transact, WriterReplies, writer_post, writer_exit, signal, MainStep,
     channels_clear, writer_joined, readers_joined, vars
<1> QED
  BY <1>5, <1>6, <1>8, <1>9, <1>10, <1>11, Zenon DEF Next, SessionStep, ReaderStep

(* The readers only read. *)
LEMMA ReadersReadInvariant == Spec => []ReadersRead
<1>1. Init => ReadersRead
  BY SilentInit, Zenon DEF ReadersRead, Pending, OnItsWay
<1> QED
  BY <1>1, ServerTyped, ReadersReadStep, PTL DEF Spec

(* The posted replies that can report a transaction, one by one. *)
LEMMA OnTheirWayForm ==
  ASSUME TypeOK
  PROVE  /\ OnTheirWay \in Seq(Msg)
         /\ wthr.pc # "post" => OnTheirWay = ioq
         /\ wthr.pc = "post" => wthr.msg \in Msg /\ OnTheirWay = Append(ioq, wthr.msg)
<1>1. ioq \in Seq(Msg) /\ ioq \o <<>> = ioq
  BY DEF TypeOK
<1>2. wthr.pc = "post" => wthr.msg \in Msg
  BY ThreadType, Zenon DEF TypeOK
<1>3. wthr.pc # "post" => OnTheirWay = ioq
  BY <1>1, Zenon DEF OnTheirWay
<1>4. wthr.pc = "post" => OnTheirWay = ioq \o <<wthr.msg>>
  BY Zenon DEF OnTheirWay
<1>5. wthr.pc = "post" => OnTheirWay = Append(ioq, wthr.msg)
  BY <1>1, <1>2, <1>4, MessageSeqs, Zenon
<1> QED
  BY <1>1, <1>2, <1>3, <1>5, SMTT(30)

(* And in the next state. *)
LEMMA OnTheirWayNext ==
  ASSUME TypeOK'
  PROVE  OnTheirWay' \in Seq(Msg)
<1>1. wthr'.pc = "post" => wthr'.msg \in Msg
  BY ThreadType, Zenon DEF TypeOK
<1>2. ioq' \in Seq(Msg)
  BY Zenon DEF TypeOK
<1>3. CASE wthr'.pc = "post"
  <2>1. OnTheirWay' = ioq' \o <<wthr'.msg>> /\ <<wthr'.msg>> \in Seq(Msg)
    BY <1>1, <1>3 DEF OnTheirWay
  <2> QED
    BY <1>2, <2>1
<1>4. CASE wthr'.pc # "post"
  <2>1. OnTheirWay' = ioq' \o <<>>
    BY <1>4, Zenon DEF OnTheirWay
  <2> QED
    BY <1>2, <2>1
<1> QED
  BY <1>3, <1>4, Zenon

(* A message on its way is at one place of it. *)
LEMMA OnePlacePosted ==
  ASSUME TypeOK, OneInFlight, ReadersRead, NEW m \in Msg
  PROVE  /\ \A i, j \in DOMAIN OnTheirWay :
              OnTheirWay[i] = m /\ OnTheirWay[j] = m => i = j
         /\ In(OnTheirWay, m) => OnItsWay(m)
         /\ OnItsWay(m) /\ ~Reads(m) => In(OnTheirWay, m)
<1>1. ioq \in Seq(Msg) /\ m.s \in Sessions
  BY Zenon DEF TypeOK, Msg
<1>2. Single(m.s)
  BY <1>1, SingleForm, Zenon
<1>3. \A i, j \in DOMAIN ioq : ioq[i] = m /\ ioq[j] = m => i = j
  BY <1>2, Zenon DEF Single, OneInQueue
<1>4. CASE wthr.pc # "post"
  <2>1. OnTheirWay = ioq
    BY <1>4, OnTheirWayForm, Zenon
  <2>2. ~Posts(wthr, m)
    BY <1>4, Zenon DEF Posts
  <2> QED
    BY <1>3, <2>1, <2>2, Zenon DEF OnItsWay, ReadersRead
<1>5. CASE wthr.pc = "post"
  <2> DEFINE l == Len(ioq) + 1
  <2>1. wthr.msg \in Msg /\ OnTheirWay = Append(ioq, wthr.msg)
    BY <1>5, OnTheirWayForm, Zenon
  <2>2. /\ DOMAIN OnTheirWay = DOMAIN ioq \cup {l} /\ OnTheirWay[l] = wthr.msg
        /\ \A i \in DOMAIN ioq : OnTheirWay[i] = ioq[i]
    BY <1>1, <2>1
  <2> HIDE DEF l
  <2>3. Posts(wthr, m) <=> wthr.msg = m
    BY <1>5, Zenon DEF Posts
  <2>4. In(OnTheirWay, m) <=> In(ioq, m) \/ wthr.msg = m
    BY <1>1, <2>1, InAppend, Zenon
  <2>5. wthr.msg = m => \A i \in DOMAIN ioq : ioq[i] # m
    BY <1>2, <1>5, Zenon DEF Single, InQueue, Serves
  <2>6. \A i, j \in DOMAIN OnTheirWay : OnTheirWay[i] = m /\ OnTheirWay[j] = m => i = j
    BY <1>3, <2>2, <2>5, Zenon
  <2> QED
    BY <2>3, <2>4, <2>6, Zenon DEF OnItsWay, ReadersRead
<1> QED
  BY <1>4, <1>5, Zenon

=============================================================================
