-------------------------------- MODULE Store --------------------------------
(***************************************************************************)
(* The nstore database as its threads see it: one LMDB environment, the    *)
(* writer thread that runs handle_namespace and handle_transact inside     *)
(* write transactions, and the reader threads that run handle_facts on     *)
(* snapshots.                                                              *)
(*                                                                         *)
(* LMDB is external and modelled by what the handlers rely on: a write     *)
(* transaction works on a private copy (`work') that becomes the committed *)
(* state (`db') at once or not at all, and a read transaction keeps the    *)
(* state it began with.  handle_transact is one action per part: begin,    *)
(* one step per fact, commit; every path to its error labels aborts.       *)
(***************************************************************************)
EXTENDS Datoms

CONSTANTS
  NsSize,     \* number of namespaces a namespace_t can name (2^32)
  NsArgs,     \* the integers clients send to `namespace'
  Selected,   \* the namespaces clients select
  Requests,   \* the fact lists clients send to `transact'
  ReadArgs,   \* the integers clients send to `facts', in the range of an i64
  Readers,    \* the reader threads
  MaxTx       \* bound: no transaction begins past this number

ASSUME StoreAssumption ==
  /\ NsSize \in Nat \ {0}
  /\ NsArgs \subseteq Int
  /\ Selected \subseteq Int
  /\ ReadArgs \subseteq -2 * TxWrap .. 2 * TxWrap - 1
  /\ MaxTx \in 1 .. TxWrap - 1

VARIABLES
  db,         \* the committed state: a function from the existing namespaces
  wpc,        \* where the writer thread is: "idle" or "facts"
  wns,        \* the namespace of the current write transaction
  work,       \* that namespace inside the write transaction
  todo,       \* the facts still to be processed
  newIds,     \* the temporary ids resolved so far
  newFacts,   \* the facts accepted so far
  eUnique,    \* the attributes taken for unique
  eRef,       \* the attributes taken for references
  reply,      \* the last reply of the writer thread
  rd,         \* what each reader thread is doing
  answer      \* the last answer of each reader thread

writer == <<wpc, wns, work, todo, newIds, newFacts, eUnique, eRef>>
reader == <<rd, answer>>
vars   == <<db, writer, reply, reader>>

-----------------------------------------------------------------------------
(* Requests: a JSON value as far as handle_transact tells values apart.  A *)
(* string carries its length and, in i, its bytes or their hash.           *)

Json == [kind : {"int", "string", "other"}, i : Int, len : Nat]

JInt(i)      == [kind |-> "int", i |-> i, len |-> 0]
JStr(len, b) == [kind |-> "string", i |-> b, len |-> len]
JOther       == [kind |-> "other", i |-> 0, len |-> 0]

(* The strings that cursor_put_padded stores with a plain put.  A longer   *)
(* string whose length is a multiple of 8 passes that length to LMDB as    *)
(* flags; requests with such strings are outside this model.               *)
PlainPut(len) == len <= 32 \/ len % 8 # 0

ASSUME RequestsAssumption ==
  Requests \subseteq Seq(Seq({j \in Json : PlainPut(j.len)}))

TempId == [tmp : Int, id : Int]

Reply == [ack : {"none", "ok", "error"}, ns : Int, tx : Int,
          facts : Seq(Datom), ids : SUBSET TempId]

NoReply == [ack |-> "none", ns |-> 0, tx |-> 0, facts |-> <<>>, ids |-> {}]
ACK_OK  == [NoReply EXCEPT !.ack = "ok"]
ACK_ERR == [NoReply EXCEPT !.ack = "error"]

Reading == [pc : {"idle", "scan"}, ns : Int, arg : Int, snap : NsState]
NotReading == [pc |-> "idle", ns |-> 0, arg |-> 0, snap |-> Fresh]

(* `seen' is a history field: META_TX in the snapshot of the answer. *)
Answer == [ns : Int, tx : Int, seen : Int, facts : SUBSET Datom]
NoAnswer == [ns |-> 0, tx |-> -1, seen |-> 0, facts |-> {}]

Namespaces == 0 .. NsSize - 1

(* Mutant: the namespace keeps the client's 64 bits. *)
ToNs_Unconverted(n) == n

(* The conversion of a client's i64 to a namespace_t. *)
ToNs(n) == n % NsSize

exists(ns) == ns \in DOMAIN db

-----------------------------------------------------------------------------
(* The writer thread. *)

WriterIdle ==
  /\ wpc = "idle"
  /\ wns = 0
  /\ work = Fresh
  /\ todo = <<>>
  /\ newIds = {}
  /\ newFacts = <<>>
  /\ eUnique = {}
  /\ eRef = {}

(* The locals of a transaction are gone once it ends. *)
WriterDone ==
  /\ wpc' = "idle"
  /\ wns' = 0
  /\ work' = Fresh
  /\ todo' = <<>>
  /\ newIds' = {}
  /\ newFacts' = <<>>
  /\ eUnique' = {}
  /\ eRef' = {}

(* db::setup and the commit.  The result of setup is ignored: a namespace  *)
(* that exists is acknowledged as one that was created.  An LMDB error in  *)
(* setup makes the commit fail.                                            *)
handle_namespace(n) ==
  /\ wpc = "idle"
  /\ \/ /\ db' = IF exists(ToNs(n)) THEN db
                 ELSE [m \in DOMAIN db \cup {ToNs(n)} |->
                         IF m = ToNs(n) THEN Fresh ELSE db[m]]
        /\ reply' = ACK_OK
     \/ /\ reply' = ACK_ERR
        /\ UNCHANGED db
  /\ UNCHANGED <<writer, reader>>

(* Requests refused before a transaction begins. *)
transact_reject ==
  /\ wpc = "idle"
  /\ reply' = ACK_ERR
  /\ UNCHANGED <<db, writer, reader>>

(* The transaction begins, META_TX and META_ID are read and the schema is  *)
(* queried.  Every entity with a db_type is taken for a reference.         *)
transact_begin(ns, facts) ==
  /\ wpc = "idle"
  /\ exists(ns)
  /\ facts # <<>>
  /\ db[ns].tx <= MaxTx
  /\ wpc' = "facts"
  /\ wns' = ns
  /\ work' = db[ns]
  /\ todo' = facts
  /\ newIds' = {}
  /\ newFacts' = <<>>
  /\ \E junk \in JunkChoices(db[ns].aetv, db_unique) :
       eUnique' = EntitiesWith(db[ns].aetv, db[ns].tx, db_unique,
                               db_unique_yes, junk)
  /\ eRef' = {d.e : d \in query_a(db[ns].aetv, db[ns].tx, db_type)}
  /\ UNCHANGED <<db, reply, reader>>

(* Resolution of temporary ids: s holds the ids resolved and the next id.  *)
Alloc(s, i) ==
  IF i >= 0 \/ \E p \in s.ids : p.tmp = i THEN s
  ELSE [ids |-> s.ids \cup {[tmp |-> i, id |-> s.next]}, next |-> s.next + 1]

IdOf(s, i) == IF i >= 0 THEN i ELSE (CHOOSE p \in s.ids : p.tmp = i).id

WellFormed(f) ==
  /\ Len(f) = 4
  /\ f[2].kind = "int"
  /\ f[1].kind = "int"
  /\ f[1].i \notin 0 .. db_initial_id - 1

EntityAlloc(f) == Alloc([ids |-> newIds, next |-> work.id], f[1].i)

RefValue(f) == f[3].kind = "int" /\ f[2].i \in eRef

ValueAlloc(f) ==
  IF RefValue(f) THEN Alloc(EntityAlloc(f), f[3].i) ELSE EntityAlloc(f)

StoredValue(f) ==
  CASE RefValue(f) -> IntValue(IdOf(ValueAlloc(f), f[3].i))
    [] f[3].kind = "int" /\ ~RefValue(f) -> IntValue(f[3].i)
    [] f[3].kind = "string" -> BlobValue(f[3].len, f[3].i)

Retract(f) == f[4].kind = "int" /\ f[4].i # 0

(* The key a fact is stored under. *)
DatomOf(f) ==
  [e |-> IdOf(EntityAlloc(f), f[1].i), a |-> f[2].i,
   v |-> StoredValue(f), t |-> Stamp(work.tx, Retract(f))]

(* The unique index: the entry for an attribute and bytes, if any, and the *)
(* entry of the last value of an entity, which a new value replaces.       *)
Holder(a, b) == {u \in work.uniq : u.a = a /\ u.b = b}

LastValue(d) ==
  LastDatom(work.eatv, \E m \in DOMAIN db : m > wns, d.e, d.a)

(* Mutant: the entity of the entry is not compared. *)
UniqueHolds_AnyHolder(d) ==
  d.a \in eUnique /\ IsRetraction(d) => Holder(d.a, d.v.b) # {}

UniqueHolds(d) ==
  d.a \in eUnique =>
    IF IsRetraction(d) THEN Holder(d.a, d.v.b) # {}
    ELSE IF Holder(d.a, d.v.b) # {}
           THEN \A u \in Holder(d.a, d.v.b) : u.e = d.e
           ELSE \A x \in LastValue(d) : Holder(d.a, x.v.b) # {}

(* Mutant: the last value is removed and the new one is not put. *)
UniqueAfter_NoPut(d) ==
  IF d.a \in eUnique
    THEN work.uniq \ UNION {Holder(d.a, x.v.b) : x \in LastValue(d)}
    ELSE work.uniq

UniqueAfter(d) ==
  CASE d.a \notin eUnique -> work.uniq
    [] d.a \in eUnique /\ IsRetraction(d) -> work.uniq \ Holder(d.a, d.v.b)
    [] d.a \in eUnique /\ ~IsRetraction(d) ->
         (IF Holder(d.a, d.v.b) # {} THEN work.uniq \ Holder(d.a, d.v.b)
          ELSE work.uniq \ UNION {Holder(d.a, x.v.b) : x \in LastValue(d)})
         \cup {[a |-> d.a, b |-> d.v.b, e |-> d.e]}

(* Mutant: off by one. *)
IsSchema_Inclusive(a) == a <= db_initial_id

(* The attributes AETV is filled for. *)
IsSchema(a) == a < db_initial_id

(* The labels err_cur and err_tx. *)
Abort ==
  /\ WriterDone
  /\ reply' = ACK_ERR
  /\ UNCHANGED <<db, reader>>

(* A fact that is not four columns, has a column of a wrong type or is     *)
(* about a basic entity; a fact that a unique attribute forbids.           *)
fact_refused ==
  /\ wpc = "facts"
  /\ todo # <<>>
  /\ \/ ~WellFormed(Head(todo))
     \/ /\ WellFormed(Head(todo))
        /\ Head(todo)[3].kind # "other"
        /\ ~UniqueHolds(DatomOf(Head(todo)))
  /\ Abort

(* Mutant: the loop does not advance past a skipped fact. *)
fact_skipped_Again ==
  /\ wpc = "facts"
  /\ todo # <<>>
  /\ WellFormed(Head(todo))
  /\ Head(todo)[3].kind = "other"
  /\ UNCHANGED vars

(* A fact whose value is neither an integer nor a string is skipped, after *)
(* its entity was resolved.                                                *)
fact_skipped ==
  /\ wpc = "facts"
  /\ todo # <<>>
  /\ WellFormed(Head(todo))
  /\ Head(todo)[3].kind = "other"
  /\ newIds' = EntityAlloc(Head(todo)).ids
  /\ work' = [work EXCEPT !.id = EntityAlloc(Head(todo)).next]
  /\ todo' = Tail(todo)
  /\ UNCHANGED <<db, wpc, wns, newFacts, eUnique, eRef, reply, reader>>

(* A fact is put in EATV and, for a schema attribute, in AETV. *)
fact_put ==
  /\ wpc = "facts"
  /\ todo # <<>>
  /\ WellFormed(Head(todo))
  /\ Head(todo)[3].kind # "other"
  /\ LET d == DatomOf(Head(todo))
     IN  /\ UniqueHolds(d)
         /\ work' = [work EXCEPT
              !.id   = ValueAlloc(Head(todo)).next,
              !.eatv = @ \cup {d},
              !.aetv = IF IsSchema(d.a) THEN @ \cup {d} ELSE @,
              !.uniq = UniqueAfter(d)]
         /\ newFacts' = Append(newFacts, d)
  /\ newIds' = ValueAlloc(Head(todo)).ids
  /\ todo' = Tail(todo)
  /\ UNCHANGED <<db, wpc, wns, eUnique, eRef, reply, reader>>

(* Mutant: META_TX is not put. *)
transact_commit_KeepTx ==
  /\ wpc = "facts"
  /\ todo = <<>>
  /\ db' = [db EXCEPT ![wns] = work]
  /\ reply' = [ack |-> "ok", ns |-> wns, tx |-> work.tx,
               facts |-> newFacts, ids |-> newIds]
  /\ WriterDone
  /\ UNCHANGED reader

(* Mutant: META_ID is not put. *)
transact_commit_KeepId ==
  /\ wpc = "facts"
  /\ todo = <<>>
  /\ db' = [db EXCEPT ![wns] = [work EXCEPT !.tx = @ + 1, !.id = db[wns].id]]
  /\ reply' = [ack |-> "ok", ns |-> wns, tx |-> work.tx,
               facts |-> newFacts, ids |-> newIds]
  /\ WriterDone
  /\ UNCHANGED reader

(* META_TX and META_ID are put, the transaction commits and the response   *)
(* is posted.                                                              *)
transact_commit ==
  /\ wpc = "facts"
  /\ todo = <<>>
  /\ db' = [db EXCEPT ![wns] = [work EXCEPT !.tx = @ + 1]]
  /\ reply' = [ack |-> "ok", ns |-> wns, tx |-> work.tx,
               facts |-> newFacts, ids |-> newIds]
  /\ WriterDone
  /\ UNCHANGED reader

(* An LMDB call fails (the map is full, the commit fails). *)
transact_fail == wpc = "facts" /\ Abort

-----------------------------------------------------------------------------
(* The reader threads. *)

(* handle_facts renews the thread's read transaction. *)
facts_renew(r, ns, arg) ==
  /\ rd[r].pc = "idle"
  /\ exists(ns)
  /\ rd' = [rd EXCEPT ![r] =
              [pc |-> "scan", ns |-> ns, arg |-> arg, snap |-> db[ns]]]
  /\ UNCHANGED <<db, writer, reply, answer>>

(* A negative argument asks for the current facts: META_TX of the          *)
(* snapshot.                                                               *)
AskedTx(r) == IF rd[r].arg < 0 THEN rd[r].snap.tx ELSE rd[r].arg

(* Mutant: the schema is queried outside the snapshot. *)
facts_scan_FreshSchema(r) ==
  LET snap == [rd[r].snap EXCEPT !.aetv = db[rd[r].ns].aetv]
  IN  /\ rd[r].pc = "scan"
      /\ rd' = [rd EXCEPT ![r] = NotReading]
      /\ answer' = [answer EXCEPT ![r] =
                      [ns |-> rd[r].ns, tx |-> AskedTx(r), seen |-> snap.tx,
                       facts |-> FactsAt(snap, AskedTx(r), {})]]
      /\ UNCHANGED <<db, writer, reply>>

facts_scan(r) ==
  /\ rd[r].pc = "scan"
  /\ rd' = [rd EXCEPT ![r] = NotReading]
  /\ \E junk \in JunkChoices(rd[r].snap.aetv, db_cardinality) :
       answer' = [answer EXCEPT ![r] =
                    [ns |-> rd[r].ns, tx |-> AskedTx(r), seen |-> rd[r].snap.tx,
                     facts |-> FactsAt(rd[r].snap, AskedTx(r), junk)]]
  /\ UNCHANGED <<db, writer, reply>>

-----------------------------------------------------------------------------
(* The process dies and is started again: db::open finds namespace 0 and   *)
(* setup changes nothing; open transactions are gone.                      *)
crash ==
  /\ wpc # "idle" \/ \E r \in Readers : rd[r].pc # "idle"
  /\ WriterDone
  /\ rd' = [r \in Readers |-> NotReading]
  /\ UNCHANGED <<db, reply, answer>>

Init ==
  /\ db = [ns \in {0} |-> Fresh]
  /\ WriterIdle
  /\ reply = NoReply
  /\ rd = [r \in Readers |-> NotReading]
  /\ answer = [r \in Readers |-> NoAnswer]

TransactStep == fact_refused \/ fact_skipped \/ fact_put \/ transact_commit

Next ==
  \/ \E n \in NsArgs : handle_namespace(n)
  \/ transact_reject
  \/ \E ns \in Selected, facts \in Requests : transact_begin(ns, facts)
  \/ fact_refused
  \/ fact_skipped
  \/ fact_put
  \/ transact_commit
  \/ transact_fail
  \/ \E r \in Readers, ns \in Selected, arg \in ReadArgs :
       facts_renew(r, ns, arg)
  \/ \E r \in Readers : facts_scan(r)
  \/ crash

Spec == Init /\ [][Next]_vars

(* The writer and the readers are threads of their own and nothing blocks  *)
(* them inside a request.                                                  *)
FairSpec ==
  /\ Spec
  /\ WF_vars(TransactStep)
  /\ \A r \in Readers : WF_vars(facts_scan(r))

-----------------------------------------------------------------------------
(* Type correctness: every variable holds what the code keeps there, and   *)
(* namespace 0 exists (db::open).                                          *)
TypeOK ==
  /\ DOMAIN db \subseteq Namespaces
  /\ 0 \in DOMAIN db
  /\ db \in [DOMAIN db -> NsState]
  /\ wpc \in {"idle", "facts"}
  /\ wns \in DOMAIN db
  /\ work \in NsState
  /\ todo \in Seq(Seq(Json))
  /\ newIds \subseteq TempId
  /\ newFacts \in Seq(Datom)
  /\ eUnique \subseteq Int
  /\ eRef \subseteq Int
  /\ reply \in Reply
  /\ rd \in [Readers -> Reading]
  /\ answer \in [Readers -> Answer]

(* s2 answers every read as of a transaction that s completed as s does. *)
KeepsHistory(s, s2) ==
  \/ s2 = s
  \/ \A tx \in 0 .. s.tx - 1 :
       \A junk \in JunkChoices(s.aetv, db_cardinality) :
         FactsAt(s2, tx, junk) = FactsAt(s, tx, junk)

(* History is immutable: whatever the writer does, the answer handle_facts *)
(* computes for a transaction below META_TX never changes, and a namespace *)
(* never disappears.                                                       *)
AsOfStable ==
  [][\A ns \in DOMAIN db :
       ns \in DOMAIN db' /\ KeepsHistory(db[ns], db'[ns])]_db

SchemaIndexed(s) == s.aetv = {d \in s.eatv : d.a < db_initial_id}

(* The AETV index, which transact fills only for schema attributes, holds  *)
(* the EATV keys of those attributes, committed or not: query_a misses     *)
(* none of the schema and sees nothing else.                               *)
SchemaIndexInSync ==
  /\ \A ns \in DOMAIN db : SchemaIndexed(db[ns])
  /\ SchemaIndexed(work)

(* The facts of a response are exactly the facts the store keeps for its   *)
(* transaction: nothing acknowledged is missing, and nothing an earlier    *)
(* transaction or an aborted one wrote is stored under that number.        *)
ResponseIsStored ==
  reply.tx > 0 =>
    {d \in db[reply.ns].eatv : TxOf(d) = reply.tx}
      = {reply.facts[i] : i \in DOMAIN reply.facts}

(* Ids given to temporary ids by a committed transaction come from a range *)
(* no other transaction of the namespace draws from, one id for each       *)
(* temporary id.                                                           *)
IdsHandedOutOnce ==
  [][\A ns \in DOMAIN db : db'[ns].tx # db[ns].tx =>
       /\ {p.id : p \in reply'.ids} = db[ns].id .. db'[ns].id - 1
       /\ \A p, q \in reply'.ids : p.tmp = q.tmp <=> p.id = q.id]_db

(* The settled transaction an answer is about: the one asked for, or the   *)
(* last one the snapshot held when the client asked for a later one.       *)
AsOf(ans) == IF ans.tx \in ans.seen .. TxWrap - 1 THEN ans.seen - 1 ELSE ans.tx

(* What handle_facts answered, from a snapshot that may have been old, is  *)
(* the history the store keeps for ever: the answer is the one the store   *)
(* would give now as of that settled transaction.                          *)
AnswersReproducible ==
  \A r \in Readers : \E junk \in JunkChoices(db[answer[r].ns].aetv, db_cardinality) :
    answer[r].facts = FactsAt(db[answer[r].ns], AsOf(answer[r]), junk)

(* A fact about db_ident, an attribute that setup declares unique, of an   *)
(* entity clients write.                                                   *)
IsIdent(f) == f.a = db_ident /\ f.e >= db_initial_id

(* The namespaces that ever had one, and those that are current. *)
WithIdents == {ns \in DOMAIN db : \E d \in db[ns].eatv : IsIdent(d)}

CurrentIdents(ns) == {f \in FactsAt(db[ns], db[ns].tx, {}) : IsIdent(f)}

(* No two entities have the same current db_ident: the unique check of     *)
(* handle_transact lets no second holder of a value in.                    *)
IdentsUnique ==
  \A ns \in WithIdents : \A f, g \in CurrentIdents(ns) : f.v.b = g.v.b => f.e = g.e

(* Every current db_ident is protected by the unique index: its entry      *)
(* names the entity that has the value.                                    *)
IdentsProtected ==
  \A ns \in WithIdents : \A f \in CurrentIdents(ns) :
    [a |-> db_ident, b |-> f.v.b, e |-> f.e] \in db[ns].uniq

(* The unique index holds no value its entity no longer has: a new value   *)
(* removes the last one from the index.                                    *)
NoStaleUnique ==
  \A ns \in DOMAIN db : \A u \in db[ns].uniq :
    u.e >= db_initial_id =>
      \E f \in CurrentIdents(ns) : f.e = u.e /\ f.v.b = u.b

(* Only the integers of reference attributes are taken for temporary ids.  *)
OnlyRefsResolved ==
  wpc = "facts" =>
    \A a \in eRef : \E f \in FactsAt(db[wns], db[wns].tx, {}) :
      f.e = a /\ f.a = db_type /\ f.v = IntValue(db_type_ref)

(* Creating a namespace that exists is answered with an error. *)
NamespaceCreatedOnce ==
  [][\A n \in NsArgs :
       handle_namespace(n) /\ exists(ToNs(n)) => reply' = ACK_ERR]_vars

(* A transaction that handle_transact began commits or aborts. *)
TransactionEnds == wpc = "facts" ~> wpc = "idle"

-----------------------------------------------------------------------------
(* The inductive invariant behind the safety properties.  The key fact is  *)
(* what a write transaction may add: datoms stamped with its own number,   *)
(* which is META_TX and so above every stamp committed before.             *)

NewerOnly(old, new, tx) ==
  old \subseteq new /\ \A d \in new \ old : d.t >= 2 * tx

(* s2 is a later state of the namespace s. *)
Continues(s, s2) ==
  /\ s.tx <= s2.tx
  /\ NewerOnly(s.eatv, s2.eatv, s.tx)
  /\ NewerOnly(s.aetv, s2.aetv, s.tx)

StampsBelow(s, tx) == \A d \in s.eatv \cup s.aetv : d.t < 2 * tx

DbInv ==
  \A ns \in DOMAIN db :
    /\ StampsBelow(db[ns], db[ns].tx)
    /\ db[ns].tx <= MaxTx + 1

WorkInv ==
  wpc = "facts" =>
    /\ work.tx = db[wns].tx
    /\ work.tx <= MaxTx
    /\ Continues(db[wns], work)
    /\ StampsBelow(work, work.tx + 1)
    /\ {d \in work.eatv : d.t >= 2 * work.tx}
         = {newFacts[i] : i \in DOMAIN newFacts}

(* The ids handed out so far are those META_ID moved over, one each. *)
IdsInv ==
  wpc = "facts" =>
    /\ db[wns].id <= work.id
    /\ {p.id : p \in newIds} = db[wns].id .. work.id - 1
    /\ \A p, q \in newIds : p.tmp = q.tmp <=> p.id = q.id

ReplyInv ==
  reply.tx > 0 =>
    /\ reply.ns \in DOMAIN db
    /\ reply.tx < db[reply.ns].tx
    /\ ResponseIsStored

ReaderInv ==
  \A r \in Readers :
    rd[r].pc = "scan" =>
      /\ rd[r].ns \in DOMAIN db
      /\ rd[r].arg \in ReadArgs
      /\ rd[r].snap.tx <= TxWrap
      /\ StampsBelow(rd[r].snap, rd[r].snap.tx)
      /\ Continues(rd[r].snap, db[rd[r].ns])

(* An answer is about a part of the history that is settled. *)
AnswerInv ==
  \A r \in Readers :
    /\ answer[r].ns \in DOMAIN db
    /\ ReadBound(AsOf(answer[r])) < 2 * db[answer[r].ns].tx

(* What holds throughout the interleaving of handle_transact, handle_facts *)
(* and crashes, the types aside: stamps committed are below META_TX, a     *)
(* write transaction adds only newer ones, ids in use are below META_ID,   *)
(* and snapshots and answers are about a prefix of the history.            *)
HistoryInv == DbInv /\ WorkInv /\ IdsInv /\ ReplyInv /\ ReaderInv /\ AnswerInv

=============================================================================
