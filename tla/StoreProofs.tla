----------------------------- MODULE StoreProofs ------------------------------
(***************************************************************************)
(* Theorems about Store, for every choice of its constants: types and      *)
(* plain safety first, then that committed history never changes (the      *)
(* properties that rest on HistoryInv), then that Store implements         *)
(* FactLog.                                                                *)
(***************************************************************************)
EXTENDS StoreLog, TLAPS

-----------------------------------------------------------------------------
(* The data. *)

(* The pad of a string is an integer. *)
LEMMA PadType == ASSUME NEW len \in Nat PROVE Pad(len) \in Int
  BY DEF Pad

(* A namespace that setup created is well typed. *)
LEMMA FreshType == Fresh \in NsState
<1> DEFINE fact(e, a, v) == [e |-> e, a |-> a, v |-> v, t |-> 0]
<1>1. \A i \in Int : IntValue(i) \in Value
  BY DEF IntValue, Value, KEY_INTEGER, KEY_BLOB
<1>2. \A e \in 1 .. 10 : IdentLength[e] \in Nat
  BY DEF IdentLength
<1>3. \A e \in 1 .. 10 : BlobValue(IdentLength[e], IdentBytes(e)) \in Value
  BY <1>2, PadType DEF BlobValue, Value, IdentBytes, KEY_INTEGER, KEY_BLOB
<1>4. \A e, a \in Int, v \in Value : fact(e, a, v) \in Datom
  BY DEF Datom
<1>5. BasicFacts \subseteq Datom
  <2> DEFINE ident(e) == fact(e, db_ident, BlobValue(IdentLength[e], IdentBytes(e)))
  <2>0. /\ db_ident .. db_unique_yes \subseteq 1 .. 10 /\ db_ident .. db_unique \subseteq 1 .. 10
        /\ {db_ident, db_type, db_cardinality, db_unique, db_type_value, db_type_ref,
            db_cardinality_one, db_unique_no, db_unique_yes} \subseteq 1 .. 10
    BY DEF db_ident, db_type, db_cardinality, db_unique, db_type_value,
           db_type_ref, db_cardinality_one, db_unique_no, db_unique_yes
  <2>1. \A e \in 1 .. 10 : ident(e) \in Datom
    <3>1. db_ident \in Int /\ 1 .. 10 \subseteq Int
      BY DEF db_ident
    <3> QED
      BY <1>3, <1>4, <3>1, Zenon
  <2>2. \A e, a, i \in 1 .. 10 : fact(e, a, IntValue(i)) \in Datom
    BY <1>1, <1>4
  <2> HIDE DEF fact, ident
  <2>3. /\ {ident(e) : e \in db_ident .. db_unique_yes} \subseteq Datom
        /\ {fact(e, db_cardinality, IntValue(db_cardinality_one)) :
              e \in db_ident .. db_unique} \subseteq Datom
    <3>1. /\ \A e \in db_ident .. db_unique_yes : ident(e) \in Datom
          /\ \A e \in db_ident .. db_unique : e \in 1 .. 10
          /\ db_cardinality \in 1 .. 10 /\ db_cardinality_one \in 1 .. 10
      BY <2>0, <2>1, Zenon
    <3>2. \A e \in db_ident .. db_unique :
            fact(e, db_cardinality, IntValue(db_cardinality_one)) \in Datom
      BY <2>2, <3>1, Zenon
    <3> QED
      BY <3>1, <3>2, Zenon
  <2>4. /\ {fact(e, db_type, IntValue(db_type_ref)) :
              e \in {db_type, db_cardinality, db_unique}} \subseteq Datom
        /\ {fact(e, db_unique, IntValue(db_unique_no)) :
              e \in {db_type, db_cardinality, db_unique}} \subseteq Datom
    <3>1. /\ \A e \in {db_type, db_cardinality, db_unique} : e \in 1 .. 10
          /\ {db_type, db_unique, db_type_ref, db_unique_no} \subseteq 1 .. 10
      BY <2>0, Zenon
    <3>2. \A e \in {db_type, db_cardinality, db_unique} :
            fact(e, db_type, IntValue(db_type_ref)) \in Datom
              /\ fact(e, db_unique, IntValue(db_unique_no)) \in Datom
      BY <2>2, <3>1, Zenon
    <3> QED
      BY <3>2, Zenon
  <2>5. /\ fact(db_ident, db_type, IntValue(db_type_value)) \in Datom
        /\ fact(db_ident, db_unique, IntValue(db_unique_yes)) \in Datom
    BY <2>0, <2>2, Zenon
  <2> QED
    BY <2>3, <2>4, <2>5, Zenon DEF BasicFacts, fact, ident
<1>6. BasicUnique \subseteq UniqueEntry
  BY DEF BasicUnique, UniqueEntry, IdentBytes, db_ident, db_unique
<1> QED
  BY <1>5, <1>6, Zenon DEF Fresh, NsState, db_initial_id

(* The basic facts carry the stamp of no transaction. *)
LEMMA FreshFacts ==
  Fresh.eatv = BasicFacts /\ Fresh.tx = 1 /\ \A d \in BasicFacts : d.t = 0
  BY DEF Fresh, BasicFacts

(* What a read returns depends only on the datoms within its bound. *)
LEMMA FactsDependOnUpTo ==
  ASSUME NEW s, NEW s2, NEW tx, NEW tx2, NEW junk,
         UpTo(s2.eatv, tx2) = UpTo(s.eatv, tx), UpTo(s2.aetv, tx2) = UpTo(s.aetv, tx)
  PROVE  FactsAt(s2, tx2, junk) = FactsAt(s, tx, junk)
<1>1. query_a(s2.aetv, tx2, db_cardinality) = query_a(s.aetv, tx, db_cardinality)
  BY Zenon DEF query_a
<1>2. EntitiesWith(s2.aetv, tx2, db_cardinality, db_cardinality_many, junk)
      = EntitiesWith(s.aetv, tx, db_cardinality, db_cardinality_many, junk)
  BY <1>1, Zenon DEF EntitiesWith
<1> QED
  BY <1>2, Zenon DEF FactsAt

(* What a read returns from an index that holds the schema, and from the   *)
(* schema itself.                                                          *)
LEMMA FactsFromSchema ==
  ASSUME NEW s, NEW tx, NEW junk \in JunkChoices(s.aetv, db_cardinality),
         s.aetv = Schema(s.eatv)
  PROVE  FactsAt(s, tx, junk) \in AnswersFrom(s.eatv, tx)
<1> DEFINE s0 == [eatv |-> s.eatv, aetv |-> Schema(s.eatv)]
<1>1. s0.eatv = s.eatv /\ s0.aetv = s.aetv
  BY Zenon
<1>2. FactsAt(s0, tx, junk) = FactsAt(s, tx, junk)
  BY <1>1, FactsDependOnUpTo
<1> HIDE DEF s0
<1> QED
  BY <1>2, Zenon DEF AnswersFrom, s0

(* What the log sees of a read. *)
LEMMA ReadingScan ==
  ASSUME NEW r \in Readers
  PROVE  /\ ReadingOf[r].pc = rd[r].pc /\ ReadingOf[r].ns = rd[r].ns
         /\ ReadingOf[r].arg = rd[r].arg /\ ReadingOf[r].seen = rd[r].snap.tx - 1
  BY Zenon DEF ReadingOf, ReadOf

(* A scan returns datoms of the index it reads. *)
LEMMA QuerySubset ==
  ASSUME NEW aetv \in SUBSET Datom, NEW tx \in Int, NEW a \in Int
  PROVE  query_a(aetv, tx, a) \subseteq aetv
  BY Zenon DEF query_a, UpTo

(* A read returns datoms the indices hold. *)
LEMMA FactsSubset ==
  ASSUME NEW s \in NsState, NEW tx \in Int, NEW junk
  PROVE  FactsAt(s, tx, junk) \subseteq s.eatv
  BY Zenon DEF FactsAt, ScanFacts, UpTo

(* The entities of a schema query are integers. *)
LEMMA EntitiesType ==
  ASSUME NEW aetv \in SUBSET Datom, NEW tx \in Int, NEW a \in Int, NEW val, NEW junk
  PROVE  EntitiesWith(aetv, tx, a, val, junk) \subseteq Int
<1>1. query_a(aetv, tx, a) \subseteq Datom
  BY QuerySubset, Zenon
<1> QED
  BY <1>1, Zenon DEF EntitiesWith, Datom

-----------------------------------------------------------------------------
(* Temporary ids. *)

AllocState == [ids : SUBSET TempId, next : Nat]

(* Resolving a temporary id keeps the table and META_ID well typed, and    *)
(* resolves it.                                                            *)
LEMMA AllocType ==
  ASSUME NEW s \in AllocState, NEW i \in Int
  PROVE  /\ Alloc(s, i) \in AllocState
         /\ IdOf(Alloc(s, i), i) \in Int
<1>1. CASE i >= 0
  BY <1>1, Zenon DEF Alloc, IdOf
<1>2. CASE i < 0 /\ \E p \in s.ids : p.tmp = i
  <2>1. Alloc(s, i) = s
    BY <1>2, Zenon DEF Alloc
  <2>2. (CHOOSE p \in s.ids : p.tmp = i) \in TempId
    BY <1>2, Zenon DEF AllocState
  <2> QED
    BY <1>2, <2>1, <2>2, Zenon DEF IdOf, TempId
<1>3. CASE i < 0 /\ ~\E p \in s.ids : p.tmp = i
  <2> DEFINE p0 == [tmp |-> i, id |-> s.next]
  <2>1. Alloc(s, i) = [ids |-> s.ids \cup {p0}, next |-> s.next + 1]
    BY <1>3 DEF Alloc
  <2>2. p0 \in TempId
    BY DEF TempId, AllocState
  <2>3. s.ids \cup {p0} \subseteq TempId /\ s.next + 1 \in Nat
    BY <2>2 DEF AllocState
  <2>4. Alloc(s, i) \in AllocState
    BY <2>1, <2>3 DEF AllocState
  <2>5. (CHOOSE p \in Alloc(s, i).ids : p.tmp = i) \in Alloc(s, i).ids
    BY <2>1
  <2> QED
    BY <1>3, <2>4, <2>5, Zenon DEF IdOf, TempId, AllocState
<1> QED
  BY <1>1, <1>2, <1>3

(* The facts of a request. *)

(* The columns of a well-formed fact. *)
LEMMA ColumnType ==
  ASSUME NEW f \in Seq(Json), WellFormed(f)
  PROVE  f[1] \in Json /\ f[2] \in Json /\ f[3] \in Json /\ f[4] \in Json
<1>1. Len(f) = 4
  BY Zenon DEF WellFormed
<1>2. \A c \in 1 .. Len(f) : f[c] \in Json
  OBVIOUS
<1> QED
  BY <1>1, <1>2

(* Resolving the entity of a fact. *)
LEMMA EntityAllocType ==
  ASSUME TypeOK, NEW f \in Seq(Json), WellFormed(f)
  PROVE  /\ EntityAlloc(f) \in AllocState
         /\ IdOf(EntityAlloc(f), f[1].i) \in Int
<1>1. f[1] \in Json
  BY ColumnType, Zenon
<1>2. [ids |-> newIds, next |-> work.id] \in AllocState
  BY Zenon DEF TypeOK, AllocState, NsState
<1> QED
  BY <1>1, <1>2, AllocType, Zenon DEF EntityAlloc, Json

(* Resolving the value of a fact, if it is a reference. *)
LEMMA ValueAllocType ==
  ASSUME TypeOK, NEW f \in Seq(Json), WellFormed(f)
  PROVE  /\ ValueAlloc(f) \in AllocState
         /\ RefValue(f) => IdOf(ValueAlloc(f), f[3].i) \in Int
<1>1. f[3] \in Json
  BY ColumnType, Zenon
<1>2. Alloc(EntityAlloc(f), f[3].i) \in AllocState
      /\ IdOf(Alloc(EntityAlloc(f), f[3].i), f[3].i) \in Int
  BY <1>1, EntityAllocType, AllocType, Zenon DEF Json
<1> QED
  BY <1>2, EntityAllocType, Zenon DEF ValueAlloc

(* The key built for an accepted fact is a datom. *)
LEMMA DatomOfType ==
  ASSUME TypeOK, NEW f \in Seq(Json), WellFormed(f), f[3].kind # "other"
  PROVE  /\ DatomOf(f) \in Datom
         /\ DatomOf(f).t \in {2 * work.tx, 2 * work.tx + 1}
<1>1. f[1] \in Json /\ f[2] \in Json /\ f[3] \in Json /\ f[4] \in Json
  BY ColumnType, Zenon
<1>2. StoredValue(f) \in Value
  <2>1. CASE RefValue(f)
    BY <1>1, <2>1, ValueAllocType
    DEF StoredValue, IntValue, Value, KEY_INTEGER, KEY_BLOB, RefValue
  <2>2. CASE f[3].kind = "int" /\ ~RefValue(f)
    BY <1>1, <2>2 DEF StoredValue, IntValue, Value, KEY_INTEGER, KEY_BLOB, Json
  <2>3. CASE f[3].kind = "string"
    <3>1. ~RefValue(f) /\ f[3].len \in Nat /\ f[3].i \in Int
      BY <1>1, <2>3, Zenon DEF RefValue, Json
    <3>2. StoredValue(f) = BlobValue(f[3].len, f[3].i)
      BY <2>3, <3>1, Zenon DEF StoredValue
    <3> QED
      BY <3>1, <3>2, PadType, SMTT(30) DEF BlobValue, Value, KEY_INTEGER, KEY_BLOB
  <2> QED
    BY <1>1, <2>1, <2>2, <2>3, Zenon DEF Json
<1>3. work.tx \in Nat
  BY Zenon DEF TypeOK, NsState
<1> DEFINE t == Stamp(work.tx, Retract(f))
<1>4. t \in {2 * work.tx, 2 * work.tx + 1} /\ t \in Int
  BY <1>3 DEF Stamp
<1>5. IdOf(EntityAlloc(f), f[1].i) \in Int /\ f[2].i \in Int
  BY <1>1, EntityAllocType, Zenon DEF Json
<1> HIDE DEF t
<1>6. DatomOf(f) = [e |-> IdOf(EntityAlloc(f), f[1].i), a |-> f[2].i,
                    v |-> StoredValue(f), t |-> t]
  BY Zenon DEF DatomOf, t
<1> QED
  BY <1>2, <1>4, <1>5, <1>6 DEF Datom

-----------------------------------------------------------------------------
(* Type correctness. *)

USE StoreAssumption

(* A fresh database is well typed. *)
LEMMA TypeInit == Init => TypeOK
<1> SUFFICES ASSUME Init PROVE TypeOK
  BY Zenon
<1>1. DOMAIN db = {0} /\ db \in [DOMAIN db -> NsState] /\ {0} \subseteq Namespaces
  BY FreshType DEF Init, Namespaces
<1>2. reply \in Reply
  BY DEF Init, NoReply, Reply
<1>3. rd \in [Readers -> Reading] /\ answer \in [Readers -> Answer]
  BY FreshType DEF Init, NotReading, Reading, NoAnswer, Answer
<1> QED
  BY <1>1, <1>2, <1>3, FreshType DEF Init, WriterIdle, TypeOK

(* The end of a transaction leaves the writer's variables well typed. *)
LEMMA WriterDoneType ==
  ASSUME WriterDone, 0 \in DOMAIN db'
  PROVE  /\ wpc' \in {"idle", "facts"}
         /\ wns' \in DOMAIN db'
         /\ work' \in NsState
         /\ todo' \in Seq(Seq(Json))
         /\ newIds' \subseteq TempId
         /\ newFacts' \in Seq(Datom)
         /\ eUnique' \subseteq Int
         /\ eRef' \subseteq Int
  BY FreshType DEF WriterDone

(* The two acknowledgements without a body. *)
LEMMA AckType == ACK_OK \in Reply /\ ACK_ERR \in Reply
<1>1. NoReply \in Reply
  BY DEF NoReply, Reply
<1> QED
  BY <1>1, Zenon DEF ACK_OK, ACK_ERR, Reply

(* Both error labels of handle_transact leave a well-typed state. *)
LEMMA AbortType == TypeOK /\ Abort => TypeOK'
<1> SUFFICES ASSUME TypeOK, Abort PROVE TypeOK'
  BY Zenon
<1>1. db' = db /\ UNCHANGED reader /\ 0 \in DOMAIN db'
  BY Zenon DEF Abort, TypeOK
<1>2. reply' \in Reply
  BY AckType, Zenon DEF Abort
<1> QED
  BY <1>1, <1>2, WriterDoneType, Zenon DEF Abort, TypeOK, reader

(* Sequences over a smaller set. *)
LEMMA SeqSubset == ASSUME NEW S, NEW T, S \subseteq T PROVE Seq(S) \subseteq Seq(T)
  OBVIOUS

(* A request is a list of facts, each a list of columns. *)
LEMMA RequestType == Requests \subseteq Seq(Seq(Json))
<1> DEFINE Plain == {j \in Json : PlainPut(j.len)}
<1>1. Seq(Plain) \subseteq Seq(Json)
  BY SeqSubset, Zenon
<1> HIDE DEF Plain
<1>2. Seq(Seq(Plain)) \subseteq Seq(Seq(Json))
  BY <1>1, SeqSubset, Zenon
<1> QED
  BY <1>2, RequestsAssumption, Zenon DEF Plain

(* The unique index holds entries after a put or a retraction. *)
LEMMA UniqueAfterType ==
  ASSUME TypeOK, NEW d \in Datom
  PROVE  UniqueAfter(d) \subseteq UniqueEntry
<1>1. work.uniq \subseteq UniqueEntry
  BY Zenon DEF TypeOK, NsState
<1>2. [a |-> d.a, b |-> d.v.b, e |-> d.e] \in UniqueEntry
  BY Zenon DEF Datom, Value, UniqueEntry
<1> HIDE DEF LastValue, Holder
<1> QED
  BY <1>1, <1>2, Zenon DEF UniqueAfter

(* Every action keeps the types. *)
LEMMA TypeStep == TypeOK /\ [Next]_vars => TypeOK'
<1> SUFFICES ASSUME TypeOK, [Next]_vars PROVE TypeOK'
  BY Zenon
<1>1. ASSUME NEW n \in NsArgs, handle_namespace(n) PROVE TypeOK'
  <2>1. ToNs(n) \in Namespaces
    BY DEF ToNs, Namespaces
  <2>2. /\ DOMAIN db' \subseteq Namespaces
        /\ DOMAIN db \subseteq DOMAIN db'
        /\ db' \in [DOMAIN db' -> NsState]
    BY <1>1, <2>1, FreshType, ZenonT(60) DEF handle_namespace, TypeOK
  <2>3. reply' \in Reply
    BY <1>1, AckType, Zenon DEF handle_namespace
  <2> QED
    BY <1>1, <2>2, <2>3, Zenon DEF handle_namespace, TypeOK, writer, reader
<1>2. CASE transact_reject
  BY <1>2, AckType, Zenon DEF transact_reject, TypeOK, writer, reader
<1>3. ASSUME NEW ns \in Selected, NEW facts \in Requests, transact_begin(ns, facts)
      PROVE  TypeOK'
  <2>1. db[ns] \in NsState /\ ns \in DOMAIN db
    BY <1>3, Zenon DEF transact_begin, exists, TypeOK
  <2>2. db[ns].aetv \in SUBSET Datom /\ db[ns].tx \in Int
    BY <2>1 DEF NsState
  <2>3. eUnique' \subseteq Int
    <3>1. PICK junk : eUnique' = EntitiesWith(db[ns].aetv, db[ns].tx, db_unique,
                                              db_unique_yes, junk)
      BY <1>3, Zenon DEF transact_begin
    <3> QED
      BY <2>2, <3>1, EntitiesType DEF db_unique
  <2>4. eRef' \subseteq Int
    <3>1. query_a(db[ns].aetv, db[ns].tx, db_type) \subseteq Datom
      BY <2>2, QuerySubset DEF db_type
    <3> QED
      BY <1>3, <3>1, Zenon DEF transact_begin, Datom
  <2>5. facts \in Seq(Seq(Json))
    BY RequestType, Zenon
  <2> QED
    BY <1>3, <2>1, <2>3, <2>4, <2>5, SMTT(30) DEF transact_begin, TypeOK, reader
<1>4. CASE fact_refused
  BY <1>4, AbortType, Zenon DEF fact_refused
<1>5. CASE fact_skipped
  <2>1. Head(todo) \in Seq(Json) /\ Tail(todo) \in Seq(Seq(Json))
    BY <1>5 DEF fact_skipped, TypeOK
  <2>2. EntityAlloc(Head(todo)) \in AllocState
    BY <1>5, <2>1, EntityAllocType, Zenon DEF fact_skipped
  <2>3. work' \in NsState /\ newIds' \subseteq TempId
    BY <1>5, <2>2, Zenon DEF fact_skipped, TypeOK, NsState, AllocState
  <2> QED
    BY <1>5, <2>1, <2>3, Zenon DEF fact_skipped, TypeOK, reader
<1>6. CASE fact_put
  <2> DEFINE f == Head(todo)
             d == DatomOf(f)
  <2>1. f \in Seq(Json) /\ Tail(todo) \in Seq(Seq(Json))
    BY <1>6 DEF fact_put, TypeOK
  <2>2. ValueAlloc(f) \in AllocState /\ d \in Datom
    BY <1>6, <2>1, ValueAllocType, DatomOfType, Zenon DEF fact_put
  <2>3. UniqueAfter(d) \subseteq UniqueEntry
    BY <2>2, UniqueAfterType, Zenon
  <2>4. work' \in NsState
    BY <1>6, <2>2, <2>3, Zenon DEF fact_put, TypeOK, NsState, AllocState
  <2>5. newFacts' \in Seq(Datom) /\ newIds' \subseteq TempId
    BY <1>6, <2>2 DEF fact_put, TypeOK, AllocState
  <2> QED
    BY <1>6, <2>1, <2>4, <2>5, Zenon DEF fact_put, TypeOK, reader
<1>7. CASE transact_commit
  <2>1. [work EXCEPT !.tx = @ + 1] \in NsState
    <3>1. work \in NsState
      BY Zenon DEF TypeOK
    <3> QED
      BY <3>1 DEF NsState
  <2>2. DOMAIN db' = DOMAIN db /\ db' \in [DOMAIN db -> NsState]
    BY <1>7, <2>1, Zenon DEF transact_commit, TypeOK
  <2>3. wns \in Int /\ work.tx \in Int
    BY DEF TypeOK, NsState, Namespaces
  <2>4. reply' \in Reply
    BY <1>7, <2>3, Zenon DEF transact_commit, Reply, TypeOK
  <2> QED
    BY <1>7, <2>2, <2>4, WriterDoneType, Zenon DEF transact_commit, TypeOK, reader
<1>8. CASE transact_fail
  BY <1>8, AbortType, Zenon DEF transact_fail
<1>9. ASSUME NEW r \in Readers, NEW ns \in Selected, NEW arg \in ReadArgs,
             facts_renew(r, ns, arg)
      PROVE  TypeOK'
  <2>1. [pc |-> "scan", ns |-> ns, arg |-> arg, snap |-> db[ns]] \in Reading
    BY <1>9 DEF facts_renew, exists, TypeOK, Reading
  <2> QED
    BY <1>9, <2>1, Zenon DEF facts_renew, TypeOK, writer
<1>10. ASSUME NEW r \in Readers, facts_scan(r) PROVE TypeOK'
  <2>1. rd[r] \in Reading /\ rd[r].snap \in NsState
    BY Zenon DEF TypeOK, Reading
  <2>2. AskedTx(r) \in Int /\ rd[r].snap.tx \in Int /\ rd[r].ns \in Int
    BY <2>1 DEF AskedTx, Reading, NsState
  <2>3. \A junk : FactsAt(rd[r].snap, AskedTx(r), junk) \subseteq Datom
    BY <2>1, <2>2, FactsSubset, Zenon DEF NsState
  <2>4. answer' \in [Readers -> Answer]
    BY <1>10, <2>2, <2>3, SMTT(30) DEF facts_scan, Answer, TypeOK
  <2>5. rd' \in [Readers -> Reading]
    BY <1>10, FreshType DEF facts_scan, NotReading, Reading, TypeOK
  <2> QED
    BY <1>10, <2>4, <2>5, Zenon DEF facts_scan, TypeOK, writer
<1>11. CASE crash
  <2>1. rd' \in [Readers -> Reading]
    BY <1>11, FreshType DEF crash, NotReading, Reading
  <2> QED
    BY <1>11, <2>1, WriterDoneType, Zenon DEF crash, TypeOK
<1>12. CASE UNCHANGED vars
  BY <1>12, Zenon DEF vars, writer, reader, TypeOK
<1> QED
  BY <1>1, <1>2, <1>3, <1>4, <1>5, <1>6, <1>7, <1>8, <1>9, <1>10, <1>11, <1>12, Zenon
  DEF Next

(* Every reachable state is well typed: in particular namespace 0 always   *)
(* exists, and what handle_transact stores is a key whatever was sent.     *)
THEOREM TypeCorrect == Spec => []TypeOK
  BY TypeInit, TypeStep, PTL DEF Spec

HIDE StoreAssumption

-----------------------------------------------------------------------------
(* Later states of a namespace. *)

(* A namespace continues itself. *)
LEMMA ContinuesRefl == ASSUME NEW s \in NsState PROVE Continues(s, s)
  BY DEF Continues, NewerOnly, NsState

(* A later state of a later state is a later state. *)
LEMMA ContinuesTrans ==
  ASSUME NEW s1 \in NsState, NEW s2 \in NsState, NEW s3 \in NsState,
         Continues(s1, s2), Continues(s2, s3)
  PROVE  Continues(s1, s3)
<1>1. s1.tx \in Nat /\ s2.tx \in Nat /\ s3.tx \in Nat
  BY Zenon DEF NsState
<1>2. \A d \in s3.eatv \cup s3.aetv : d.t \in Int
  BY Zenon DEF NsState, Datom
<1>3. NewerOnly(s1.eatv, s3.eatv, s1.tx)
  BY <1>1, <1>2 DEF Continues, NewerOnly
<1>4. NewerOnly(s1.aetv, s3.aetv, s1.tx)
  BY <1>1, <1>2 DEF Continues, NewerOnly
<1> QED
  BY <1>1, <1>3, <1>4 DEF Continues

(* The bound of a read is an integer, for every argument. *)
LEMMA ReadBoundType ==
  ASSUME NEW tx \in Int
  PROVE  ReadBound(tx) \in Int /\ ReadBound(tx) <= 2 * tx + 1
  BY TxWrapAssumption DEF ReadBound

(* A read that is bounded below the stamps a later state may add sees the  *)
(* same datoms there.                                                      *)
LEMMA UpToStable ==
  ASSUME NEW s \in NsState, NEW s2 \in NsState, Continues(s, s2),
         NEW tx \in Int, ReadBound(tx) < 2 * s.tx
  PROVE  UpTo(s2.eatv, tx) = UpTo(s.eatv, tx) /\ UpTo(s2.aetv, tx) = UpTo(s.aetv, tx)
<1>1. s.tx \in Nat /\ ReadBound(tx) \in Int
  BY ReadBoundType, Zenon DEF NsState
<1>2. \A d \in s2.eatv \cup s2.aetv : d.t \in Int
  BY Zenon DEF NsState, Datom
<1>3. UpTo(s2.eatv, tx) = UpTo(s.eatv, tx)
  BY <1>1, <1>2 DEF UpTo, Continues, NewerOnly
<1>4. UpTo(s2.aetv, tx) = UpTo(s.aetv, tx)
  BY <1>1, <1>2 DEF UpTo, Continues, NewerOnly
<1> QED
  BY <1>3, <1>4, Zenon

(* Reads below META_TX see only what was there already. *)
LEMMA FactsStable ==
  ASSUME NEW s \in NsState, NEW s2 \in NsState, Continues(s, s2),
         NEW tx \in Int, ReadBound(tx) < 2 * s.tx, NEW junk
  PROVE  FactsAt(s2, tx, junk) = FactsAt(s, tx, junk)
  BY UpToStable, FactsDependOnUpTo

-----------------------------------------------------------------------------
(* Steps of the store. *)

(* A committed transaction continues the namespace. *)
LEMMA CommitContinues ==
  ASSUME TypeOK, WorkInv, transact_commit
  PROVE  /\ DOMAIN db' = DOMAIN db
         /\ \A ns \in DOMAIN db : ns # wns => db'[ns] = db[ns]
         /\ db'[wns].tx = db[wns].tx + 1
         /\ db'[wns].eatv = work.eatv
         /\ db'[wns].aetv = work.aetv
         /\ Continues(db[wns], db'[wns])
<1>1. db[wns] \in NsState /\ work \in NsState /\ wns \in DOMAIN db
  BY Zenon DEF TypeOK
<1>2. db' = [db EXCEPT ![wns] = [work EXCEPT !.tx = @ + 1]]
  BY Zenon DEF transact_commit
<1>3. db'[wns] = [work EXCEPT !.tx = @ + 1]
  BY <1>1, <1>2, Zenon DEF TypeOK
<1>4. /\ db'[wns].tx = work.tx + 1
      /\ db'[wns].eatv = work.eatv
      /\ db'[wns].aetv = work.aetv
  BY <1>1, <1>3, Zenon DEF NsState
<1>5. work.tx = db[wns].tx /\ Continues(db[wns], work)
  BY Zenon DEF WorkInv, transact_commit
<1>6. Continues(db[wns], db'[wns])
  BY <1>1, <1>4, <1>5 DEF Continues, NsState
<1> QED
  BY <1>1, <1>2, <1>4, <1>5, <1>6, Zenon DEF TypeOK

(* No step of any thread, nor a crash, changes a namespace but by          *)
(* continuing it.                                                          *)
LEMMA StepContinues ==
  ASSUME TypeOK, WorkInv, [Next]_vars
  PROVE  \A ns \in DOMAIN db : ns \in DOMAIN db' /\ Continues(db[ns], db'[ns])
<1>1. \A ns \in DOMAIN db : Continues(db[ns], db[ns])
  BY ContinuesRefl, Zenon DEF TypeOK
<1>2. ASSUME NEW n \in NsArgs, handle_namespace(n)
      PROVE  \A ns \in DOMAIN db : ns \in DOMAIN db' /\ db'[ns] = db[ns]
  BY <1>2, Zenon DEF handle_namespace, exists
<1>3. CASE transact_commit
  BY <1>1, <1>3, CommitContinues, Zenon DEF TypeOK
<1>4. CASE UNCHANGED db
  BY <1>1, <1>4, Zenon
<1> QED
  BY <1>1, <1>2, <1>3, <1>4, Zenon
  DEF Next, transact_reject, transact_begin, fact_refused, fact_skipped, fact_put,
      transact_fail, Abort, facts_renew, facts_scan, crash, vars

-----------------------------------------------------------------------------
(* The parts of the invariant, one lemma each. *)

(* Basic facts carry the stamp of transaction 0. *)
LEMMA FreshStamps == StampsBelow(Fresh, 1) /\ Fresh.tx = 1
<1>1. \A d \in BasicFacts : d.t = 0
  BY DEF BasicFacts
<1> QED
  BY <1>1 DEF Fresh, StampsBelow

(* Committed stamps stay below META_TX. *)
LEMMA DbInvStep == TypeOK /\ DbInv /\ WorkInv /\ [Next]_vars => DbInv'
<1> SUFFICES ASSUME TypeOK, DbInv, WorkInv, [Next]_vars PROVE DbInv'
  BY Zenon
<1> USE DEF DbInv
<1>1. ASSUME NEW n \in NsArgs, handle_namespace(n) PROVE DbInv'
  <2>1. \A ns \in DOMAIN db' : \/ ns \in DOMAIN db /\ db'[ns] = db[ns]
                               \/ db'[ns] = Fresh
    BY <1>1, Zenon DEF handle_namespace, exists
  <2>2. 1 <= MaxTx + 1
    BY StoreAssumption, TxWrapAssumption
  <2> QED
    BY <2>1, <2>2, FreshStamps, Zenon
<1>2. CASE transact_commit
  <2>1. work.tx = db[wns].tx /\ work.tx <= MaxTx /\ StampsBelow(work, work.tx + 1)
    BY <1>2, Zenon DEF WorkInv, transact_commit
  <2>2. work.tx \in Nat /\ MaxTx \in Nat
    BY StoreAssumption, TxWrapAssumption DEF TypeOK, NsState
  <2>3. db'[wns].tx = work.tx + 1 /\ db'[wns].tx <= MaxTx + 1
    BY <1>2, <2>1, <2>2, CommitContinues
  <2>4. StampsBelow(db'[wns], db'[wns].tx)
    BY <1>2, <2>1, <2>3, CommitContinues, Zenon DEF StampsBelow
  <2> QED
    BY <1>2, <2>3, <2>4, CommitContinues, Zenon
<1>3. CASE UNCHANGED db
  BY <1>3, Zenon
<1> QED
  BY <1>1, <1>2, <1>3, Zenon
  DEF Next, transact_reject, transact_begin, fact_refused, fact_skipped, fact_put,
      transact_fail, Abort, facts_renew, facts_scan, crash, vars

(* Storing one more fact of the transaction. *)
LEMMA PutKeepsWork ==
  ASSUME TypeOK, WorkInv, fact_put
  PROVE  WorkInv'
<1> DEFINE f == Head(todo)
           d == DatomOf(f)
<1>1. f \in Seq(Json) /\ WellFormed(f) /\ f[3].kind # "other" /\ wpc = "facts"
  BY DEF fact_put, TypeOK
<1>2. d \in Datom /\ d.t \in {2 * work.tx, 2 * work.tx + 1}
  BY <1>1, DatomOfType, Zenon
<1> HIDE DEF d
<1>3. work \in NsState /\ work.tx \in Nat /\ db[wns] \in NsState
  BY Zenon DEF TypeOK, NsState
<1>4. /\ work'.tx = work.tx
      /\ work'.eatv = work.eatv \cup {d}
      /\ work'.aetv \in {work.aetv, work.aetv \cup {d}}
      /\ newFacts' = Append(newFacts, d)
      /\ db' = db /\ wns' = wns
  BY <1>3, Zenon DEF fact_put, NsState, d
<1>5. /\ work.tx = db[wns].tx
      /\ work.tx <= MaxTx
      /\ Continues(db[wns], work)
      /\ StampsBelow(work, work.tx + 1)
      /\ {x \in work.eatv : x.t >= 2 * work.tx}
           = {newFacts[i] : i \in DOMAIN newFacts}
  BY <1>1, Zenon DEF WorkInv
<1>6. Continues(db[wns], work')
  BY <1>2, <1>3, <1>4, <1>5, SMTT(30) DEF Continues, NewerOnly
<1>7. StampsBelow(work', work.tx + 1)
  BY <1>2, <1>3, <1>4, <1>5, SMTT(30) DEF StampsBelow
<1>8. {newFacts'[i] : i \in DOMAIN newFacts'}
      = {newFacts[i] : i \in DOMAIN newFacts} \cup {d}
  <2>1. newFacts \in Seq(Datom) /\ d \in Datom
    BY <1>2, Zenon DEF TypeOK
  <2>2. /\ DOMAIN newFacts = 1 .. Len(newFacts) /\ Len(newFacts) \in Nat
        /\ DOMAIN newFacts' = 1 .. Len(newFacts) + 1
    BY <1>4, <2>1
  <2>3. /\ \A i \in 1 .. Len(newFacts) : newFacts'[i] = newFacts[i]
        /\ newFacts'[Len(newFacts) + 1] = d
    BY <1>4, <2>1
  <2> QED
    BY <2>2, <2>3
<1>9. {x \in work'.eatv : x.t >= 2 * work.tx}
      = {x \in work.eatv : x.t >= 2 * work.tx} \cup {d}
  BY <1>2, <1>3, <1>4
<1> QED
  BY <1>4, <1>5, <1>6, <1>7, <1>8, <1>9, Zenon DEF WorkInv

(* A write transaction adds only its own stamps. *)
LEMMA WorkInvStep == TypeOK /\ DbInv /\ WorkInv /\ [Next]_vars => WorkInv'
<1> SUFFICES ASSUME TypeOK, DbInv, WorkInv, [Next]_vars PROVE WorkInv'
  BY Zenon
<1>1. ASSUME NEW ns \in Selected, NEW facts \in Requests, transact_begin(ns, facts)
      PROVE  WorkInv'
  <2>1. /\ ns \in DOMAIN db /\ db[ns] \in NsState
        /\ db' = db /\ wns' = ns /\ work' = db[ns] /\ newFacts' = <<>>
        /\ db[ns].tx <= MaxTx
    BY <1>1, Zenon DEF transact_begin, exists, TypeOK
  <2>2. db[ns].tx \in Nat /\ \A d \in db[ns].eatv \cup db[ns].aetv : d.t \in Int
    BY <2>1, Zenon DEF NsState, Datom
  <2>3. StampsBelow(db[ns], db[ns].tx)
    BY <2>1, Zenon DEF DbInv
  <2>4. StampsBelow(db[ns], db[ns].tx + 1)
    BY <2>2, <2>3 DEF StampsBelow
  <2>5. {d \in db[ns].eatv : d.t >= 2 * db[ns].tx} = {}
    BY <2>2, <2>3 DEF StampsBelow
  <2>6. {newFacts'[i] : i \in DOMAIN newFacts'} = {}
    BY <2>1
  <2> QED
    BY <2>1, <2>4, <2>5, <2>6, ContinuesRefl, Zenon DEF WorkInv
<1>2. CASE fact_skipped
  <2>1. /\ work'.tx = work.tx /\ work'.eatv = work.eatv /\ work'.aetv = work.aetv
        /\ UNCHANGED <<db, wns, newFacts, wpc>>
    BY <1>2, Zenon DEF fact_skipped, TypeOK, NsState
  <2> QED
    BY <2>1, Zenon DEF WorkInv, Continues, StampsBelow
<1>3. CASE fact_put
  BY <1>3, PutKeepsWork, Zenon
<1>4. CASE wpc' = "idle"
  BY <1>4, Zenon DEF WorkInv
<1>5. CASE UNCHANGED <<db, wpc, wns, work, newFacts>>
  BY <1>5, ZenonT(30) DEF WorkInv
<1> QED
  BY <1>1, <1>2, <1>3, <1>4, <1>5, Zenon
  DEF Next, handle_namespace, transact_reject, fact_refused, transact_commit,
      transact_fail, Abort, WriterDone, facts_renew, facts_scan, crash, vars, writer

(* Resolving a temporary id moves META_ID over the ids handed out. *)
IdsFrom(lo, s) ==
  /\ lo <= s.next
  /\ {p.id : p \in s.ids} = lo .. s.next - 1
  /\ \A p, q \in s.ids : p.tmp = q.tmp <=> p.id = q.id

(* One resolution extends the range of ids by at most one. *)
LEMMA AllocKeepsIds ==
  ASSUME NEW s \in AllocState, NEW i \in Int, NEW lo \in Nat, IdsFrom(lo, s)
  PROVE  IdsFrom(lo, Alloc(s, i))
<1>1. CASE Alloc(s, i) = s
  BY <1>1, Zenon
<1>2. CASE Alloc(s, i) # s
  <2> DEFINE p0 == [tmp |-> i, id |-> s.next]
  <2>1. /\ Alloc(s, i).ids = s.ids \cup {p0}
        /\ Alloc(s, i).next = s.next + 1
        /\ \A p \in s.ids : p.tmp # i
    BY <1>2, Zenon DEF Alloc
  <2>2. s.next \in Nat /\ p0.id = s.next /\ p0.tmp = i
    BY Zenon DEF AllocState
  <2>3. \A p \in s.ids : p.id \in lo .. s.next - 1
    BY Zenon DEF IdsFrom
  <2> HIDE DEF p0
  <2>4. {p.id : p \in Alloc(s, i).ids} = {p.id : p \in s.ids} \cup {s.next}
    BY <2>1, <2>2, ZenonT(30)
  <2>5. {p.id : p \in Alloc(s, i).ids} = lo .. Alloc(s, i).next - 1
    BY <2>1, <2>2, <2>4, SMTT(30) DEF IdsFrom
  <2>6. \A p, q \in Alloc(s, i).ids : p.tmp = q.tmp <=> p.id = q.id
    BY <2>1, <2>2, <2>3 DEF IdsFrom
  <2> QED
    BY <2>1, <2>2, <2>5, <2>6 DEF IdsFrom
<1> QED
  BY <1>1, <1>2, Zenon

(* The ids handed out are the range META_ID moved over. *)
LEMMA IdsInvStep == TypeOK /\ IdsInv /\ [Next]_vars => IdsInv'
<1> SUFFICES ASSUME TypeOK, IdsInv, [Next]_vars PROVE IdsInv'
  BY Zenon
<1> DEFINE s0 == [ids |-> newIds, next |-> work.id]
           f  == Head(todo)
<1>1. s0 \in AllocState /\ db[wns].id \in Nat
  BY Zenon DEF TypeOK, AllocState, NsState
<1>2. wpc = "facts" => IdsFrom(db[wns].id, s0)
  BY Zenon DEF IdsInv, IdsFrom
<1>3. ASSUME wpc = "facts", f \in Seq(Json), WellFormed(f)
      PROVE  /\ IdsFrom(db[wns].id, EntityAlloc(f))
             /\ IdsFrom(db[wns].id, ValueAlloc(f))
  <2>1. f[1].i \in Int /\ f[3].i \in Int
    BY <1>3, ColumnType, Zenon DEF Json
  <2>2. EntityAlloc(f) = Alloc(s0, f[1].i)
    BY Zenon DEF EntityAlloc
  <2>3. IdsFrom(db[wns].id, EntityAlloc(f))
    BY <1>1, <1>2, <1>3, <2>1, <2>2, AllocKeepsIds, Zenon
  <2>4. EntityAlloc(f) \in AllocState
    BY <1>3, EntityAllocType, Zenon
  <2> QED
    BY <1>1, <2>1, <2>3, <2>4, AllocKeepsIds, Zenon DEF ValueAlloc
<1>4. ASSUME NEW ns \in Selected, NEW facts \in Requests, transact_begin(ns, facts)
      PROVE  IdsInv'
  <2>1. db' = db /\ wns' = ns /\ work' = db[ns] /\ newIds' = {} /\ db[ns].id \in Nat
    BY <1>4, Zenon DEF transact_begin, exists, TypeOK, NsState
  <2> QED
    BY <2>1 DEF IdsInv
<1>5. CASE fact_skipped
  <2>1. wpc = "facts" /\ f \in Seq(Json) /\ WellFormed(f)
    BY <1>5 DEF fact_skipped, TypeOK
  <2>2. /\ work'.id = EntityAlloc(f).next /\ newIds' = EntityAlloc(f).ids
        /\ db' = db /\ wns' = wns
    BY <1>5, Zenon DEF fact_skipped, TypeOK, NsState
  <2> QED
    BY <1>3, <2>1, <2>2, Zenon DEF IdsInv, IdsFrom
<1>6. CASE fact_put
  <2>1. wpc = "facts" /\ f \in Seq(Json) /\ WellFormed(f)
    BY <1>6 DEF fact_put, TypeOK
  <2>2. /\ work'.id = ValueAlloc(f).next /\ newIds' = ValueAlloc(f).ids
        /\ db' = db /\ wns' = wns
    BY <1>6, Zenon DEF fact_put, TypeOK, NsState
  <2> QED
    BY <1>3, <2>1, <2>2, Zenon DEF IdsInv, IdsFrom
<1>7. CASE wpc' = "idle"
  BY <1>7, Zenon DEF IdsInv
<1>8. CASE UNCHANGED <<db, wpc, wns, work, newIds>>
  BY <1>8, Zenon DEF IdsInv
<1> QED
  BY <1>4, <1>5, <1>6, <1>7, <1>8, Zenon
  DEF Next, handle_namespace, transact_reject, fact_refused, transact_commit,
      transact_fail, Abort, WriterDone, facts_renew, facts_scan, crash, vars, writer

(* The transaction of a datom, from bounds on its stamp. *)
LEMMA HalfOfStamp ==
  ASSUME NEW t \in Int, NEW n \in Int
  PROVE  t \div 2 = n <=> 2 * n <= t /\ t < 2 * (n + 1)
  OBVIOUS

(* Acknowledgements without a body name no transaction. *)
LEMMA AckTx == ACK_OK.tx = 0 /\ ACK_ERR.tx = 0
  BY Zenon DEF ACK_OK, ACK_ERR, NoReply

(* The last response stays true while later transactions commit. *)
LEMMA ReplyInvStep == TypeOK /\ WorkInv /\ ReplyInv /\ [Next]_vars => ReplyInv'
<1> SUFFICES ASSUME TypeOK, WorkInv, ReplyInv, [Next]_vars PROVE ReplyInv'
  BY Zenon
<1>1. CASE transact_commit
  <2>1. /\ work.tx = db[wns].tx /\ work.tx \in Nat
        /\ StampsBelow(work, work.tx + 1)
        /\ {d \in work.eatv : d.t >= 2 * work.tx}
             = {newFacts[i] : i \in DOMAIN newFacts}
    BY <1>1, Zenon DEF WorkInv, transact_commit, TypeOK, NsState
  <2>2. \A d \in work.eatv : d.t \in Int /\ d.t < 2 * (work.tx + 1)
    BY <2>1, Zenon DEF TypeOK, NsState, Datom, StampsBelow
  <2>3. \A d \in work.eatv : TxOf(d) = work.tx <=> d.t >= 2 * work.tx
    <3>1. TAKE d \in work.eatv
    <3>2. d.t \in Int /\ work.tx \in Int /\ d.t < 2 * (work.tx + 1)
      BY <2>1, <2>2
    <3>3. d.t \div 2 = work.tx <=> 2 * work.tx <= d.t /\ d.t < 2 * (work.tx + 1)
      BY <3>2, HalfOfStamp, Zenon
    <3> HIDE DEF TxOf
    <3>4. TxOf(d) = work.tx <=> 2 * work.tx <= d.t
      BY <3>2, <3>3, Zenon DEF TxOf
    <3> QED
      BY <3>2, <3>4, Zenon
  <2>4. {d \in work.eatv : TxOf(d) = work.tx} = {newFacts[i] : i \in DOMAIN newFacts}
    BY <2>1, <2>3, Zenon
  <2>5. reply'.ns = wns /\ reply'.tx = work.tx /\ reply'.facts = newFacts
    BY <1>1, Zenon DEF transact_commit
  <2>6. wns \in DOMAIN db' /\ work.tx < db'[wns].tx /\ db'[wns].eatv = work.eatv
    BY <1>1, <2>1, CommitContinues DEF TypeOK
  <2> QED
    BY <2>4, <2>5, <2>6, ZenonT(30) DEF ReplyInv, ResponseIsStored
<1>2. CASE reply' = ACK_OK \/ reply' = ACK_ERR
  BY <1>2, AckTx DEF ReplyInv
<1>3. CASE UNCHANGED <<db, reply>>
  BY <1>3 DEF ReplyInv, ResponseIsStored
<1> QED
  BY <1>1, <1>2, <1>3, Zenon
  DEF Next, handle_namespace, transact_reject, transact_begin, fact_refused,
      fact_skipped, fact_put, transact_fail, Abort, facts_renew, facts_scan,
      crash, vars

(* A snapshot stays a part of the history while it is read. *)
LEMMA ReaderInvStep ==
  TypeOK /\ TypeOK' /\ DbInv /\ WorkInv /\ ReaderInv /\ [Next]_vars => ReaderInv'
<1> SUFFICES ASSUME TypeOK, TypeOK', DbInv, WorkInv, ReaderInv, [Next]_vars,
                    NEW r \in Readers, rd'[r].pc = "scan"
             PROVE  /\ rd'[r].ns \in DOMAIN db'
                    /\ rd'[r].arg \in ReadArgs
                    /\ rd'[r].snap.tx <= TxWrap
                    /\ StampsBelow(rd'[r].snap, rd'[r].snap.tx)
                    /\ Continues(rd'[r].snap, db'[rd'[r].ns])
  BY Zenon DEF ReaderInv
<1>1. CASE rd'[r] = rd[r]
  <2>1. /\ rd[r].ns \in DOMAIN db
        /\ rd[r].arg \in ReadArgs
        /\ rd[r].snap.tx <= TxWrap
        /\ StampsBelow(rd[r].snap, rd[r].snap.tx)
        /\ Continues(rd[r].snap, db[rd[r].ns])
    BY <1>1, Zenon DEF ReaderInv
  <2>2. rd[r].ns \in DOMAIN db' /\ Continues(db[rd[r].ns], db'[rd[r].ns])
    BY <2>1, StepContinues, Zenon
  <2>3. /\ rd[r].snap \in NsState
        /\ db[rd[r].ns] \in NsState
        /\ db'[rd[r].ns] \in NsState
    BY <2>1, <2>2, Zenon DEF TypeOK, Reading
  <2>4. Continues(rd[r].snap, db'[rd[r].ns])
    BY <2>1, <2>2, <2>3, ContinuesTrans, Zenon
  <2> QED
    BY <1>1, <2>1, <2>2, <2>4, Zenon
<1>2. ASSUME NEW ns \in Selected, NEW arg \in ReadArgs, facts_renew(r, ns, arg)
      PROVE  /\ rd'[r].ns \in DOMAIN db'
             /\ rd'[r].arg \in ReadArgs
             /\ rd'[r].snap.tx <= TxWrap
             /\ StampsBelow(rd'[r].snap, rd'[r].snap.tx)
             /\ Continues(rd'[r].snap, db'[rd'[r].ns])
  <2>1. /\ rd'[r] = [pc |-> "scan", ns |-> ns, arg |-> arg, snap |-> db[ns]]
        /\ ns \in DOMAIN db /\ db' = db
    BY <1>2, Zenon DEF facts_renew, exists, TypeOK
  <2>2. db[ns] \in NsState /\ db[ns].tx \in Nat
    BY <2>1, Zenon DEF TypeOK, NsState
  <2>3. db[ns].tx <= MaxTx + 1 /\ StampsBelow(db[ns], db[ns].tx)
    BY <2>1, Zenon DEF DbInv
  <2>4. MaxTx + 1 <= TxWrap /\ MaxTx \in Int /\ TxWrap \in Int
    BY StoreAssumption, TxWrapAssumption
  <2>5. db[ns].tx <= TxWrap
    BY <2>2, <2>3, <2>4
  <2> QED
    BY <2>1, <2>2, <2>3, <2>5, ContinuesRefl
<1>3. ASSUME NEW q \in Readers, facts_scan(q) PROVE rd'[r] = rd[r]
  BY <1>3, Zenon DEF facts_scan, TypeOK, NotReading
<1>4. ASSUME NEW q \in Readers, NEW ns \in Selected, NEW arg \in ReadArgs,
             facts_renew(q, ns, arg), q # r
      PROVE  rd'[r] = rd[r]
  BY <1>4, Zenon DEF facts_renew, TypeOK
<1>5. CASE crash
  BY <1>5, Zenon DEF crash, NotReading
<1>6. CASE UNCHANGED rd
  BY <1>1, <1>6, Zenon
<1> QED
  BY <1>1, <1>2, <1>3, <1>4, <1>5, <1>6, Zenon
  DEF Next, handle_namespace, transact_reject, transact_begin, fact_refused,
      fact_skipped, fact_put, transact_commit, transact_fail, Abort, vars, reader

(* The answer a scan computes: where its bound lies, and that it is the    *)
(* answer of the store as it is now.                                       *)
LEMMA ScanAnswer ==
  ASSUME TypeOK, ReaderInv, NEW r \in Readers, facts_scan(r)
  PROVE  /\ answer'[r].ns \in DOMAIN db
         /\ ReadBound(AsOf(answer'[r])) < 2 * db[answer'[r].ns].tx
         /\ \E junk \in JunkChoices(db[answer'[r].ns].aetv, db_cardinality) :
              answer'[r].facts = FactsAt(db[answer'[r].ns], AsOf(answer'[r]), junk)
<1> DEFINE s  == rd[r].snap
           n  == rd[r].ns
           tx == AskedTx(r)
<1>1. PICK junk \in JunkChoices(s.aetv, db_cardinality) :
        answer' = [answer EXCEPT ![r] =
                     [ns |-> n, tx |-> tx, seen |-> s.tx,
                      facts |-> FactsAt(s, tx, junk)]]
  BY Zenon DEF facts_scan
<1>2. answer'[r] = [ns |-> n, tx |-> tx, seen |-> s.tx, facts |-> FactsAt(s, tx, junk)]
  BY <1>1, Zenon DEF TypeOK
<1>3. /\ n \in DOMAIN db /\ rd[r].arg \in ReadArgs /\ s.tx <= TxWrap
      /\ StampsBelow(s, s.tx) /\ Continues(s, db[n])
  BY Zenon DEF ReaderInv, facts_scan
<1>4. s \in NsState /\ db[n] \in NsState
  BY <1>3, Zenon DEF TypeOK, Reading
<1>5. /\ s.tx \in Nat /\ db[n].tx \in Nat /\ s.tx <= db[n].tx
      /\ \A d \in s.eatv \cup s.aetv : d.t \in Int
  BY <1>3, <1>4, Zenon DEF NsState, Datom, Continues
<1>6. TxWrap \in Nat \ {0} /\ rd[r].arg \in -2 * TxWrap .. 2 * TxWrap - 1
  BY <1>3, StoreAssumption, TxWrapAssumption, Zenon
<1>7. tx \in Int /\ tx < 2 * TxWrap
  <2> DEFINE arg == rd[r].arg
  <2>1. tx = IF arg < 0 THEN s.tx ELSE arg
    BY Zenon DEF AskedTx
  <2>2. /\ s.tx \in Nat /\ s.tx <= TxWrap /\ TxWrap \in Nat \ {0}
        /\ arg \in -2 * TxWrap .. 2 * TxWrap - 1
    BY <1>3, <1>5, <1>6, Zenon
  <2> HIDE DEF s, tx, arg
  <2> QED
    BY <2>1, <2>2
<1> DEFINE at == AsOf(answer'[r])
<1>8. at = IF tx \in s.tx .. TxWrap - 1 THEN s.tx - 1 ELSE tx
  <2>1. answer'[r].tx = tx /\ answer'[r].seen = s.tx
    BY <1>2
  <2> QED
    BY <2>1, Zenon DEF AsOf
<1> HIDE DEF s, n, tx, at
<1>9. at \in Int /\ ReadBound(at) < 2 * s.tx
  BY <1>5, <1>6, <1>7, <1>8 DEF ReadBound
<1>10. UpTo(s.eatv, at) = UpTo(s.eatv, tx) /\ UpTo(s.aetv, at) = UpTo(s.aetv, tx)
  <2>1. CASE tx \in s.tx .. TxWrap - 1
    <3>1. ReadBound(at) = 2 * s.tx - 1 /\ ReadBound(tx) = 2 * tx + 1 /\ tx >= s.tx
      BY <1>5, <1>6, <1>7, <1>8, <2>1 DEF ReadBound
    <3>2. \A d \in s.eatv \cup s.aetv : d.t <= ReadBound(at) /\ d.t <= ReadBound(tx)
      BY <1>3, <1>5, <1>7, <3>1 DEF StampsBelow
    <3> QED
      BY <3>2, Zenon DEF UpTo
  <2>2. CASE tx \notin s.tx .. TxWrap - 1
    BY <1>8, <2>2, Zenon
  <2> QED
    BY <2>1, <2>2, Zenon
<1>11. FactsAt(s, tx, junk) = FactsAt(db[n], at, junk)
  <2>1. FactsAt(s, at, junk) = FactsAt(s, tx, junk)
    BY <1>10, FactsDependOnUpTo
  <2>2. FactsAt(db[n], at, junk) = FactsAt(s, at, junk)
    BY <1>3, <1>4, <1>9, FactsStable, ZenonT(30)
  <2> QED
    BY <2>1, <2>2, Zenon
<1>12. junk \in JunkChoices(db[n].aetv, db_cardinality)
  BY <1>1, <1>3, Zenon DEF JunkChoices, Continues, NewerOnly
<1>13. answer'[r].ns = n /\ answer'[r].facts = FactsAt(s, tx, junk)
  BY <1>2
<1>14. ReadBound(at) < 2 * db[n].tx
  BY <1>5, <1>9, ReadBoundType
<1> QED
  BY <1>3, <1>11, <1>12, <1>13, <1>14, Zenon DEF at

(* An answer given earlier keeps its place in the history. *)
LEMMA OldAnswer ==
  ASSUME TypeOK, TypeOK', WorkInv, AnswerInv, [Next]_vars,
         NEW r \in Readers, answer'[r] = answer[r]
  PROVE  /\ answer'[r].ns \in DOMAIN db'
         /\ ReadBound(AsOf(answer'[r])) < 2 * db'[answer'[r].ns].tx
         /\ \A junk : FactsAt(db'[answer[r].ns], AsOf(answer[r]), junk)
                      = FactsAt(db[answer[r].ns], AsOf(answer[r]), junk)
         /\ JunkChoices(db[answer[r].ns].aetv, db_cardinality)
              \subseteq JunkChoices(db'[answer[r].ns].aetv, db_cardinality)
<1> DEFINE n  == answer[r].ns
           at == AsOf(answer[r])
<1>1. n \in DOMAIN db /\ ReadBound(at) < 2 * db[n].tx
  BY Zenon DEF AnswerInv
<1>2. n \in DOMAIN db' /\ Continues(db[n], db'[n])
  BY <1>1, StepContinues, Zenon
<1>3. db[n] \in NsState /\ db'[n] \in NsState
  BY <1>1, <1>2, Zenon DEF TypeOK
<1>4. at \in Int
  BY SMTT(30) DEF AsOf, TypeOK, Answer
<1> HIDE DEF n, at
<1>5. \A junk : FactsAt(db'[n], at, junk) = FactsAt(db[n], at, junk)
  BY <1>1, <1>2, <1>3, <1>4, FactsStable, Zenon
<1>6. db[n].tx \in Nat /\ db'[n].tx \in Nat /\ db[n].tx <= db'[n].tx
  BY <1>2, <1>3, Zenon DEF Continues, NsState
<1>7. ReadBound(at) < 2 * db'[n].tx
  BY <1>1, <1>4, <1>6, ReadBoundType, SMTT(30)
<1>8. JunkChoices(db[n].aetv, db_cardinality)
      \subseteq JunkChoices(db'[n].aetv, db_cardinality)
  BY <1>2, Zenon DEF Continues, NewerOnly, JunkChoices
<1> QED
  BY <1>2, <1>5, <1>7, <1>8, Zenon DEF n, at

(* Which answers a step changes. *)
LEMMA AnswerChange ==
  ASSUME TypeOK, [Next]_vars, NEW r \in Readers
  PROVE  answer'[r] = answer[r] \/ (facts_scan(r) /\ db' = db)
<1>1. ASSUME NEW q \in Readers, facts_scan(q)
      PROVE  answer'[r] = answer[r] \/ (facts_scan(r) /\ db' = db)
  BY <1>1, Zenon DEF facts_scan, TypeOK
<1>2. CASE UNCHANGED answer
  BY <1>2, Zenon
<1> QED
  BY <1>1, <1>2, Zenon
  DEF Next, handle_namespace, transact_reject, transact_begin, fact_refused,
      fact_skipped, fact_put, transact_commit, transact_fail, Abort, facts_renew,
      crash, vars, reader

(* Answers stay about settled transactions. *)
LEMMA AnswerInvStep ==
  TypeOK /\ TypeOK' /\ WorkInv /\ ReaderInv /\ AnswerInv /\ [Next]_vars => AnswerInv'
  BY AnswerChange, OldAnswer, ScanAnswer, Zenon DEF AnswerInv

(* Answers stay reproducible. *)
LEMMA ReproducibleStep ==
  TypeOK /\ TypeOK' /\ WorkInv /\ ReaderInv /\ AnswerInv /\ AnswersReproducible
    /\ [Next]_vars => AnswersReproducible'
<1> SUFFICES ASSUME TypeOK, TypeOK', WorkInv, ReaderInv, AnswerInv, AnswersReproducible,
                    [Next]_vars, NEW r \in Readers
             PROVE  \E junk \in JunkChoices(db'[answer'[r].ns].aetv, db_cardinality) :
                      answer'[r].facts = FactsAt(db'[answer'[r].ns], AsOf(answer'[r]), junk)
  BY Zenon DEF AnswersReproducible
<1>1. CASE answer'[r] = answer[r]
  <2>1. PICK junk \in JunkChoices(db[answer[r].ns].aetv, db_cardinality) :
          answer[r].facts = FactsAt(db[answer[r].ns], AsOf(answer[r]), junk)
    BY Zenon DEF AnswersReproducible
  <2>2. junk \in JunkChoices(db'[answer[r].ns].aetv, db_cardinality)
    BY <1>1, OldAnswer, Zenon
  <2>3. answer[r].facts = FactsAt(db'[answer[r].ns], AsOf(answer[r]), junk)
    BY <1>1, <2>1, OldAnswer, Zenon
  <2> QED
    BY <1>1, <2>2, <2>3, Zenon
<1>2. CASE facts_scan(r) /\ db' = db
  BY <1>2, ScanAnswer, Zenon
<1> QED
  BY <1>1, <1>2, AnswerChange, Zenon

-----------------------------------------------------------------------------
(* The theorems. *)

(* The invariant holds initially. *)
LEMMA HistoryInit == Init => HistoryInv /\ AnswersReproducible
<1> SUFFICES ASSUME Init PROVE HistoryInv /\ AnswersReproducible
  BY Zenon
<1>1. TypeOK
  BY TypeInit, Zenon
<1>2. DbInv
  BY FreshStamps, StoreAssumption, TxWrapAssumption DEF Init, DbInv
<1>3. WorkInv /\ IdsInv
  BY Zenon DEF Init, WriterIdle, WorkInv, IdsInv
<1>4. ReplyInv /\ ReaderInv
  BY DEF Init, NoReply, NotReading, ReplyInv, ReaderInv
<1>5. AsOf(NoAnswer) = -1 /\ ReadBound(-1) = -1
  BY TxWrapAssumption DEF AsOf, NoAnswer, ReadBound
<1>6. \A r \in Readers : answer[r] = NoAnswer /\ answer[r].ns = 0 /\ db[0] = Fresh
  BY Zenon DEF Init, NoAnswer
<1>7. AnswerInv
  BY <1>1, <1>5, <1>6, FreshStamps DEF AnswerInv, TypeOK
<1>8. AnswersReproducible
  <2>1. UpTo(Fresh.eatv, -1) = {}
    <3>1. \A d \in Fresh.eatv : d.t = 0
      <4>1. \A d \in BasicFacts : d.t = 0
        BY DEF BasicFacts
      <4> QED
        BY <4>1, Zenon DEF Fresh
    <3>2. ~(0 <= -1)
      OBVIOUS
    <3> QED
      BY <1>5, <3>1, <3>2, Zenon DEF UpTo
  <2>2. FactsAt(Fresh, -1, {}) = {}
    BY <2>1, Zenon DEF FactsAt, ScanFacts
  <2>3. {} \in JunkChoices(Fresh.aetv, db_cardinality)
    BY Zenon DEF JunkChoices
  <2> QED
    BY <1>5, <1>6, <2>2, <2>3 DEF AnswersReproducible, NoAnswer
<1> QED
  BY <1>2, <1>3, <1>4, <1>7, <1>8, Zenon DEF HistoryInv

(* Every action keeps the invariant. *)
LEMMA HistoryStep ==
  TypeOK /\ TypeOK' /\ HistoryInv /\ [Next]_vars => HistoryInv'
  BY DbInvStep, WorkInvStep, IdsInvStep, ReplyInvStep, ReaderInvStep, AnswerInvStep, Zenon
  DEF HistoryInv

(* The inductive invariant: a write transaction adds only datoms stamped   *)
(* with META_TX, above everything committed; the ids it hands out are      *)
(* those META_ID moves over; snapshots and answers are parts of the        *)
(* history.                                                                *)
THEOREM HistoryInvariant == Spec => [](TypeOK /\ HistoryInv)
<1>1. Init => TypeOK /\ HistoryInv
  BY TypeInit, HistoryInit, Zenon
<1>2. TypeOK /\ HistoryInv /\ [Next]_vars => (TypeOK /\ HistoryInv)'
  BY TypeStep, HistoryStep, Zenon
<1> QED
  BY <1>1, <1>2, PTL DEF Spec

(* Reads as of a completed transaction give the same facts for ever:       *)
(* nothing handle_transact, handle_namespace or a crash does changes what  *)
(* handle_facts answers for it.                                            *)
THEOREM HistoryImmutable == Spec => AsOfStable
<1>1. ASSUME TypeOK, TypeOK', HistoryInv, [Next]_vars
      PROVE  \A ns \in DOMAIN db :
               ns \in DOMAIN db' /\ KeepsHistory(db[ns], db'[ns])
  <2>1. TAKE ns \in DOMAIN db
  <2>2. ns \in DOMAIN db' /\ Continues(db[ns], db'[ns])
    BY <1>1, StepContinues, Zenon DEF HistoryInv
  <2>3. db[ns] \in NsState /\ db'[ns] \in NsState /\ db[ns].tx \in Nat
    BY <1>1, <2>2, Zenon DEF TypeOK, NsState
  <2>4. ASSUME NEW tx \in 0 .. db[ns].tx - 1, NEW junk
        PROVE  FactsAt(db'[ns], tx, junk) = FactsAt(db[ns], tx, junk)
    <3>1. tx \in Int /\ ReadBound(tx) < 2 * db[ns].tx
      BY <2>3, ReadBoundType
    <3> QED
      BY <2>2, <2>3, <3>1, FactsStable, ZenonT(30)
  <2> QED
    BY <2>2, <2>4, Zenon DEF KeepsHistory
<1> QED
  BY <1>1, HistoryInvariant, PTL DEF Spec, AsOfStable

(* A response lists exactly what the store keeps for its transaction. *)
THEOREM ResponseFaithful == Spec => []ResponseIsStored
<1>1. HistoryInv => ResponseIsStored
  BY Zenon DEF HistoryInv, ReplyInv, ResponseIsStored
<1> QED
  BY <1>1, HistoryInvariant, PTL

(* What a reader thread answered from its snapshot is what the store       *)
(* answers now and later for the same point of the history, whatever the   *)
(* writer did in between.                                                  *)
THEOREM ReadsReproducible == Spec => []AnswersReproducible
<1>1. Init => AnswersReproducible
  BY HistoryInit, Zenon
<1>2. /\ TypeOK /\ HistoryInv /\ TypeOK' /\ AnswersReproducible /\ [Next]_vars
      => AnswersReproducible'
  BY ReproducibleStep, Zenon DEF HistoryInv
<1> QED
  BY <1>1, <1>2, HistoryInvariant, PTL DEF Spec

(* No id is handed out by two transactions of a namespace, nor for two     *)
(* temporary ids of one.                                                   *)
THEOREM IdsFresh == Spec => IdsHandedOutOnce
<1> DEFINE Handed ==
      \A ns \in DOMAIN db : db'[ns].tx # db[ns].tx =>
        /\ {p.id : p \in reply'.ids} = db[ns].id .. db'[ns].id - 1
        /\ \A p, q \in reply'.ids : p.tmp = q.tmp <=> p.id = q.id
<1>1. ASSUME TypeOK, HistoryInv, [Next]_vars PROVE Handed
  <2>1. CASE transact_commit
    <3>1. reply'.ids = newIds /\ wns \in DOMAIN db /\ db'[wns].id = work.id
      BY <1>1, <2>1, Zenon DEF transact_commit, TypeOK, NsState
    <3>2. /\ {p.id : p \in newIds} = db[wns].id .. work.id - 1
          /\ \A p, q \in newIds : p.tmp = q.tmp <=> p.id = q.id
      BY <1>1, <2>1, Zenon DEF HistoryInv, IdsInv, transact_commit
    <3>3. \A ns \in DOMAIN db : ns # wns => db'[ns] = db[ns]
      BY <1>1, <2>1, CommitContinues, Zenon DEF HistoryInv
    <3> QED
      BY <3>1, <3>2, <3>3, Zenon
  <2>2. ASSUME NEW n \in NsArgs, handle_namespace(n) PROVE Handed
    BY <2>2, Zenon DEF handle_namespace, exists
  <2>3. CASE UNCHANGED db
    BY <2>3, Zenon
  <2> QED
    BY <1>1, <2>1, <2>2, <2>3, Zenon
    DEF Next, transact_reject, transact_begin, fact_refused, fact_skipped, fact_put,
        transact_fail, Abort, facts_renew, facts_scan, crash, vars
<1> QED
  BY <1>1, HistoryInvariant, PTL DEF Spec, IdsHandedOutOnce

(* setup fills AETV with the basic facts, all about schema attributes. *)
LEMMA FreshIndexed == SchemaIndexed(Fresh)
<1>1. \A d \in BasicFacts : d.a < db_initial_id
  BY DEF BasicFacts, db_ident, db_type, db_cardinality, db_unique, db_initial_id
<1> QED
  BY <1>1, Zenon DEF SchemaIndexed, Fresh

(* AETV always holds exactly the schema part of EATV, in the committed     *)
(* state and inside a transaction.                                         *)
THEOREM SchemaIndexExact == Spec => []SchemaIndexInSync
<1>1. Init => SchemaIndexInSync
  BY FreshIndexed, Zenon DEF Init, WriterIdle, SchemaIndexInSync
<1>2. ASSUME TypeOK, SchemaIndexInSync, [Next]_vars PROVE SchemaIndexInSync'
  <2> USE <1>2 DEF SchemaIndexInSync
  <2>1. ASSUME NEW n \in NsArgs, handle_namespace(n) PROVE SchemaIndexInSync'
    BY <2>1, FreshIndexed, Zenon DEF handle_namespace, exists, writer
  <2>2. ASSUME NEW ns \in Selected, NEW facts \in Requests, transact_begin(ns, facts)
        PROVE  SchemaIndexInSync'
    BY <2>2, Zenon DEF transact_begin, exists
  <2>3. CASE fact_skipped
    BY <2>3, Zenon DEF fact_skipped, SchemaIndexed, TypeOK, NsState
  <2>4. CASE fact_put
    <3> DEFINE d == DatomOf(Head(todo))
    <3>1. /\ work'.eatv = work.eatv \cup {d}
          /\ work'.aetv = IF IsSchema(d.a) THEN work.aetv \cup {d} ELSE work.aetv
          /\ db' = db
      BY <2>4, Zenon DEF fact_put, TypeOK, NsState
    <3> HIDE DEF d
    <3> QED
      BY <3>1, Zenon DEF SchemaIndexed, IsSchema
  <2>5. CASE transact_commit
    <3>1. SchemaIndexed([work EXCEPT !.tx = @ + 1])
      BY Zenon DEF SchemaIndexed, TypeOK, NsState
    <3>2. db' = [db EXCEPT ![wns] = [work EXCEPT !.tx = @ + 1]] /\ work' = Fresh
      BY <2>5, Zenon DEF transact_commit, WriterDone
    <3> QED
      BY <3>1, <3>2, FreshIndexed, Zenon DEF TypeOK
  <2>6. CASE work' = Fresh /\ db' = db
    BY <2>6, FreshIndexed, Zenon
  <2>7. CASE UNCHANGED <<db, work>>
    BY <2>7, Zenon
  <2> QED
    BY <2>1, <2>2, <2>3, <2>4, <2>5, <2>6, <2>7, Zenon
    DEF Next, transact_reject, fact_refused, transact_fail, Abort, WriterDone,
        facts_renew, facts_scan, crash, vars, writer
<1> QED
  BY <1>1, <1>2, TypeCorrect, PTL DEF Spec

-----------------------------------------------------------------------------
(* What the mapping needs of the store. *)

(* The datoms stamped before the first transaction are the basic facts. *)
BaseInv ==
  /\ \A ns \in DOMAIN db :
       db[ns].tx >= 1 /\ {d \in db[ns].eatv : d.t < 2} = BasicFacts
  /\ \A r \in Readers : rd[r].pc = "scan" => rd[r].snap.tx >= 1

(* A namespace that appears was just set up. *)
LEMMA NewNamespaceFresh ==
  ASSUME [Next]_vars, NEW ns \in DOMAIN db', ns \notin DOMAIN db
  PROVE  db'[ns] = Fresh
<1>1. ASSUME NEW n \in NsArgs, handle_namespace(n) PROVE db'[ns] = Fresh
  BY <1>1, Zenon DEF handle_namespace, exists
<1>2. CASE transact_commit
  BY <1>2, Zenon DEF transact_commit
<1> QED
  BY <1>1, <1>2, Zenon
  DEF Next, transact_reject, transact_begin, fact_refused, fact_skipped, fact_put,
      transact_fail, Abort, facts_renew, facts_scan, crash, vars

(* A namespace starts with the basic facts, and no transaction adds to     *)
(* them or removes any.                                                    *)
LEMMA BaseStep == TypeOK /\ TypeOK' /\ WorkInv /\ BaseInv /\ [Next]_vars => BaseInv'
<1> SUFFICES ASSUME TypeOK, TypeOK', WorkInv, BaseInv, [Next]_vars PROVE BaseInv'
  BY Zenon
<1>0. ASSUME NEW r \in Readers, rd'[r].pc = "scan" PROVE rd'[r].snap.tx >= 1
  <2>1. ASSUME NEW q \in Readers, NEW n \in Selected, NEW arg \in ReadArgs,
               facts_renew(q, n, arg)
        PROVE  rd'[r] = rd[r] \/ (n \in DOMAIN db /\ rd'[r].snap = db[n])
    BY <2>1, Zenon DEF facts_renew, exists, TypeOK
  <2>2. ASSUME NEW q \in Readers, facts_scan(q) \/ crash
        PROVE  rd'[r] = rd[r]
    BY <1>0, <2>2 DEF facts_scan, crash, NotReading, TypeOK
  <2>3. rd'[r] = rd[r] \/ \E n \in DOMAIN db : rd'[r].snap = db[n]
    BY <2>1, <2>2, Zenon
    DEF Next, handle_namespace, transact_reject, transact_begin, fact_refused,
        fact_skipped, fact_put, transact_commit, transact_fail, Abort, vars, reader
  <2> QED
    BY <1>0, <2>3, Zenon DEF BaseInv
<1> SUFFICES ASSUME NEW ns \in DOMAIN db'
             PROVE  db'[ns].tx >= 1 /\ {d \in db'[ns].eatv : d.t < 2} = BasicFacts
  BY <1>0, Zenon DEF BaseInv
<1>1. CASE ns \in DOMAIN db
  <2>1. Continues(db[ns], db'[ns])
    BY <1>1, StepContinues, Zenon
  <2>2. db[ns].tx >= 1 /\ {d \in db[ns].eatv : d.t < 2} = BasicFacts
    BY <1>1, Zenon DEF BaseInv
  <2>3. db[ns] \in NsState /\ db'[ns] \in NsState
    BY <1>1, Zenon DEF TypeOK
  <2>4. db[ns].tx \in Nat /\ db'[ns].tx \in Nat /\ \A d \in db'[ns].eatv : d.t \in Int
    BY <2>3, Zenon DEF NsState, Datom
  <2>5. db[ns].eatv \subseteq db'[ns].eatv
        /\ \A d \in db'[ns].eatv \ db[ns].eatv : d.t >= 2 * db[ns].tx
    BY <2>1, Zenon DEF Continues, NewerOnly
  <2>6. {d \in db'[ns].eatv : d.t < 2} = {d \in db[ns].eatv : d.t < 2}
    BY <2>2, <2>4, <2>5
  <2>7. db'[ns].tx >= 1
    BY <2>1, <2>2, <2>4 DEF Continues
  <2> QED
    BY <2>2, <2>6, <2>7, Zenon
<1>2. CASE ns \notin DOMAIN db
  <2>1. db'[ns] = Fresh
    BY <1>2, NewNamespaceFresh, Zenon
  <2> QED
    BY <2>1, FreshFacts
<1> QED
  BY <1>1, <1>2, Zenon

(* The basic facts stay as they are. *)
LEMMA BaseInvariant == Spec => []BaseInv
<1>1. Init => BaseInv
  BY FreshFacts DEF Init, BaseInv, NotReading
<1>2. TypeOK /\ HistoryInv /\ TypeOK' /\ BaseInv /\ [Next]_vars => BaseInv'
  BY BaseStep, Zenon DEF HistoryInv
<1> QED
  BY <1>1, <1>2, HistoryInvariant, PTL DEF Spec

-----------------------------------------------------------------------------
(* Prefixes of the log. *)

(* The transaction number in a stamp. *)
LEMMA TxOfStamp ==
  ASSUME NEW d, d.t \in Int
  PROVE  /\ TxOf(d) \in Int
         /\ \A i \in Int : TxOf(d) = i <=> 2 * i <= d.t /\ d.t < 2 * (i + 1)
  BY HalfOfStamp DEF TxOf

(* A cut is a sequence. *)
LEMMA CutSeq ==
  ASSUME NEW eatv, NEW n \in Nat
  PROVE  /\ Cut(eatv, n) \in Seq(SUBSET eatv)
         /\ Len(Cut(eatv, n)) = n
         /\ DOMAIN Cut(eatv, n) = 1 .. n
         /\ \A i \in 1 .. n : Cut(eatv, n)[i] = {d \in eatv : TxOf(d) = i}
  BY DEF Cut

(* A prefix of a cut is a shorter cut. *)
LEMMA CutPrefix ==
  ASSUME NEW eatv, NEW n \in Nat, NEW k \in 0 .. n
  PROVE  SubSeq(Cut(eatv, n), 1, k) = Cut(eatv, k)
<1>1. k \in Nat /\ \A i \in 1 .. k : i \in 1 .. n
  OBVIOUS
<1>2. SubSeq(Cut(eatv, n), 1, k) = [i \in 1 .. k |-> Cut(eatv, n)[i]]
  BY <1>1, CutSeq
<1> QED
  BY <1>1, <1>2, CutSeq, Zenon DEF Cut

(* The facts of a prefix. *)
LEMMA CutUnion ==
  ASSUME NEW eatv, NEW n \in Nat
  PROVE  UNION Log!Range(Cut(eatv, n)) = {d \in eatv : TxOf(d) \in 1 .. n}
<1> DEFINE c == Cut(eatv, n)
<1>1. ASSUME NEW d, d \in UNION Log!Range(c)
      PROVE  d \in eatv /\ TxOf(d) \in 1 .. n
  <2>1. PICK i \in DOMAIN c : d \in c[i]
    BY <1>1, Zenon DEF Log!Range
  <2>2. i \in 1 .. n /\ c[i] = {x \in eatv : TxOf(x) = i}
    BY <2>1, Zenon DEF Cut
  <2> QED
    BY <2>1, <2>2, Zenon
<1>2. ASSUME NEW d \in eatv, TxOf(d) \in 1 .. n
      PROVE  d \in UNION Log!Range(c)
  <2>1. TxOf(d) \in DOMAIN c /\ c[TxOf(d)] = {x \in eatv : TxOf(x) = TxOf(d)}
    BY <1>2, Zenon DEF Cut
  <2>2. d \in c[TxOf(d)]
    BY <2>1, Zenon
  <2> QED
    BY <2>1, <2>2, Zenon DEF Log!Range
<1> QED
  BY <1>1, <1>2, Zenon

(* The datoms of an earlier state of a namespace are those of the later    *)
(* one with stamps below its META_TX.                                      *)
LEMMA EarlierPart ==
  ASSUME NEW s \in NsState, NEW s2 \in NsState, Continues(s, s2), StampsBelow(s, s.tx)
  PROVE  /\ s.eatv = {d \in s2.eatv : d.t < 2 * s.tx}
         /\ s.aetv = {d \in s2.aetv : d.t < 2 * s.tx}
<1>1. s.tx \in Nat /\ \A d \in s2.eatv \cup s2.aetv : d.t \in Int
  BY Zenon DEF NsState, Datom
<1> QED
  BY <1>1 DEF Continues, NewerOnly, StampsBelow

(* The basic facts and the transactions of a prefix are what a state that  *)
(* completed just these held.                                              *)
LEMMA PrefixFacts ==
  ASSUME NEW s \in NsState, NEW s2 \in NsState, Continues(s, s2),
         StampsBelow(s, s.tx), s.tx >= 1,
         {d \in s2.eatv : d.t < 2} = BasicFacts
  PROVE  BasicFacts \cup UNION Log!Range(SubSeq(Cut(s2.eatv, s2.tx - 1), 1, s.tx - 1))
           = s.eatv
<1>1. s.tx - 1 \in Nat /\ s2.tx - 1 \in Nat /\ s.tx - 1 \in 0 .. s2.tx - 1
  BY DEF NsState, Continues
<1>2. UNION Log!Range(SubSeq(Cut(s2.eatv, s2.tx - 1), 1, s.tx - 1))
        = {d \in s2.eatv : TxOf(d) \in 1 .. s.tx - 1}
  <2>1. SubSeq(Cut(s2.eatv, s2.tx - 1), 1, s.tx - 1) = Cut(s2.eatv, s.tx - 1)
    BY <1>1, CutPrefix, Zenon
  <2>2. UNION Log!Range(Cut(s2.eatv, s.tx - 1))
          = {d \in s2.eatv : TxOf(d) \in 1 .. s.tx - 1}
    BY <1>1, CutUnion, Zenon
  <2> QED
    BY <2>1, <2>2, Zenon
<1>3. \A d \in s2.eatv : TxOf(d) \in 1 .. s.tx - 1 <=> 2 <= d.t /\ d.t < 2 * s.tx
  <2>1. TAKE d \in s2.eatv
  <2>2. d.t \in Int /\ s.tx \in Nat
    BY Zenon DEF NsState, Datom
  <2>3. TxOf(d) \in Int /\ 2 * TxOf(d) <= d.t /\ d.t < 2 * (TxOf(d) + 1)
    BY <2>2, TxOfStamp, Zenon
  <2> QED
    BY <2>2, <2>3
<1>4. \A d \in s2.eatv : d.t \in Int
  BY Zenon DEF NsState, Datom
<1>5. s.tx \in Nat
  BY Zenon DEF NsState
<1> QED
  BY <1>2, <1>3, <1>4, <1>5, EarlierPart

(* The schema index of an earlier state is that of its datoms. *)
LEMMA EarlierSchema ==
  ASSUME NEW s \in NsState, NEW s2 \in NsState, Continues(s, s2),
         StampsBelow(s, s.tx), SchemaIndexed(s2)
  PROVE  s.aetv = Schema(s.eatv)
  BY EarlierPart DEF SchemaIndexed, Schema

(* Committing appends the transaction to the cut. *)
LEMMA CutAppend ==
  ASSUME NEW s \in NsState, NEW s2 \in NsState, Continues(s, s2), s.tx >= 1
  PROVE  Cut(s2.eatv, s.tx)
           = Append(Cut(s.eatv, s.tx - 1), {d \in s2.eatv : TxOf(d) = s.tx})
<1> DEFINE new == {d \in s2.eatv : TxOf(d) = s.tx}
           old == Cut(s.eatv, s.tx - 1)
<1>1. s.tx \in Nat /\ s.tx - 1 \in Nat /\ \A d \in s2.eatv : d.t \in Int
  BY DEF NsState, Datom
<1>2. /\ s.eatv \subseteq s2.eatv
      /\ \A d \in s2.eatv \ s.eatv : d.t >= 2 * s.tx
  BY Zenon DEF Continues, NewerOnly
<1>3. ASSUME NEW i \in 1 .. s.tx - 1
      PROVE  {d \in s2.eatv : TxOf(d) = i} = {d \in s.eatv : TxOf(d) = i}
  <2>1. ASSUME NEW d \in s2.eatv, TxOf(d) = i PROVE d \in s.eatv
    <3>1. d.t \in Int /\ i \in Int /\ s.tx \in Int
      BY <1>1
    <3>2. d.t < 2 * (i + 1)
      BY <2>1, <3>1, TxOfStamp, Zenon
    <3>3. ~(d.t >= 2 * s.tx)
      BY <3>1, <3>2
    <3> QED
      BY <1>2, <3>3, Zenon
  <2> QED
    BY <1>2, <2>1, Zenon
<1>4. old \in Seq(SUBSET s2.eatv) /\ Len(old) = s.tx - 1
  <2>1. old \in Seq(SUBSET s.eatv) /\ Len(old) = s.tx - 1
    BY <1>1, CutSeq, Zenon
  <2>2. \A i \in 1 .. Len(old) : old[i] \in SUBSET s2.eatv
    BY <1>2, <2>1
  <2> QED
    BY <2>1, <2>2
<1>5. new \in SUBSET s2.eatv
  BY Zenon
<1>6. \A i \in 1 .. s.tx - 1 : old[i] = {d \in s2.eatv : TxOf(d) = i}
  BY <1>3, Zenon DEF Cut
<1>7. Append(old, new) = [i \in 1 .. s.tx |-> IF i = s.tx THEN new ELSE old[i]]
  <2> DEFINE all == Append(old, new)
  <2> HIDE DEF old, new
  <2>1. /\ all \in Seq(SUBSET s2.eatv) /\ Len(all) = s.tx
        /\ \A i \in 1 .. s.tx - 1 : all[i] = old[i]
        /\ all[s.tx] = new
    BY <1>1, <1>4, <1>5
  <2>2. \A i \in 1 .. s.tx : all[i] = IF i = s.tx THEN new ELSE old[i]
    BY <1>1, <2>1
  <2> HIDE DEF all
  <2>3. all = [i \in 1 .. s.tx |-> all[i]]
    BY <2>1
  <2> QED
    BY <2>2, <2>3, Zenon DEF all
<1>8. \A i \in 1 .. s.tx : (IF i = s.tx THEN new ELSE old[i]) = {d \in s2.eatv : TxOf(d) = i}
  <2>1. TAKE i \in 1 .. s.tx
  <2>2. CASE i = s.tx
    BY <2>2, Zenon
  <2>3. CASE i # s.tx
    <3>1. i \in 1 .. s.tx - 1
      BY <1>1, <2>3
    <3> QED
      BY <1>6, <2>3, <3>1, Zenon
  <2> QED
    BY <2>2, <2>3, Zenon
<1> HIDE DEF old, new
<1>9. [i \in 1 .. s.tx |-> IF i = s.tx THEN new ELSE old[i]] = Cut(s2.eatv, s.tx)
  BY <1>8, ZenonT(30) DEF Cut
<1> QED
  BY <1>7, <1>9, Zenon DEF old, new

-----------------------------------------------------------------------------
(* Each step of the store is a step of the log. *)

(* A reply without a body. *)
LEMMA AckOf ==
  /\ reply' = ACK_ERR => ReplyOf' = Log!Error
  /\ reply' = ACK_OK => ReplyOf' = Log!Done
<1>1. {<<>>[i] : i \in DOMAIN <<>>} = {}
  OBVIOUS
<1>2. /\ ACK_ERR.ack = "error" /\ ACK_OK.ack = "ok"
      /\ \A ack \in {ACK_ERR, ACK_OK} : ack.ns = 0 /\ ack.tx = 0 /\ ack.facts = <<>>
  BY Zenon DEF ACK_ERR, ACK_OK, NoReply
<1>3. ReplyOf' = [ack |-> reply'.ack, ns |-> reply'.ns, tx |-> reply'.tx,
                  facts |-> {reply'.facts[i] : i \in DOMAIN reply'.facts}]
  BY Zenon DEF ReplyOf
<1>4. ASSUME reply' = ACK_ERR PROVE ReplyOf' = Log!Error
  BY <1>1, <1>2, <1>3, <1>4, Zenon DEF Log!Error
<1>5. ASSUME reply' = ACK_OK PROVE ReplyOf' = Log!Done
  BY <1>1, <1>2, <1>3, <1>5, ZenonT(30) DEF Log!Done
<1> QED
  BY <1>4, <1>5, Zenon

(* What the log does not see. *)
LEMMA Hidden ==
  /\ UNCHANGED db => UNCHANGED LogOf
  /\ UNCHANGED reply => UNCHANGED ReplyOf
  /\ UNCHANGED rd => UNCHANGED ReadingOf
  /\ UNCHANGED answer => UNCHANGED AnswersOf
  BY Zenon DEF LogOf, ReplyOf, ReadingOf, AnswersOf

(* A reader thread between two requests. *)
LEMMA IdleOf == ReadOf(NotReading) = Log!NotReading
<1>1. NotReading.snap.tx - 1 = 0
  BY FreshStamps DEF NotReading
<1> QED
  BY <1>1, Zenon DEF ReadOf, NotReading, Log!NotReading

(* handle_namespace creates a namespace with an empty log, finds it there, *)
(* or fails.                                                               *)
LEMMA NamespaceStep ==
  ASSUME TypeOK, NEW n \in NsArgs, handle_namespace(n)
  PROVE  (\E m \in Namespaces : Log!Create(m)) \/ Log!Refuse
<1>1. ToNs(n) \in Namespaces
  BY StoreAssumption DEF ToNs, Namespaces
<1>2. UNCHANGED <<ReadingOf, AnswersOf>>
  BY Hidden, Zenon DEF handle_namespace, reader
<1>3. CASE reply' = ACK_ERR /\ UNCHANGED db
  BY <1>2, <1>3, AckOf, Hidden, Zenon DEF Log!Refuse
<1>4. CASE /\ reply' = ACK_OK
           /\ db' = IF exists(ToNs(n)) THEN db
                    ELSE [m \in DOMAIN db \cup {ToNs(n)} |->
                            IF m = ToNs(n) THEN Fresh ELSE db[m]]
  <2>1. CASE exists(ToNs(n))
    <3>1. UNCHANGED db /\ ToNs(n) \in DOMAIN LogOf
      BY <1>4, <2>1, Zenon DEF exists, LogOf
    <3>2. Log!Create(ToNs(n))
      BY <1>2, <1>4, <3>1, AckOf, Hidden, Zenon DEF Log!Create
    <3> QED
      BY <1>1, <3>2, Zenon
  <2>2. CASE ~exists(ToNs(n))
    <3> DEFINE m0 == ToNs(n)
    <3>1. db' = [m \in DOMAIN db \cup {m0} |-> IF m = m0 THEN Fresh ELSE db[m]]
      BY <1>4, <2>2, Zenon
    <3>2. m0 \notin DOMAIN LogOf /\ DOMAIN LogOf = DOMAIN db
      BY <2>2, Zenon DEF exists, LogOf
    <3>3. Cut(Fresh.eatv, Fresh.tx - 1) = <<>>
      BY FreshStamps DEF Cut
    <3> HIDE DEF m0
    <3>4. LogOf' = [m \in DOMAIN db \cup {m0} |-> Cut(db'[m].eatv, db'[m].tx - 1)]
      BY <3>1, Zenon DEF LogOf
    <3>5. \A m \in DOMAIN db \cup {m0} :
            Cut(db'[m].eatv, db'[m].tx - 1) = IF m = m0 THEN <<>> ELSE LogOf[m]
      BY <3>1, <3>3, Zenon DEF LogOf
    <3>6. LogOf' = [m \in DOMAIN LogOf \cup {m0} |->
                      IF m = m0 THEN <<>> ELSE LogOf[m]]
      BY <3>2, <3>4, <3>5, Zenon
    <3>7. Log!Create(m0)
      BY <1>2, <1>4, <3>2, <3>6, AckOf, Zenon DEF Log!Create
    <3> QED
      BY <1>1, <3>7, Zenon DEF m0
  <2> QED
    BY <2>1, <2>2, Zenon
<1> QED
  BY <1>3, <1>4, Zenon DEF handle_namespace

(* The commit of handle_transact appends its facts to the log. *)
LEMMA CommitStep ==
  ASSUME TypeOK, TypeOK', WorkInv, BaseInv, transact_commit
  PROVE  \E n \in Namespaces : Log!Commit(n)
<1> DEFINE facts == {newFacts[i] : i \in DOMAIN newFacts}
<1>1. /\ wns \in DOMAIN db /\ wns \in Namespaces /\ wpc = "facts"
      /\ db[wns] \in NsState /\ work \in NsState /\ db[wns].tx \in Nat
      /\ db[wns].tx >= 1
  BY Zenon DEF transact_commit, TypeOK, NsState, BaseInv
<1>2. /\ DOMAIN db' = DOMAIN db
      /\ \A ns \in DOMAIN db : ns # wns => db'[ns] = db[ns]
      /\ db'[wns].tx = db[wns].tx + 1 /\ db'[wns].eatv = work.eatv
  BY CommitContinues, Zenon
<1>3. /\ work.tx = db[wns].tx /\ Continues(db[wns], work)
      /\ StampsBelow(work, work.tx + 1)
      /\ {d \in work.eatv : d.t >= 2 * work.tx} = facts
  BY <1>1, Zenon DEF WorkInv
<1> HIDE DEF facts
<1>4. {d \in work.eatv : TxOf(d) = work.tx} = facts
  <2>1. \A d \in work.eatv : TxOf(d) = work.tx <=> d.t >= 2 * work.tx
    <3>1. TAKE d \in work.eatv
    <3>2. d.t \in Int /\ work.tx \in Int
      BY <1>1, <1>3 DEF NsState, Datom
    <3>3. d.t < 2 * (work.tx + 1)
      BY <1>3, Zenon DEF StampsBelow
    <3> QED
      BY <3>2, <3>3, TxOfStamp, Zenon
  <2> QED
    BY <1>3, <2>1, Zenon
<1>5. ReplyOf'.facts = facts
  BY Zenon DEF transact_commit, ReplyOf, facts
<1>6. ReplyOf' = [ack |-> "ok", ns |-> wns, tx |-> work.tx, facts |-> ReplyOf'.facts]
  BY Zenon DEF transact_commit, ReplyOf
<1>7. DOMAIN LogOf = DOMAIN db /\ LogOf[wns] = Cut(db[wns].eatv, db[wns].tx - 1)
  BY <1>1, Zenon DEF LogOf
<1>8. Len(LogOf[wns]) + 1 = work.tx
  <2>1. db[wns].tx - 1 \in Nat
    BY <1>1
  <2>2. Len(LogOf[wns]) = db[wns].tx - 1
    BY <1>7, <2>1, CutSeq, Zenon
  <2> QED
    BY <1>1, <1>3, <2>2
<1>9. Cut(work.eatv, db[wns].tx) = Append(LogOf[wns], facts)
  <2>1. Cut(work.eatv, db[wns].tx) =
          Append(Cut(db[wns].eatv, db[wns].tx - 1),
                 {d \in work.eatv : TxOf(d) = db[wns].tx})
    BY <1>1, <1>3, CutAppend, Zenon
  <2> QED
    BY <1>3, <1>4, <1>7, <2>1, Zenon
<1>10. LogOf' = [LogOf EXCEPT ![wns] = Append(@, facts)]
  <2>1. LogOf' = [ns \in DOMAIN db |-> Cut(db'[ns].eatv, db'[ns].tx - 1)]
    BY <1>2, Zenon DEF LogOf
  <2>2. Cut(db'[wns].eatv, db'[wns].tx - 1) = Append(LogOf[wns], facts)
    <3>1. db'[wns].tx - 1 = db[wns].tx
      BY <1>1, <1>2
    <3> QED
      BY <1>2, <1>9, <3>1, Zenon
  <2>3. \A ns \in DOMAIN db : ns # wns =>
          Cut(db'[ns].eatv, db'[ns].tx - 1) = LogOf[ns]
    BY <1>2, Zenon DEF LogOf
  <2>4. LogOf = [ns \in DOMAIN db |-> LogOf[ns]]
    BY Zenon DEF LogOf
  <2> QED
    BY <1>1, <2>1, <2>2, <2>3, <2>4, Zenon
<1>11. UNCHANGED <<ReadingOf, AnswersOf>>
  BY Hidden, Zenon DEF transact_commit, reader
<1>12. Log!Commit(wns)
  BY <1>1, <1>5, <1>6, <1>7, <1>8, <1>10, <1>11, Zenon DEF Log!Commit
<1> QED
  BY <1>1, <1>12, Zenon

(* A renewed read transaction is a read that begins with all transactions. *)
LEMMA RenewStep ==
  ASSUME TypeOK, BaseInv, NEW r \in Readers, NEW ns \in Selected, NEW arg \in ReadArgs,
         facts_renew(r, ns, arg)
  PROVE  Log!BeginRead(r)
<1> DEFINE q == [pc |-> "scan", ns |-> ns, arg |-> arg, snap |-> db[ns]]
           p == [pc |-> "scan", ns |-> ns, arg |-> arg, seen |-> db[ns].tx - 1]
<1>1. /\ rd[r].pc = "idle" /\ ns \in DOMAIN db /\ rd' = [rd EXCEPT ![r] = q]
      /\ UNCHANGED <<db, reply, answer>>
  BY Zenon DEF facts_renew, exists
<1>2. ReadOf(q) = p
  BY Zenon DEF ReadOf
<1> HIDE DEF p, q
<1>3. ReadingOf' = [ReadingOf EXCEPT ![r] = p] /\ ReadingOf'[r] = p
  BY <1>1, <1>2, Zenon DEF ReadingOf, TypeOK
<1>4. ReadingOf[r].pc = "idle"
  BY <1>1, ReadingScan, Zenon
<1>5. db[ns].tx - 1 \in Nat
  BY <1>1, SMTT(30) DEF TypeOK, NsState, BaseInv
<1>6. ns \in DOMAIN LogOf /\ Len(LogOf[ns]) = db[ns].tx - 1
  BY <1>1, <1>5, CutSeq, Zenon DEF LogOf
<1>7. p.ns = ns /\ p = [pc |-> "scan", ns |-> p.ns, arg |-> p.arg, seen |-> Len(LogOf[ns])]
  BY <1>6, Zenon DEF p
<1> QED
  BY <1>1, <1>3, <1>4, <1>6, <1>7, Hidden, Zenon DEF Log!BeginRead

(* The scan of handle_facts answers from the prefix its snapshot holds. *)
LEMMA ScanStep ==
  ASSUME TypeOK, ReaderInv, BaseInv, SchemaIndexInSync, NEW r \in Readers, facts_scan(r)
  PROVE  Log!EndRead(r)
<1> DEFINE s  == rd[r].snap
           n  == rd[r].ns
           k  == s.tx - 1
           tx == AskedTx(r)
           facts == BasicFacts \cup UNION Log!Range(SubSeq(LogOf[n], 1, k))
<1>1. PICK junk \in JunkChoices(s.aetv, db_cardinality) :
        answer' = [answer EXCEPT ![r] =
                     [ns |-> n, tx |-> tx, seen |-> s.tx,
                      facts |-> FactsAt(s, tx, junk)]]
  BY Zenon DEF facts_scan
<1>2. /\ rd[r].pc = "scan" /\ rd' = [rd EXCEPT ![r] = NotReading]
      /\ UNCHANGED <<db, reply>>
  BY Zenon DEF facts_scan
<1>3. /\ n \in DOMAIN db /\ StampsBelow(s, s.tx) /\ Continues(s, db[n])
      /\ s \in NsState /\ db[n] \in NsState
  BY <1>2, Zenon DEF ReaderInv, TypeOK, Reading
<1>4. /\ db[n].tx >= 1 /\ {d \in db[n].eatv : d.t < 2} = BasicFacts
      /\ SchemaIndexed(db[n])
  BY <1>3, Zenon DEF BaseInv, SchemaIndexInSync
<1>5. s.tx \in Nat /\ db[n].tx \in Nat /\ s.tx <= db[n].tx
  BY <1>3, Zenon DEF NsState, Continues
<1>6. s.tx >= 1
  BY <1>2, Zenon DEF BaseInv
<1>7. LogOf[n] = Cut(db[n].eatv, db[n].tx - 1) /\ Len(LogOf[n]) = db[n].tx - 1
  <2>1. LogOf[n] = Cut(db[n].eatv, db[n].tx - 1)
    BY <1>3, Zenon DEF LogOf
  <2>2. db[n].tx - 1 \in Nat
    BY <1>4, <1>5
  <2> QED
    BY <2>1, <2>2, CutSeq, Zenon
<1>8. facts = s.eatv
  BY <1>3, <1>4, <1>6, <1>7, PrefixFacts, ZenonT(30)
<1>9. s.aetv = Schema(s.eatv)
  BY <1>3, <1>4, EarlierSchema, Zenon
<1>10. FactsAt(s, tx, junk) \in AnswersFrom(s.eatv, tx)
  BY <1>9, FactsFromSchema, Zenon
<1> DEFINE ans == FactsAt(s, tx, junk)
           out == [ns |-> n, tx |-> tx, facts |-> ans]
           p   == ReadingOf[r]
<1>11. p.pc = "scan" /\ p.ns = n /\ p.arg = rd[r].arg /\ p.seen = k
  BY <1>2, ReadingScan, Zenon
<1>12. tx = IF p.arg < 0 THEN k + 1 ELSE p.arg
  BY <1>5, <1>11 DEF AskedTx
<1>13. k \in p.seen .. Len(LogOf[p.ns])
  <2>1. p.seen = k /\ p.ns = n /\ k \in Nat
    BY <1>5, <1>6, <1>11
  <2>2. Len(LogOf[p.ns]) = db[n].tx - 1
    BY <1>7, <2>1, Zenon
  <2> QED
    BY <1>5, <2>1, <2>2, SMTT(30)
<1>14. AnswersOf' = [AnswersOf EXCEPT ![r] = out]
  <2> DEFINE a == [ns |-> n, tx |-> tx, seen |-> s.tx, facts |-> ans]
  <2>1. AnswerOf(a) = out
    BY Zenon DEF AnswerOf
  <2>2. answer' = [answer EXCEPT ![r] = a]
    BY <1>1, Zenon
  <2> HIDE DEF a, out
  <2> QED
    BY <2>1, <2>2, Zenon DEF AnswersOf, TypeOK
<1>15. ReadingOf' = [ReadingOf EXCEPT ![r] = Log!NotReading]
  BY <1>2, IdleOf, Zenon DEF ReadingOf, TypeOK
<1>16. UNCHANGED <<LogOf, ReplyOf>>
  BY <1>2, Hidden, Zenon
<1> DEFINE prefix(i) == BasicFacts \cup UNION Log!Range(SubSeq(LogOf[p.ns], 1, i))
           asked(i)  == IF p.arg < 0 THEN i + 1 ELSE p.arg
<1>17. prefix(k) = s.eatv /\ asked(k) = tx
  BY <1>8, <1>11, <1>12, Zenon
<1>18. /\ ans \in AnswersFrom(prefix(k), asked(k))
       /\ AnswersOf' = [AnswersOf EXCEPT ![r] =
                          [ns |-> p.ns, tx |-> asked(k), facts |-> ans]]
  <2> HIDE DEF prefix, asked
  <2> QED
    BY <1>10, <1>11, <1>14, <1>17, Zenon
<1> HIDE DEF s, n, k, tx, ans
<1>19. \E i \in p.seen .. Len(LogOf[p.ns]) : \E x \in AnswersFrom(prefix(i), asked(i)) :
         AnswersOf' = [AnswersOf EXCEPT ![r] =
                         [ns |-> p.ns, tx |-> asked(i), facts |-> x]]
  BY <1>13, <1>18, Zenon
<1> QED
  BY <1>11, <1>15, <1>16, <1>19, Zenon DEF Log!EndRead

(* A crash loses the reads that had begun and nothing else. *)
LEMMA CrashStep == ASSUME crash PROVE Log!Restart
<1>1. ReadingOf' = [r \in Readers |-> Log!NotReading]
  BY IdleOf, Zenon DEF crash, ReadingOf
<1> QED
  BY <1>1, Hidden, Zenon DEF crash, Log!Restart

(* The label err_tx, and the early returns. *)
LEMMA RefuseStep ==
  ASSUME reply' = ACK_ERR, UNCHANGED <<db, reader>>
  PROVE  Log!Refuse
  BY AckOf, Hidden, Zenon DEF reader, Log!Refuse

(* Every step of the store is one of the log, or the log does not see it. *)
LEMMA LogStep ==
  ASSUME TypeOK, TypeOK', HistoryInv, BaseInv, SchemaIndexInSync, [Next]_vars
  PROVE  [Log!Next]_(Log!vars)
<1>0. ASSUME UNCHANGED <<db, reply, reader>> PROVE UNCHANGED Log!vars
  BY <1>0, Hidden, Zenon DEF reader, Log!vars
<1>1. ASSUME NEW n \in NsArgs, handle_namespace(n) PROVE Log!Next
  BY <1>1, NamespaceStep, Zenon DEF Log!Next
<1>2. CASE transact_reject \/ fact_refused \/ transact_fail
  BY <1>2, RefuseStep, Zenon
     DEF transact_reject, fact_refused, transact_fail, Abort, Log!Next
<1>3. ASSUME NEW ns \in Selected, NEW facts \in Requests, transact_begin(ns, facts)
      PROVE  UNCHANGED Log!vars
  BY <1>0, <1>3, Zenon DEF transact_begin
<1>4. CASE fact_skipped \/ fact_put \/ UNCHANGED vars
  BY <1>0, <1>4, Zenon DEF fact_skipped, fact_put, vars
<1>5. CASE transact_commit
  BY <1>5, CommitStep, Zenon DEF HistoryInv, Log!Next
<1>6. ASSUME NEW r \in Readers, NEW ns \in Selected, NEW arg \in ReadArgs,
             facts_renew(r, ns, arg)
      PROVE  Log!Next
  BY <1>6, RenewStep, Zenon DEF Log!Next
<1>7. ASSUME NEW r \in Readers, facts_scan(r) PROVE Log!Next
  BY <1>7, ScanStep, Zenon DEF HistoryInv, Log!Next
<1>8. CASE crash
  BY <1>8, CrashStep, Zenon DEF Log!Next
<1> QED
  BY <1>1, <1>2, <1>3, <1>4, <1>5, <1>6, <1>7, <1>8, Zenon DEF Next

(* The log starts with namespace 0 and no transaction. *)
LEMMA LogInit == Init => Log!Init
<1> SUFFICES ASSUME Init PROVE Log!Init
  BY Zenon
<1>1. LogOf = [n \in {0} |-> <<>>]
  <2>1. Cut(Fresh.eatv, Fresh.tx - 1) = <<>>
    BY FreshStamps DEF Cut
  <2> QED
    BY <2>1, Zenon DEF Init, LogOf
<1>2. ReplyOf = [Log!Done EXCEPT !.ack = "none"]
  <2>1. {<<>>[i] : i \in DOMAIN <<>>} = {}
    OBVIOUS
  <2> QED
    BY <2>1, SMTT(30) DEF Init, NoReply, ReplyOf, Log!Done
<1>3. ReadingOf = [r \in Readers |-> Log!NotReading]
  BY IdleOf, Zenon DEF Init, ReadingOf
<1>4. AnswersOf = [r \in Readers |-> [ns |-> 0, tx |-> -1, facts |-> {}]]
  BY Zenon DEF Init, AnswersOf, AnswerOf, NoAnswer
<1> QED
  BY <1>1, <1>2, <1>3, <1>4, Zenon DEF Log!Init

(* The store implements the log of transactions: whatever the writer, the  *)
(* readers and crashes do, clients see transactions appended as a whole    *)
(* and reads of prefixes.                                                  *)
THEOREM StoreImplementsLog == Spec => ImplementsLog
<1>1. /\ TypeOK /\ TypeOK' /\ HistoryInv /\ BaseInv /\ SchemaIndexInSync /\ [Next]_vars
      => [Log!Next]_(Log!vars)
  BY LogStep, Zenon
<1> QED
  BY <1>1, LogInit, HistoryInvariant, BaseInvariant, SchemaIndexExact, PTL
     DEF Spec, ImplementsLog, Log!Spec
===============================================================================
