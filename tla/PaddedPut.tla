------------------------------ MODULE PaddedPut ------------------------------
(***************************************************************************)
(* How the string of a fact reaches the map and comes back.  A string of   *)
(* more than 32 bytes is the data of its key, filled up to a multiple of 8 *)
(* bytes; db::cursor_put_padded stores it through the one cursor of the    *)
(* transaction, and passes the size of the data as the flags of            *)
(* mdb_cursor_put when nothing is to be filled up.  So the map is the      *)
(* sequence of its items here, the cursor a position in it, and a put does *)
(* what its flags say.                                                     *)
(*                                                                         *)
(* Left out: unique attributes, which use cursors of their own, and values *)
(* that are integers, which are put as short strings are.                  *)
(***************************************************************************)
EXTENDS Datoms, SequencesExt

CONSTANTS
  PutRequests,   \* the lists of facts [e, a, s, r]; s is a string [len, b]
  MaxPuts        \* bound: how many transactions are committed

VARIABLES
  map,     \* the committed items [k, size, bytes], in the order of the map
  work,    \* the items as the open transaction sees them
  mc,      \* the position of the transaction's cursor, 0 when it has none
  todo,    \* the facts of the request that are not put yet
  phase,   \* "idle", "open", or "refused" after a request that was refused
  request, \* the facts of the last request
  tx,      \* META_TX
  stored   \* history: the facts that were acknowledged, with their tx

vars == <<map, work, mc, todo, phase, request, tx, stored>>

(* custom_key_compare, for keys whose columns are close together. *)
K == INSTANCE KeyOrder WITH IntHalf <- 1024, Keys <- {}, MaxKeys <- 0,
                            index <- {}, puts <- {}

-----------------------------------------------------------------------------
(* The flags of mdb_cursor_put (lmdb.h), and when a word has one. *)

MDB_NOOVERWRITE == 16
MDB_CURRENT     == 64
MDB_NOSPILL     == 32768
MDB_RESERVE     == 65536
MDB_APPEND      == 131072
MDB_MULTIPLE    == 524288

Has(flags, f) == (flags \div f) % 2 = 1

(* Whether the put is at the position of the cursor: no other flag counts  *)
(* beside MDB_CURRENT, except MDB_NOSPILL, which is cleared first.         *)
IsCurrent(flags) == flags \in {MDB_CURRENT, MDB_CURRENT + MDB_NOSPILL}

(* The bytes of reserved space that nobody filled: whatever was there. *)
UNFILLED == -1

(* A node whose key and data are too large for a page has its data on      *)
(* pages of its own.                                                       *)
BigData(size) == size > 1966
OVPAGES(size) == (15 + size) \div 4096 + 1

-----------------------------------------------------------------------------
(* The key of a fact in one of the two orders, and its data. *)
KeyOf(sort, f, t) ==
  [ns |-> 0, type |-> KEY_BLOB, sort |-> sort, pad |-> Pad(f.s.len), e |-> f.e,
   a |-> f.a, t |-> Stamp(t, f.r), b |-> f.s.b]

ValOf(s) == IF s.len > 32 THEN [size |-> s.len, bytes |-> s.b]
                          ELSE [size |-> 0, bytes |-> 0]

(* What the loop of handle_facts makes of an item: a string. *)
ReadBack(i) == IF i.k.pad > 0 THEN [len |-> i.k.pad - 1, b |-> i.k.b]
                              ELSE [len |-> i.size + i.k.pad, b |-> i.bytes]

-----------------------------------------------------------------------------
(* mdb_cursor_put.  A cursor state is [map, mc, ok]. *)

(* Where k is, or would be inserted. *)
Place(m, k) == CHOOSE i \in 1 .. Len(m) + 1 :
                 /\ \A j \in 1 .. i - 1 : K!Before(m[j].k, k)
                 /\ i <= Len(m) => ~K!Before(m[i].k, k)

(* The data d as the put leaves it in the map. *)
Written(d, flags) ==
  [size |-> d.size, bytes |-> IF Has(flags, MDB_RESERVE) THEN UNFILLED ELSE d.bytes]

Item(k, d) == [k |-> k, size |-> d.size, bytes |-> d.bytes]

(* Data of the same size, or that fits the pages the old data has, is      *)
(* written over the old; otherwise the node is deleted and one is added in *)
(* its place, with the key of the put.                                     *)
Overwrite(c, i, k, d) ==
  LET old   == c.map[i]
      fits == IF BigData(old.size) THEN OVPAGES(old.size) >= OVPAGES(d.size)
                                   ELSE old.size = d.size
  IN  [c EXCEPT !.mc = i, !.map[i] = Item(IF fits THEN old.k ELSE k, d)]

Insert(c, i, k, d) == [c EXCEPT !.mc = i, !.map = InsertAt(c.map, i, Item(k, d))]

mdb_cursor_put(c, k, data, flags) ==
  LET refused == [c EXCEPT !.ok = FALSE]
      d == Written(data, flags)
      i == Place(c.map, k)
      exists == i <= Len(c.map) /\ c.map[i].k = k
  IN  CASE Has(flags, MDB_MULTIPLE) -> refused
        [] IsCurrent(flags) ->
             IF c.mc = 0 THEN refused ELSE Overwrite(c, c.mc, k, d)
        [] Has(flags, MDB_APPEND) /\ ~Has(flags, MDB_MULTIPLE) ->
             IF i <= Len(c.map) THEN refused ELSE Insert(c, i, k, d)
        [] OTHER ->
             IF ~exists THEN Insert(c, i, k, d)
             ELSE IF Has(flags, MDB_NOOVERWRITE) THEN refused
             ELSE Overwrite(c, i, k, d)

-----------------------------------------------------------------------------
(* Mutant: the data is cut down to a multiple of 8. *)
cursor_put_padded_Cut(c, k, data) ==
  LET n == data.size - (data.size % 8)
  IN  mdb_cursor_put(c, k, [data EXCEPT !.size = n], 0)

(* Mutant: a key that is there may not be put again. *)
cursor_put_padded_Once(c, k, data) ==
  mdb_cursor_put(c, k, [data EXCEPT !.size = IF k.pad < 0 THEN @ - k.pad ELSE @],
                 MDB_NOOVERWRITE)

(* db::cursor_put_padded: data that is filled up is reserved and copied.   *)
cursor_put_padded(c, k, data) ==
  LET reserved == mdb_cursor_put(c, k, [data EXCEPT !.size = @ - k.pad], MDB_RESERVE)
  IN  IF k.pad < 0
        THEN IF reserved.ok THEN [reserved EXCEPT !.map[reserved.mc].bytes = data.bytes]
                            ELSE reserved
        ELSE mdb_cursor_put(c, k, data, data.size)

(* The two puts of one fact; the second only for schema attributes. *)
PutFact(c, f) ==
  LET eatv == cursor_put_padded(c, KeyOf(K!SORT_EATV, f, tx), ValOf(f.s))
  IN  IF eatv.ok /\ f.a < db_initial_id
        THEN cursor_put_padded(eatv, KeyOf(K!SORT_AETV, f, tx), ValOf(f.s))
        ELSE eatv

-----------------------------------------------------------------------------
(* The map of a new namespace: one fact of setup, in both orders. *)
BasicIdent == [e |-> db_ident, a |-> db_ident, r |-> FALSE,
               s |-> [len |-> IdentLength[1], b |-> IdentBytes(1)]]

BasicItems ==
  << Item(KeyOf(K!SORT_AETV, BasicIdent, 0), [size |-> 0, bytes |-> 0]),
     Item(KeyOf(K!SORT_EATV, BasicIdent, 0), [size |-> 0, bytes |-> 0]) >>

Init ==
  /\ map = BasicItems /\ work = BasicItems
  /\ mc = 0 /\ todo = <<>> /\ phase = "idle" /\ request = <<>>
  /\ tx = 1 /\ stored = {}

InOrder(m) == \A i \in 1 .. Len(m) - 1 : K!Before(m[i].k, m[i + 1].k)

(* The write transaction and its cursor are opened.  What searches find in *)
(* a map that is out of order is not modelled: nothing begins then.        *)
transact_begin(req) ==
  /\ phase # "open" /\ tx <= MaxPuts /\ InOrder(map)
  /\ work' = map /\ mc' = 0
  /\ todo' = req /\ request' = req /\ phase' = "open"
  /\ UNCHANGED <<map, tx, stored>>

(* A fact is put, or a put fails and the transaction is aborted. *)
fact_put ==
  /\ phase = "open" /\ todo # <<>>
  /\ LET c == PutFact([map |-> work, mc |-> mc, ok |-> TRUE], Head(todo))
     IN  IF c.ok THEN /\ work' = c.map /\ mc' = c.mc /\ todo' = Tail(todo)
                      /\ phase' = phase
                 ELSE /\ work' = map /\ mc' = 0 /\ todo' = <<>>
                      /\ phase' = "refused"
  /\ UNCHANGED <<map, request, tx, stored>>

(* META_TX moves on, the transaction is committed and its facts are the    *)
(* response.                                                               *)
transact_commit ==
  /\ phase = "open" /\ todo = <<>>
  /\ map' = work /\ mc' = 0 /\ phase' = "idle" /\ tx' = tx + 1
  /\ stored' = stored \cup {[f |-> request[i], t |-> tx] : i \in DOMAIN request}
  /\ UNCHANGED <<work, todo, request>>

Next == (\E req \in PutRequests : transact_begin(req)) \/ fact_put \/ transact_commit

Spec == Init /\ [][Next]_vars

-----------------------------------------------------------------------------
Items(m) == {m[i] : i \in DOMAIN m}

(* The data of a fact is put with its length as the flags. *)
SizeAsFlags(f) == f.s.len > 32 /\ Pad(f.s.len) = 0

(* A put of the fact replaces what the cursor is at: a fact put before it  *)
(* in the same transaction.                                                *)
Replaces(f) == SizeAsFlags(f) /\ IsCurrent(f.s.len)

(* Every fact that was acknowledged is in the map, and the scan of         *)
(* handle_facts reads its string back, with its length and its bytes; a    *)
(* fact of a schema attribute is in both orders.  The only exceptions come *)
(* from the flags of cursor_put_padded (db.cpp 290-305): a string whose    *)
(* length has the bit of MDB_RESERVE, and the facts of a transaction with  *)
(* a string whose length is MDB_CURRENT.                                   *)
ReadsBackWhole ==
  \A x \in stored :
    \/ SizeAsFlags(x.f) /\ Has(x.f.s.len, MDB_RESERVE)
    \/ \E y \in stored : y.t = x.t /\ Replaces(y.f)
    \/ \A sort \in {K!SORT_EATV} \cup (IF x.f.a < db_initial_id THEN {K!SORT_AETV} ELSE {}) :
         \E i \in Items(map) : i.k = KeyOf(sort, x.f, x.t) /\ ReadBack(i) = x.f.s

(* A request of facts is refused only for the flags of cursor_put_padded:  *)
(* it repeats a fact whose length happens to have the bit of               *)
(* MDB_NOOVERWRITE, or its length has that of MDB_MULTIPLE or MDB_APPEND   *)
(* or is MDB_CURRENT.                                                      *)
OnlyFlagsRefuse ==
  phase = "refused" =>
    \E i \in DOMAIN request :
      LET f == request[i]
      IN  /\ SizeAsFlags(f)
          /\ \/ Has(f.s.len, MDB_MULTIPLE) \/ Has(f.s.len, MDB_APPEND) \/ Replaces(f)
             \/ /\ Has(f.s.len, MDB_NOOVERWRITE)
                /\ \E j \in DOMAIN request : i # j /\ request[i] = request[j]

=============================================================================
