------------------------------- MODULE Datoms -------------------------------
(***************************************************************************)
(* The data nstore keeps in LMDB and the pure functions that read it:      *)
(* the keys of the EATV and AETV indices (db.h, struct custom_key), the    *)
(* basic facts every namespace starts with (db::setup), the scans that     *)
(* answer a read (db::query_a, the loop of handle_facts) and the look-up   *)
(* of an entity's last value (db::last_datom).                             *)
(*                                                                         *)
(* An index is the set of its keys.  The cursor order inside an index is   *)
(* the order custom_key_compare defines; for the keys of one entity and    *)
(* one attribute it is Earlier below.                                      *)
(***************************************************************************)
EXTENDS Integers, Sequences, Folds

CONSTANT
  TxWrap    \* 2^62: the first transaction number whose shift leaves an i64

ASSUME TxWrapAssumption == TxWrap \in Nat \ {0}

-----------------------------------------------------------------------------
(* The enumerations of db.h. *)

KEY_INTEGER == 4
KEY_BLOB    == 5

db_ident            == 1
db_type             == 2
db_cardinality      == 3
db_unique           == 4
db_type_value       == 5
db_type_ref         == 6
db_cardinality_one  == 7
db_cardinality_many == 8
db_unique_no        == 9
db_unique_yes       == 10
db_initial_id       == 11

-----------------------------------------------------------------------------
(* Keys. *)

(* The value columns of a key: its type, its pad and the 32 bytes of the   *)
(* union, as a number.  An integer and a string may have the same bytes.   *)
Value == [type : {KEY_INTEGER, KEY_BLOB}, pad : Int, b : Int]

IntValue(i) == [type |-> KEY_INTEGER, pad |-> 0, b |-> i]

(* The pad of a string: length + 1 when its bytes fit in the key, else     *)
(* minus the bytes that fill the data up to a multiple of 8.               *)
Pad(len) ==
  CASE len <= 32                -> len + 1
    [] len > 32 /\ len % 8 = 0  -> 0
    [] len > 32 /\ len % 8 # 0  -> (len % 8) - 8

(* A string of length len; b stands for its bytes when they fit in the key *)
(* and for their sha-256 when they do not.                                 *)
BlobValue(len, b) == [type |-> KEY_BLOB, pad |-> Pad(len), b |-> b]

(* A key of an index; t is twice the transaction, plus one for a           *)
(* retraction.                                                             *)
Datom == [e : Int, a : Int, v : Value, t : Int]

Stamp(tx, retract) == 2 * tx + (IF retract THEN 1 ELSE 0)
IsRetraction(d)    == d.t % 2 = 1
TxOf(d)            == d.t \div 2

ValueLess(v, w) ==
  \/ v.type < w.type
  \/ v.type = w.type /\ v.pad < w.pad
  \/ v.type = w.type /\ v.pad = w.pad /\ v.b < w.b

(* The order of two keys that agree on entity and attribute. *)
Earlier(d, x) == d.t < x.t \/ (d.t = x.t /\ ValueLess(d.v, x.v))

Latest(S) == CHOOSE d \in S : \A x \in S : x = d \/ Earlier(x, d)

SameEA(d, x) == d.e = x.e /\ d.a = x.a

-----------------------------------------------------------------------------
(* db::setup: the state of a namespace that was just created.              *)

(* The strings setup stores: the length and the bytes of each identifier.  *)
IdentLength == << 9, 8, 15, 10, 14, 12, 19, 20, 13, 14 >>
IdentBytes(e) == 1000 + e

BasicFacts ==
  LET fact(e, a, v) == [e |-> e, a |-> a, v |-> v, t |-> 0]
      ident(e) == fact(e, db_ident, BlobValue(IdentLength[e], IdentBytes(e)))
  IN  {ident(e) : e \in db_ident .. db_unique_yes}
      \cup {fact(e, db_type, IntValue(db_type_ref)) :
              e \in {db_type, db_cardinality, db_unique}}
      \cup {fact(db_ident, db_type, IntValue(db_type_value))}
      \cup {fact(e, db_cardinality, IntValue(db_cardinality_one)) :
              e \in db_ident .. db_unique}
      \cup {fact(e, db_unique, IntValue(db_unique_no)) :
              e \in {db_type, db_cardinality, db_unique}}
      \cup {fact(db_ident, db_unique, IntValue(db_unique_yes))}

(* The unique index maps an attribute and the bytes of a value to the      *)
(* entity that holds it.                                                   *)
UniqueEntry == [a : Int, b : Int, e : Int]

BasicUnique ==
  {[a |-> db_ident, b |-> IdentBytes(e), e |-> e] : e \in db_ident .. db_unique}

(* What the store keeps for one namespace: META_TX, META_ID, the two       *)
(* indices of datoms and the unique index.                                 *)
NsState == [tx : Nat, id : Nat, eatv : SUBSET Datom, aetv : SUBSET Datom,
            uniq : SUBSET UniqueEntry]

Fresh == [tx |-> 1, id |-> db_initial_id, eatv |-> BasicFacts,
          aetv |-> BasicFacts, uniq |-> BasicUnique]

-----------------------------------------------------------------------------
(* Reading. *)

(* Mutant: the bound is the first stamp of the next transaction. *)
ReadBound_Next(tx) == 2 * (tx + 1)

(* The largest stamp a read as of tx looks at: (tx << 1) + 1 in an i64.    *)
ReadBound(tx) == 2 * tx + 1 - (IF tx < TxWrap THEN 0 ELSE 4 * TxWrap)

UpTo(index, tx) == {d \in index : d.t <= ReadBound(tx)}

(* Mutant: a retraction does not erase the value it retracts. *)
Visit_NoErase(d, current, one) ==
  LET others == IF one THEN {} ELSE current
  IN  IF IsRetraction(d) THEN others ELSE others \cup {d}

(* One iteration of a scan.  `current' holds at most one datom for the     *)
(* same bytes; a scan that keeps one value per attribute clears it first.  *)
Visit(d, current, one) ==
  LET others == IF one THEN {} ELSE {c \in current : c.v.b # d.v.b}
  IN  IF IsRetraction(d) THEN others ELSE others \cup {d}

(* The datoms of one entity and attribute, visited in cursor order. *)
ScanGroup(group, one) ==
  MapThenFoldSet(LAMBDA d, current : Visit(d, current, one), {},
                 LAMBDA d : d, Latest, group)

Group(S, d) == {x \in S : SameEA(x, d)}

(* db::query_a: the values of attribute a that were never retracted after  *)
(* they were asserted, whatever its cardinality.                           *)
query_a(aetv, tx, a) ==
  LET seen == {d \in UpTo(aetv, tx) : d.a = a}
  IN  {d \in seen : d \in ScanGroup(Group(seen, d), FALSE)}

(* The entities whose attribute a is the integer val.  A datom built from  *)
(* a string leaves its integer uninitialized; `junk' is the set of the     *)
(* entities for which that integer happens to equal val.                   *)
EntitiesWith(aetv, tx, a, val, junk) ==
  {d.e : d \in {q \in query_a(aetv, tx, a) :
                  IF q.v.type = KEY_INTEGER THEN q.v.b = val
                                            ELSE q.e \in junk}}

JunkChoices(aetv, a) ==
  SUBSET {d.e : d \in {x \in aetv : x.a = a /\ x.v.type = KEY_BLOB}}

(* The loop of handle_facts over the datoms seen, given the attributes of  *)
(* cardinality many.                                                       *)
ScanFacts(seen, many) ==
  {d \in seen : d \in ScanGroup(Group(seen, d), d.a \notin many)}

FactsAt(s, tx, junk) ==
  ScanFacts(UpTo(s.eatv, tx),
            EntitiesWith(s.aetv, tx, db_cardinality, db_cardinality_many, junk))

(* db::last_datom: a cursor is set on the first key past entity e and      *)
(* attribute a and stepped back.  When there is no such key, in this       *)
(* namespace or in a later one (`more'), nothing is found.                 *)
LastDatom(eatv, more, e, a) ==
  LET past  == {d \in eatv : d.e > e \/ (d.e = e /\ d.a > a)}
      group == {d \in eatv : d.e = e /\ d.a = a}
  IN  IF group # {} /\ (past # {} \/ more) THEN {Latest(group)} ELSE {}

=============================================================================
