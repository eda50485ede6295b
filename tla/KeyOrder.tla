------------------------------ MODULE KeyOrder ------------------------------
(***************************************************************************)
(* The order of the keys in the database: db::custom_key_compare, which    *)
(* LMDB calls to place and to find every key.  Each difference of columns  *)
(* is computed in 64 bits, tested for zero and returned as an int: the     *)
(* result is its low 32 bits.  The map is the set of keys it holds; a put  *)
(* whose key compares equal to one that is there replaces that one's data  *)
(* and adds no key.                                                        *)
(***************************************************************************)
EXTENDS Integers, FiniteSets

CONSTANTS
  IntHalf,   \* 2^31: an int holds -IntHalf .. IntHalf - 1
  Keys,      \* the keys the program may put
  MaxKeys    \* bound: how many different keys are put

ASSUME IntHalfAssumption == IntHalf \in Nat \ {0}

VARIABLES
  index,     \* the keys in the map
  puts       \* history: the keys that were put

vars == <<index, puts>>

-----------------------------------------------------------------------------
KEY_META         == 0
KEY_UNIQUE       == 1
KEY_TX_LOG       == 2
KEY_MIN_SENTINEL == 3
KEY_INTEGER      == 4
KEY_BLOB         == 5

MAKE_SORT(s1, s2, s3, s4) == s1 + 4 * s2 + 16 * s3 + 64 * s4
SORT_EATV == MAKE_SORT(0, 1, 3, 2)
SORT_AETV == MAKE_SORT(1, 0, 3, 2)

(* struct custom_key.  b is the value: v.i of an integer, else the 32      *)
(* bytes of the union as one number.                                       *)
Key == [ns : Nat, type : KEY_META .. KEY_BLOB, sort : {0, SORT_EATV, SORT_AETV},
        pad : Int, e : Int, a : Int, t : Int, b : Int]

-----------------------------------------------------------------------------
(* Mutant: the sign is lost. *)
ToInt_Unsigned(n) == n % (2 * IntHalf)

(* The conversion of a 64-bit difference to the int that is returned. *)
ToInt(n) ==
  LET low == n % (2 * IntHalf)
  IN  IF low < IntHalf THEN low ELSE low - 2 * IntHalf

(* if (cmp) return cmp; rest *)
Then(cmp, rest) == IF cmp # 0 THEN ToInt(cmp) ELSE rest

memcmp(b, c) == IF b < c THEN -1 ELSE IF b > c THEN 1 ELSE 0

CompareSpecial(x, y) ==
  CASE x.type = KEY_META   -> ToInt(x.e - y.e)
    [] x.type = KEY_UNIQUE -> Then(x.a - y.a, memcmp(x.b, y.b))
    [] x.type = KEY_TX_LOG -> ToInt(x.t - y.t)

(* Mutant: the length of a string does not count. *)
CompareValue_NoPad(x, y) ==
  Then(x.type - y.type,
       IF x.type = KEY_INTEGER THEN Then(x.b - y.b, 0) ELSE memcmp(x.b, y.b))

CompareValue(x, y) ==
  Then(x.type - y.type,
       CASE x.type = KEY_INTEGER -> Then(x.b - y.b, 0)
         [] x.type = KEY_BLOB    -> Then(x.pad - y.pad, memcmp(x.b, y.b))
         [] OTHER                -> 0)

(* Mutant: the transaction counts before entity and attribute. *)
CompareDatom_TimeFirst(x, y) ==
  Then(x.sort - y.sort,
       Then(x.t - y.t, Then(x.e - y.e, Then(x.a - y.a, CompareValue(x, y)))))

CompareDatom(x, y) ==
  Then(x.sort - y.sort,
       IF x.sort = SORT_EATV
         THEN Then(x.e - y.e, Then(x.a - y.a, Then(x.t - y.t, CompareValue(x, y))))
         ELSE Then(x.a - y.a, Then(x.e - y.e, Then(x.t - y.t, CompareValue(x, y)))))

(* The difference of two namespaces is unsigned. *)
Compare(x, y) ==
  Then((x.ns - y.ns) % (2 * IntHalf),
       IF x.type < KEY_MIN_SENTINEL \/ y.type < KEY_MIN_SENTINEL
         THEN Then(x.type - y.type, CompareSpecial(x, y))
         ELSE CompareDatom(x, y))

Before(x, y) == Compare(x, y) < 0

-----------------------------------------------------------------------------
mdb_put(k) ==
  /\ k \in puts \/ Cardinality(puts) < MaxKeys
  /\ index' = IF \E x \in index : Compare(k, x) = 0 THEN index ELSE index \cup {k}
  /\ puts' = puts \cup {k}

Init == index = {} /\ puts = {}

Next == \E k \in Keys : mdb_put(k)

Spec == Init /\ [][Next]_vars

-----------------------------------------------------------------------------
(* The columns of a key in the order they count, META and UNIQUE keys      *)
(* before datoms.  An integer's pad does not count.                        *)
Columns(k) ==
  CASE k.type = KEY_META   -> << k.ns, KEY_META, 0, k.e, 0, 0, 0, 0, 0 >>
    [] k.type = KEY_UNIQUE -> << k.ns, KEY_UNIQUE, 0, k.a, k.b, 0, 0, 0, 0 >>
    [] k.type = KEY_TX_LOG -> << k.ns, KEY_TX_LOG, 0, k.t, 0, 0, 0, 0, 0 >>
    [] k.type >= KEY_MIN_SENTINEL ->
         << k.ns, KEY_MIN_SENTINEL, k.sort,
            IF k.sort = SORT_EATV THEN k.e ELSE k.a,
            IF k.sort = SORT_EATV THEN k.a ELSE k.e,
            k.t, k.type,
            IF k.type = KEY_BLOB THEN k.pad ELSE 0,
            IF k.type = KEY_MIN_SENTINEL THEN 0 ELSE k.b >>

(* Two keys are the same datom, or the same entry, when all columns agree. *)
SameKey(x, y) == Columns(x) = Columns(y)

(* The lexicographic order. *)
Lex(s, t) ==
  \E i \in 1 .. 9 : s[i] < t[i] /\ \A j \in 1 .. i - 1 : s[j] = t[j]

(* Keys whose columns differ by less than an int can hold. *)
Near(m, n) == m - n \in 1 - IntHalf .. IntHalf - 1

InWindow(x, y) ==
  /\ Near(x.ns, y.ns) /\ Near(x.type, y.type) /\ Near(x.sort, y.sort)
  /\ Near(x.pad, y.pad) /\ Near(x.e, y.e) /\ Near(x.a, y.a) /\ Near(x.t, y.t)
  /\ x.type = KEY_INTEGER /\ y.type = KEY_INTEGER => Near(x.b, y.b)

(* What the proofs assume of the keys the program puts; KEY_MIN_SENTINEL   *)
(* is the type of search keys only.                                        *)
KeysInWindow ==
  /\ Keys \subseteq Key
  /\ \A x \in Keys : x.type # KEY_MIN_SENTINEL
  /\ \A x, y \in Keys : InWindow(x, y)

-----------------------------------------------------------------------------
(* No put is swallowed by another key: for every key that was put the map  *)
(* holds a key with the same columns.                                      *)
NoKeyLost == \A k \in puts : \E x \in index : SameKey(k, x)

(* The comparison is the lexicographic order of the columns on the keys    *)
(* the map holds, and so a strict total order: searches find what was put  *)
(* wherever the tree placed it.                                            *)
CursorOrder == \A x, y \in index : Before(x, y) <=> Lex(Columns(x), Columns(y))

(* Datoms of one entity in EATV, of one attribute in AETV. *)
SameGroup(x, y) ==
  /\ x.ns = y.ns
  /\ x.sort = y.sort
  /\ IF x.sort = SORT_EATV THEN x.e = y.e ELSE x.a = y.a

IsDatom(k) == k.type > KEY_MIN_SENTINEL

(* A scan that starts at a key and stops at the first one of another       *)
(* entity (attribute, for AETV) has visited all of that entity: no foreign *)
(* key lies between two datoms of one group.                               *)
GroupsContiguous ==
  \A x, y, z \in index :
    /\ IsDatom(x) /\ IsDatom(z) /\ SameGroup(x, z)
    /\ Before(x, y) /\ Before(y, z)
    => IsDatom(y) /\ SameGroup(x, y)

(* Keys that differ never compare equal under custom_key_compare. *)
DifferentKeysDiffer ==
  \A x, y \in puts : Compare(x, y) = 0 => SameKey(x, y)

=============================================================================
