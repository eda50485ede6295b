----------------------------- MODULE MCReadBack -----------------------------
(***************************************************************************)
(* What is stored is read back.  Either strings are put (PaddedPut), or    *)
(* the datoms of one entity and attribute are scanned (Datoms), on every   *)
(* set of them up to a bound and not only on the ones transactions leave.  *)
(*                                                                         *)
(* The lengths of strings stand for the classes the code tells apart:      *)
(* bytes in the key (9), filled up (33, 47), a multiple of 8 without a     *)
(* flag (40), with MDB_NOOVERWRITE (48), equal to MDB_CURRENT (64), with   *)
(* the bit of MDB_CURRENT among others (72), on pages of its own (4096),   *)
(* with MDB_RESERVE (65536), MDB_APPEND (131072) and MDB_MULTIPLE          *)
(* (524288).                                                               *)
(***************************************************************************)
EXTENDS PaddedPut

CONSTANT
  Transactions   \* bound: the transactions whose datoms are scanned

VARIABLE
  group          \* the datoms that are scanned

FactsOf(es, as, lens, rs) ==
  {[e |-> e, a |-> a, s |-> [len |-> n, b |-> n], r |-> r] :
     e \in es, a \in as, n \in lens, r \in rs}

ListsOf(S) == {<<f>> : f \in S} \cup {<<f, g>> : f \in S, g \in S}

Lists == ListsOf(FactsOf({11}, {20}, {9, 33, 40, 47, 48, 72, 4096}, {FALSE}))
         \cup ListsOf(FactsOf({11, 12}, {db_type}, {9, 33, 48}, {FALSE}))
         \cup ListsOf(FactsOf({11}, {20}, {33, 48}, BOOLEAN))
         \cup ListsOf(FactsOf({11, 12}, {20}, {9, 64}, {FALSE}))
         \cup ListsOf(FactsOf({11, 12}, {20}, {40, 65536, 131072, 524288}, {FALSE}))

(* Two integers and a string with the bytes of one of them, asserted and   *)
(* retracted.                                                              *)
Universe ==
  {[e |-> 12, a |-> 11, v |-> v, t |-> Stamp(n, retract)] :
     v \in {IntValue(1), IntValue(2), BlobValue(1, 1)},
     n \in 1 .. Transactions, retract \in BOOLEAN}

PutOrScanInit == Init /\ group = {}

(* Datoms come in any order, while nothing was put. *)
Arrives(d) == tx = 1 /\ phase = "idle" /\ group' = group \cup {d} /\ UNCHANGED vars

PutOrScanNext ==
  \/ group = {} /\ Next /\ UNCHANGED group
  \/ \E d \in Universe : Arrives(d)

PutOrScan == PutOrScanInit /\ [][PutOrScanNext]_<<vars, group>>

-----------------------------------------------------------------------------
(* The facts that hold: the assertions no later datom about the same value *)
(* overrides, or no later datom at all when the attribute has one value.   *)
Standing(S, one) ==
  {d \in S : /\ ~IsRetraction(d)
             /\ \A x \in S : Earlier(d, x) => ~one /\ x.v.b # d.v.b}

(* The loop of handle_facts, a map updated key by key, computes the facts  *)
(* that hold, for either cardinality; with cardinality one it leaves at    *)
(* most one.                                                               *)
ScanIsLastWriteWins ==
  \A one \in BOOLEAN : ScanGroup(group, one) = Standing(group, one)

=============================================================================
