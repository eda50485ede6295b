----------------------------- MODULE MCKeyOrder -----------------------------
(***************************************************************************)
(* Instances of KeyOrder for TLC, with an int that holds -256 .. 255.      *)
(***************************************************************************)
EXTENDS KeyOrder

MetaKey(ns, id) ==
  [ns |-> ns, type |-> KEY_META, sort |-> 0, pad |-> 0, e |-> id, a |-> 0,
   t |-> 0, b |-> 0]

UniqueKey(ns, a, b) ==
  [ns |-> ns, type |-> KEY_UNIQUE, sort |-> 0, pad |-> 0, e |-> 0, a |-> a,
   t |-> 0, b |-> b]

DatomKey(ns, sort, e, a, t, type, pad, b) ==
  [ns |-> ns, type |-> type, sort |-> sort, pad |-> pad, e |-> e, a |-> a,
   t |-> t, b |-> b]

(* Keys of all kinds; the columns are as far apart as the window allows. *)
WindowKeys ==
  {MetaKey(ns, id) : ns \in {0, 255}, id \in {0, 1}}
  \cup {UniqueKey(0, 1, b) : b \in {0, 4}}
  \cup {DatomKey(ns, sort, e, a, t, KEY_INTEGER, 0, b) :
          ns \in {0, 255}, sort \in {SORT_EATV, SORT_AETV}, e \in {11, 266},
          a \in {1, 256}, t \in {0, 255}, b \in {-127}}
  \cup {DatomKey(0, SORT_EATV, 11, 1, 3, KEY_INTEGER, 0, b) : b \in {-127, 128}}
  \cup {DatomKey(0, SORT_EATV, 11, 1, 3, KEY_BLOB, pad, b) :
          pad \in {-7, 33}, b \in {0, 1000}}

(* Entities 2 * IntHalf apart: allocated ids near 11 and an explicit one. *)
FarKeys ==
  {DatomKey(0, SORT_EATV, e, 12, 2, KEY_INTEGER, 0, 1) :
     e \in {11, 11 + 2 * IntHalf}}

=============================================================================
