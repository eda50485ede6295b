------------------------------- MODULE MCStore -------------------------------
(***************************************************************************)
(* Instances of Store for TLC: the requests clients send in each run.      *)
(* Entity 11 is the first id a namespace hands out and serves as the       *)
(* attribute of most facts; 12 and 13 are entities clients name.           *)
(***************************************************************************)
EXTENDS StoreLog

(* A fact as a client sends it: entity, attribute, value, retract. *)
F(e, a, v, r) == << JInt(e), JInt(a), v, JInt(r) >>

Many(e) == F(e, db_cardinality, JInt(db_cardinality_many), 0)

(* The integers sent to `namespace' and to `facts': -1 names the last      *)
(* namespace and asks for the current facts; the shift of TxWrap overflows.*)
HistoryNsArgs == {-1}
ReaderArgs == {-1, 1, 2, TxWrap}

(* Every shape of fact list handle_transact tells apart: two values of one *)
(* attribute, a retraction listed before the assertion it cancels,         *)
(* temporary ids as entity and as value, a schema value that is a string,  *)
(* a skipped fact before one about a basic entity, and a malformed fact.   *)
HistoryRequests ==
  { << Many(11) >>,
    << F(12, 11, JInt(2), 0), F(12, 11, JInt(1), 0) >>,
    << F(12, 11, JInt(1), 1), F(12, 11, JInt(1), 0) >>,
    << F(-1, db_type, JInt(db_type_ref), 0), F(-2, 11, JInt(-1), 0),
       F(12, 11, JInt(-3), 0) >>,
    << F(11, db_cardinality, JStr(33, 5), 0), F(-1, 13, JOther, 0) >>,
    << F(-1, 11, JInt(1), 0), F(db_unique, 11, JInt(1), 0) >>,
    << << JInt(12), JInt(11) >> >> }

(* Facts that readers see change: two values of an attribute, the schema   *)
(* fact that makes it cardinality many, a retraction, a skipped fact.      *)
ReaderRequests ==
  { << Many(11) >>,
    << F(12, 11, JInt(1), 0), F(12, 11, JInt(2), 0) >>,
    << F(12, 11, JInt(2), 1), F(12, 11, JOther, 0) >> }

(* Identifiers: each entity gets at most one in a transaction, and only    *)
(* 12 ever has the identifier 1, which it may retract.                     *)
IdentRequests ==
  { << F(12, db_ident, JInt(1), 0) >>,
    << F(12, db_ident, JInt(1), 1) >>,
    << F(12, db_ident, JInt(2), 0) >>,
    << F(12, db_ident, JInt(3), 0), F(13, db_ident, JInt(2), 0) >>,
    << F(13, db_ident, JInt(3), 0), F(12, db_ident, JInt(2), 0) >>,
    << F(13, 14, JInt(0), 0) >> }

(* Identifiers, where 13 retracts an identifier it does not have. *)
ForeignRetraction ==
  { << F(12, db_ident, JInt(1), 0) >>,
    << F(13, db_ident, JInt(1), 0) >>,
    << F(13, db_ident, JInt(1), 1) >> }

(* An entity changes its identifier. *)
IdentChange ==
  { << F(12, db_ident, JInt(1), 0) >>,
    << F(12, db_ident, JInt(2), 0) >> }

(* An attribute is declared of type value and then used. *)
ValueAttribute ==
  { << F(11, db_type, JInt(db_type_value), 0) >>,
    << F(12, 11, JInt(-1), 0) >> }

=============================================================================
