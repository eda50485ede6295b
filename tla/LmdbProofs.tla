------------------------------ MODULE LmdbProofs ------------------------------
(***************************************************************************)
(* Proofs about Lmdb: LmdbInv is inductive, and from it snapshots are      *)
(* intact, the tree found after a crash is whole, and no page is lost, for *)
(* every number of readers, pages and transactions.  The first part        *)
(* follows the pages: the types, why a tree that a reader can see stays    *)
(* guarded, and why every page is in the tree, at hand or listed while a   *)
(* transaction works and commits.                                          *)
(***************************************************************************)
EXTENDS Lmdb, TLAPS

(* The two meta pages are used in turn: mdb_env_write_meta writes the one  *)
(* that is not the published one.                                          *)
LEMMA Parity ==
  ASSUME NEW n \in Nat
  PROVE  /\ n % 2 \in {0, 1} /\ (n + 1) % 2 \in {0, 1} /\ (n + 1) % 2 # n % 2
         /\ n % 2 = 0 => (n + 1) % 2 = 1
         /\ n % 2 = 1 => (n + 1) % 2 = 0
  OBVIOUS

(* What the types say of the meta pages. *)
LEMMA MetaTypes ==
  ASSUME TypeOK, NEW i \in {0, 1}
  PROVE  /\ meta[i].txnid \in Nat /\ meta[i].last \in Nat
         /\ meta[i].main \in Tree /\ meta[i].free \in Free
         /\ meta[i].main.ver \in Nat /\ meta[i].main.pages \subseteq Pages
  BY Zenon DEF TypeOK, Meta, Tree

(* The published meta page and the other one have the types of their       *)
(* fields.                                                                 *)
LEMMA NewestTypes ==
  ASSUME TypeOK
  PROVE  /\ Newest.txnid \in Nat /\ Newest.last \in Nat
         /\ Newest.main \in Tree /\ Newest.free \in Free
         /\ Newest.main.ver \in Nat /\ Newest.main.pages \subseteq Pages
         /\ Other.txnid \in Nat /\ Other.last \in Nat
         /\ Other.main \in Tree /\ Other.free \in Free
         /\ pick_meta \in {Newest, Other}
  <1>1. mti % 2 \in {0, 1} /\ (mti + 1) % 2 \in {0, 1} /\ (mti + 1) % 2 # mti % 2
    BY Parity, Zenon DEF TypeOK
  <1>2. pick_meta \in {meta[0], meta[1]}
    BY Zenon DEF pick_meta
  <1> QED  BY <1>1, <1>2, MetaTypes DEF Newest, Other

-----------------------------------------------------------------------------
(* The first state has its types, whatever the constants. *)
LEMMA TypeInit == Init => TypeOK
  BY LmdbAssumption DEF Init, TypeOK, Meta, Tree, Free, Empty, NoScan, Pages, IDLE

-----------------------------------------------------------------------------
(* The states of the invariant. *)

(* The database db::open leaves satisfies the invariant. *)
LEMMA LmdbInit == Init => LmdbInv
  <1> SUFFICES ASSUME Init PROVE LmdbInv
    BY Zenon
  <1>1. /\ Newest = [txnid |-> 2, main |-> [ver |-> 2, pages |-> {2}], free |-> {}, last |-> 2]
        /\ Other.txnid = 1
    <2>1. mti % 2 = 0 /\ (mti + 1) % 2 = 1
      <3>1. mti = 2
        BY Zenon DEF Init
      <3> QED  BY <3>1
    <2> QED  BY <2>1, Zenon DEF Init, Newest, Other
  <1>2. NewestInv
    BY <1>1, LmdbAssumption DEF Init, NewestInv, Guarded, Divided, Intact, Avoids, Below,
         Active, Saving, Written, Pages
  <1>3. IdleInv /\ ActiveInv /\ SavingInv /\ ScanInv
    BY Zenon DEF Init, IdleInv, ActiveInv, Active, SavingInv, Saving, ScanInv
  <1>4. \A r \in Readers : rpc[r] = "idle" /\ rtmp[r] <= mti
    <2>1. \A r \in Readers : rpc[r] = "idle" /\ rtmp[r] = 0
      BY Zenon DEF Init
    <2>2. 0 <= mti
      BY TypeInit DEF TypeOK
    <2> QED  BY <2>1, <2>2, Zenon
  <1>5. TreesInv
    BY <1>4, Zenon DEF TreesInv
  <1> QED  BY <1>2, <1>3, <1>5, Zenon DEF LmdbInv

(* The tree of a transaction whose meta page is being written is as safe   *)
(* as a guarded one: its pages are on no list and below the last page.     *)
LEMMA NewTreeSafe ==
  ASSUME TypeOK, LmdbInv, Saving, NEW n \in Nat
  PROVE  /\ wpages \subseteq Pages /\ \A p \in wpages : page[p] <= wtx /\ p < wnext
         /\ \A x \in wfree : x.t <= n => x.p \notin wpages
         /\ wtx = mti + 1 /\ pgoldest <= mti
  BY DEF LmdbInv, NewestInv, SavingInv, Divided, Guarded, TypeOK

(* mdb_env_pick_meta finds the published meta page, or the one that is     *)
(* complete and about to be published.                                     *)
LEMMA PickMeta ==
  ASSUME TypeOK, LmdbInv
  PROVE  /\ wpc # "publish" => pick_meta = Newest /\ pick_meta.txnid = mti
         /\ wpc = "publish" => pick_meta = Other /\ pick_meta.txnid = wtx
  <1>1. /\ Newest.txnid = mti /\ mti \in Nat
        /\ wpc # "publish" => Other.txnid < mti
        /\ wpc = "publish" => Other.txnid = wtx /\ wtx = mti + 1
    BY Zenon DEF LmdbInv, NewestInv, SavingInv, Saving, TypeOK
  <1>2. \/ Newest = meta[0] /\ Other = meta[1]
        \/ Newest = meta[1] /\ Other = meta[0]
    BY <1>1, Parity, Zenon DEF Newest, Other
  <1> QED  BY <1>1, <1>2, NewestTypes DEF pick_meta

(* What mdb_env_pick_meta finds is complete and its tree is whole. *)
LEMMA PickWhole ==
  ASSUME TypeOK, LmdbInv
  PROVE  RecoversWhole
  <1>1. CASE wpc # "publish"
    <2>1. pick_meta = Newest /\ NewestInv
      BY <1>1, PickMeta, Zenon DEF LmdbInv
    <2>2. /\ Intact(Newest.main) /\ Newest.main.ver = Newest.txnid
          /\ Newest.txnid = mti /\ \A x \in Newest.free : x.p \notin Newest.main.pages
      BY <2>1, Zenon DEF NewestInv, Guarded, Divided
    <2> QED  BY <2>1, <2>2, Zenon DEF RecoversWhole
  <1>2. CASE wpc = "publish"
    <2>1. Saving /\ pick_meta = Other /\ Other.txnid = wtx /\ Other.free = wfree
          /\ Other.main = [ver |-> wtx, pages |-> wpages] /\ Divided(wpages, wfree, wnext)
      BY <1>2, PickMeta, Zenon DEF LmdbInv, SavingInv, Saving, Written
    <2>2. \A p \in wpages : page[p] <= wtx
      BY <2>1, NewTreeSafe, Zenon DEF TypeOK
    <2>3. Intact(Other.main) /\ Other.main.ver = Other.txnid
      BY <2>1, <2>2 DEF Intact
    <2>4. \A x \in Other.free : x.p \notin Other.main.pages
      BY <2>1 DEF Divided
    <2> QED  BY <1>2, <2>1, <2>3, <2>4, Zenon DEF RecoversWhole
  <1> QED  BY <1>1, <1>2, Zenon

(* The pages up to the last one of the meta page it finds are those of the *)
(* tree and those of the list.                                             *)
LEMMA PickDivided ==
  ASSUME TypeOK, LmdbInv
  PROVE  NoPageLost
  <1>1. ASSUME NEW last \in Nat, last < MaxPg - 1, NEW pages \in SUBSET Pages, NEW free \in Free,
               Divided(pages, free, last + 1)
        PROVE  2 .. last = pages \cup {x.p : x \in free}
    <2>1. ASSUME NEW q \in 2 .. last PROVE q \in pages \cup {x.p : x \in free}
      BY <1>1, <2>1, LmdbAssumption DEF Divided, Pages
    <2>2. ASSUME NEW q \in pages \cup {x.p : x \in free} PROVE q \in 2 .. last
      <3>1. q \in Pages
        BY Zenon DEF Free
      <3>2. q < last + 1
        BY <1>1, <3>1, Zenon DEF Divided
      <3> QED  BY <3>1, <3>2 DEF Pages
    <2> QED  BY <2>1, <2>2, Zenon
  <1>2. CASE wpc # "publish"
    <2>1. pick_meta = Newest /\ NewestInv
      BY <1>2, PickMeta, Zenon DEF LmdbInv
    <2>2. 2 .. Newest.last = Newest.main.pages \cup {x.p : x \in Newest.free}
      <3>1. /\ Newest.last \in Nat /\ Newest.main.pages \in SUBSET Pages /\ Newest.free \in Free
            /\ Newest.last < MaxPg - 1 /\ Divided(Newest.main.pages, Newest.free, Newest.last + 1)
        BY <2>1, NewestTypes, Zenon DEF NewestInv
      <3> QED  BY <1>1, <3>1, Zenon
    <2> QED  BY <2>1, <2>2, Zenon DEF NoPageLost, NewestInv, Divided
  <1>3. CASE wpc = "publish"
    <2>1. pick_meta = Other /\ Other.free = wfree /\ Other.last = wnext - 1
          /\ Other.main = [ver |-> wtx, pages |-> wpages] /\ Divided(wpages, wfree, wnext)
          /\ wnext >= 1 /\ wnext <= MaxPg - 1
      BY <1>3, PickMeta, Zenon DEF LmdbInv, SavingInv, Saving, Written
    <2>2. PICK last \in Nat : last = wnext - 1 /\ last < MaxPg - 1 /\ last + 1 = wnext
      BY <2>1, LmdbAssumption DEF TypeOK
    <2>3. wpages \in SUBSET Pages /\ wfree \in Free
      BY Zenon DEF TypeOK
    <2>4. Divided(wpages, wfree, last + 1)
      BY <2>1, <2>2, Zenon
    <2>5. 2 .. last = wpages \cup {x.p : x \in wfree}
      BY <1>1, <2>2, <2>3, <2>4, Zenon
    <2> QED  BY <2>1, <2>2, <2>5 DEF NoPageLost, Divided
  <1> QED  BY <1>2, <1>3, Zenon

-----------------------------------------------------------------------------
(* Types. *)

(* Every reader step keeps the types. *)
LEMMA ReaderType ==
  ASSUME TypeOK, LmdbInv, NEW r \in Readers, ReaderStep(r)
  PROVE  TypeOK'
  <1> USE DEF TypeOK, readerVars, treeVars, listVars
  <1>1. CASE renew_load(r)
    BY <1>1, Zenon DEF renew_load
  <1>2. CASE renew_store(r)
    BY <1>2, Zenon DEF renew_store
  <1>3. CASE renew_check(r)
    BY <1>3, Zenon DEF renew_check
  <1>4. CASE renew_copy(r)
    <2>1. slot[r] \in Nat
      BY <1>4, Zenon DEF LmdbInv, TreesInv, renew_copy
    <2>2. meta[slot[r] % 2].main \in Tree
      BY <2>1, Parity, MetaTypes, Zenon
    <2> QED  BY <1>4, <2>2, Zenon DEF renew_copy
  <1>5. CASE mdb_txn_reset(r)
    BY <1>5, Zenon DEF mdb_txn_reset, Empty, Tree
  <1> QED  BY <1>1, <1>2, <1>3, <1>4, <1>5, Zenon DEF ReaderStep

(* Every step of the allocation of pages keeps the types. *)
LEMMA PageType ==
  ASSUME TypeOK, LmdbInv, PageStep
  PROVE  TypeOK'
  <1> USE DEF TypeOK, readerVars, treeVars, listVars
  <1>0. wpc \in {"active", "scan"} => wtx = mti + 1
    BY Zenon DEF LmdbInv, ActiveInv, Active
  <1>1. CASE find_oldest_start
    BY <1>0, <1>1 DEF find_oldest_start, NothingAtHand
  <1>2. CASE find_oldest_end
    BY <1>2, Zenon DEF find_oldest_end
  <1>3. ASSUME NEW r \in Readers, mdb_find_oldest(r)
        PROVE  TypeOK'
    BY <1>3, Zenon DEF mdb_find_oldest
  <1>4. ASSUME NEW k \in 1 .. MaxTxn, page_fetch(k)
        PROVE  TypeOK'
    <2>1. pghead' \subseteq Pages
      BY <1>4 DEF page_fetch, Free
    <2>2. pglast' \in Nat
      BY <1>4, LmdbAssumption DEF page_fetch
    <2> QED  BY <1>4, <2>1, <2>2, Zenon DEF page_fetch
  <1>5. ASSUME NEW p \in Pages, NEW np \in Pages, mdb_page_touch(p, np)
        PROVE  TypeOK'
    BY <1>5 DEF mdb_page_touch, page_dirty, NoScan
  <1>6. ASSUME NEW np \in Pages, mdb_page_new(np)
        PROVE  TypeOK'
    BY <1>6 DEF mdb_page_new, page_dirty, NoScan
  <1>7. ASSUME NEW p \in Pages, mdb_page_loose(p)
        PROVE  TypeOK'
    BY <1>7, ZenonT(120) DEF mdb_page_loose
  <1> QED  BY <1>1, <1>2, <1>3, <1>4, <1>5, <1>6, <1>7, Zenon DEF PageStep

(* What mdb_freelist_save makes of the list is such a list. *)
LEMMA FreelistType ==
  ASSUME TypeOK
  PROVE  freelist_save \in Free
  <1> DEFINE kept == {x \in wfree : x.t > pglast}
             back(S, k) == {[t |-> k, p |-> q] : q \in S}
  <1>1. kept \in Free
    BY Zenon DEF TypeOK, Free
  <1>2. ASSUME NEW S \in SUBSET Pages, NEW k \in Nat
        PROVE  back(S, k) \in Free
    BY DEF Free
  <1>3. /\ (IF pglast = 0 THEN {} ELSE pghead \cup loose) \in SUBSET Pages
        /\ (IF pglast = 0 THEN freed \cup loose ELSE freed) \in SUBSET Pages
        /\ pglast \in Nat /\ wtx \in Nat
    BY Zenon DEF TypeOK
  <1>4. /\ back(IF pglast = 0 THEN {} ELSE pghead \cup loose, pglast) \in Free
        /\ back(IF pglast = 0 THEN freed \cup loose ELSE freed, wtx) \in Free
    BY <1>2, <1>3, Zenon
  <1> QED  BY <1>1, <1>4, Zenon DEF freelist_save, Free

(* Every step that ends the write transaction keeps the types. *)
LEMMA EndType ==
  ASSUME TypeOK, LmdbInv, EndStep
  PROVE  TypeOK'
  <1> USE DEF TypeOK, readerVars, treeVars, listVars
  <1>0. toggle \in {0, 1}
    BY Parity, Zenon DEF toggle
  <1>1. CASE mdb_txn_abort
    BY <1>1, Zenon DEF mdb_txn_abort, txn_end, NoScan, Free
  <1>2. ASSUME NEW again \in BOOLEAN, commit_failed(again)
        PROVE  TypeOK'
    BY <1>2, Zenon DEF commit_failed, txn_end, NoScan, Free
  <1>3. CASE mdb_txn_commit
    BY <1>3, FreelistType, Zenon DEF mdb_txn_commit
  <1>4. CASE commit_nothing
    BY <1>4, Zenon DEF commit_nothing, txn_end, NoScan, Free
  <1>5. CASE meta_free
    BY <1>0, <1>5 DEF meta_free, Meta
  <1>6. CASE meta_main
    <2>1. [ver |-> wtx, pages |-> wpages] \in Tree
      BY Zenon DEF Tree
    <2> QED  BY <1>0, <1>6, <2>1, SMTT(30) DEF meta_main, Meta
  <1>7. CASE meta_last
    <2>1. wnext - 1 \in Nat
      BY <1>7 DEF meta_last, LmdbInv, SavingInv, Saving
    <2> QED  BY <1>0, <1>7, <2>1, SMTT(30) DEF meta_last, Meta
  <1>8. CASE meta_txnid
    BY <1>0, <1>8 DEF meta_txnid, Meta
  <1>9. CASE publish
    BY <1>9, Zenon DEF publish, txn_end, NoScan, Free
  <1> QED  BY <1>1, <1>2, <1>3, <1>4, <1>5, <1>6, <1>7, <1>8, <1>9, Zenon DEF EndStep

(* Beginning a transaction and a restart keep the types. *)
LEMMA BeginType ==
  ASSUME TypeOK, mdb_txn_begin \/ crash
  PROVE  TypeOK'
  <1>1. CASE mdb_txn_begin
    <2>1. /\ meta[mti % 2].main.pages \subseteq Pages /\ meta[mti % 2].free \in Free
          /\ meta[mti % 2].last + 1 \in Nat /\ mti + 1 \in Nat
      BY NewestTypes DEF Newest, TypeOK
    <2> QED  BY <1>1, <2>1, Zenon DEF mdb_txn_begin, TypeOK, readerVars
  <1>2. CASE crash
    <2>1. pick_meta.txnid \in Nat
      BY NewestTypes, Zenon
    <2> QED  BY <1>2, <2>1, Zenon DEF crash, txn_end, NoScan, Free, Tree, Empty, IDLE, TypeOK
  <1> QED  BY <1>1, <1>2, Zenon

(* Every step keeps the types, given the invariant. *)
LEMMA TypeStep ==
  ASSUME TypeOK, LmdbInv, [Next]_vars
  PROVE  TypeOK'
  <1>1. CASE UNCHANGED vars
    BY <1>1, Zenon DEF vars, readerVars, treeVars, listVars, TypeOK
  <1>2. ASSUME NEW r \in Readers, ReaderStep(r)
        PROVE  TypeOK'
    BY <1>2, ReaderType, Zenon
  <1>3. CASE PageStep
    BY <1>3, PageType, Zenon
  <1>4. CASE EndStep
    BY <1>4, EndType, Zenon
  <1>5. CASE mdb_txn_begin \/ crash
    BY <1>5, BeginType, Zenon
  <1> QED  BY <1>1, <1>2, <1>3, <1>4, <1>5, Zenon DEF Next

-----------------------------------------------------------------------------
(* Writing a field of the meta page whose turn it is leaves the published  *)
(* one as it is.                                                           *)
LEMMA WriteOther ==
  ASSUME TypeOK, LmdbInv, meta_free \/ meta_main \/ meta_last \/ meta_txnid
  PROVE  /\ Newest' = Newest /\ mti' = mti /\ wtx = mti + 1 /\ toggle \in {0, 1}
         /\ Other = meta[toggle] /\ Other' = meta'[toggle]
         /\ \A i \in {0, 1} : i # toggle => meta'[i] = meta[i]
  <1>1. wtx = mti + 1 /\ mti' = mti
    BY Zenon DEF LmdbInv, SavingInv, Saving, meta_free, meta_main, meta_last, meta_txnid
  <1>2. mti % 2 \in {0, 1} /\ toggle \in {0, 1} /\ toggle # mti % 2
        /\ (mti + 1) % 2 = toggle
    BY <1>1, Parity, Zenon DEF toggle, TypeOK
  <1>3. \A i \in {0, 1} : i # toggle => meta'[i] = meta[i]
    BY <1>2, Zenon DEF meta_free, meta_main, meta_last, meta_txnid, TypeOK
  <1> QED  BY <1>1, <1>2, <1>3, Zenon DEF Newest, Other

(* A page that mdb_page_alloc returns is in no guarded tree.               *)
LEMMA AllocatedUnseen ==
  ASSUME TypeOK, LmdbInv, wpc = "active", NEW np \in Pages, Allocated(np),
         NEW n \in Nat, NEW T \in Tree, Guarded(n, T)
  PROVE  np \notin T.pages
  <1>1. T.ver <= mti /\ Below(T, Newest.last + 1)
        /\ T.pages \cap (dirty \cup loose \cup pghead) = {}
    BY Zenon DEF Guarded, Active, Written
  <1>2. Newest.last < wnext
    BY Zenon DEF LmdbInv, ActiveInv, Active
  <1>3. CASE np \in loose \cup pghead
    BY <1>1, <1>3, Zenon
  <1>4. CASE np = wnext
    BY <1>1, <1>2, <1>4, NewestTypes DEF Below, TypeOK
  <1> QED  BY <1>3, <1>4, Zenon DEF Allocated

(* The record that is fetched holds no page of a guarded tree: its number  *)
(* is below the oldest reader's.                                           *)
LEMMA FetchedUnseen ==
  ASSUME TypeOK, LmdbInv, NEW k \in 1 .. MaxTxn, page_fetch(k),
         NEW n \in Nat, NEW T \in Tree, Guarded(n, T)
  PROVE  T.pages \cap pghead' = {}
  <1>1. wpc = "active" /\ wfree = Newest.free
    BY Zenon DEF page_fetch, NothingAtHand, LmdbInv, ActiveInv, Active
  <1>2. T.ver <= mti /\ Avoids(wfree, n, T) /\ pgoldest <= n
    BY <1>1, Zenon DEF Guarded, Written
  <1>3. IsNextRecord(k) /\ k \in Records /\ ~(pgoldest <= k)
    BY Zenon DEF page_fetch, TooRecent, IsNextRecord
  <1>4. k <= n
    BY <1>2, <1>3, LmdbAssumption DEF TypeOK
  <1> QED  BY <1>2, <1>4, Zenon DEF Avoids, page_fetch

(* The list mdb_freelist_save writes has no page of a guarded tree in a    *)
(* record up to n.                                                         *)
LEMMA SavedUnseen ==
  ASSUME TypeOK, LmdbInv, wpc = "active",
         NEW n \in Nat, n <= mti, NEW T \in Tree, Guarded(n, T)
  PROVE  Avoids(freelist_save, n, T)
  <1>1. wtx = mti + 1 /\ wfree = Newest.free
    BY Zenon DEF LmdbInv, ActiveInv, Active
  <1>2. /\ Avoids(wfree, n, T)
        /\ T.pages \cap (dirty \cup loose \cup pghead) = {}
    BY <1>1, Zenon DEF Guarded, Active, Written
  <1>3. SUFFICES ASSUME NEW x \in freelist_save, x.t <= n
                 PROVE  x.p \notin T.pages
    BY Zenon DEF Avoids
  <1>4. CASE x \in wfree
    BY <1>2, <1>3, <1>4, Zenon DEF Avoids
  <1>5. ASSUME NEW q \in pghead \cup loose, x = [t |-> pglast, p |-> q]
        PROVE  x.p \notin T.pages
    BY <1>2, <1>5, Zenon
  <1>6. ASSUME NEW q, x = [t |-> wtx, p |-> q]
        PROVE  x.p \notin T.pages
    BY <1>1, <1>3, <1>6 DEF TypeOK
  <1> QED  BY <1>4, <1>5, <1>6, Zenon DEF freelist_save

(* A guarded tree stays guarded: no step of a reader or of the writer      *)
(* changes a page of it, or brings one of its pages closer to being used.  *)
LEMMA GuardKept ==
  ASSUME TypeOK, LmdbInv, [Next]_vars, ~crash,
         NEW n \in Nat, n <= mti, NEW T \in Tree, Guarded(n, T),
         wpc = "scan" /\ scan.left = {} => scan.old <= n
  PROVE  Guarded(n, T)'
  <1> USE DEF readerVars, treeVars, listVars
  <1>0. T.ver \in Nat /\ T.pages \subseteq Pages
    BY Zenon DEF Tree
  <1>1. CASE UNCHANGED vars
    BY <1>1, Zenon DEF vars, Guarded, Newest, Intact, Avoids, Below, Active, Saving, Written
  <1>2. ASSUME NEW r \in Readers, ReaderStep(r)
        PROVE  Guarded(n, T)'
    BY <1>2, ZenonT(30) DEF ReaderStep, renew_load, renew_store, renew_check, renew_copy,
         mdb_txn_reset, Guarded, Newest, Intact, Avoids, Below, Active, Saving, Written
  <1>3. CASE mdb_txn_begin
    <2>1. pghead = {}
      BY <1>3, Zenon DEF mdb_txn_begin, LmdbInv, IdleInv
    <2> QED  BY <1>3, <2>1, Zenon DEF mdb_txn_begin, Guarded, Newest, Intact, Avoids, Below,
               Active, Saving, Written
  <1>4. CASE PageStep
    <2>1. CASE find_oldest_start
      BY <2>1, Zenon DEF find_oldest_start, NothingAtHand, Guarded, Newest, Intact, Avoids,
           Below, Active, Saving, Written
    <2>2. CASE find_oldest_end
      BY <2>2, Zenon DEF find_oldest_end, Guarded, Newest, Intact, Avoids, Below, Active,
           Saving, Written
    <2>3. ASSUME NEW r \in Readers, mdb_find_oldest(r)
          PROVE  Guarded(n, T)'
      BY <2>3, Zenon DEF mdb_find_oldest, Guarded, Newest, Intact, Avoids, Below, Active,
           Saving, Written
    <2>4. ASSUME NEW k \in 1 .. MaxTxn, page_fetch(k)
          PROVE  Guarded(n, T)'
      <3>1. T.pages \cap pghead' = {}
        BY <2>4, FetchedUnseen, Zenon
      <3> QED  BY <2>4, <3>1, Zenon DEF page_fetch, NothingAtHand, Guarded, Newest, Intact,
                 Avoids, Below, Active, Saving, Written
    <2>5. ASSUME NEW np \in Pages, page_dirty(np), wpc = "active",
                 UNCHANGED <<meta, mti, wpc, pgoldest>>
          PROVE  Guarded(n, T)'
      <3>1. np \notin T.pages
        BY <2>5, AllocatedUnseen, Zenon DEF page_dirty
      <3>2. Intact(T)'
        BY <1>0, <2>5, <3>1, Zenon DEF page_dirty, Guarded, Intact, TypeOK
      <3>3. T.pages \cap (dirty \cup loose \cup pghead)' = {}
        BY <2>5, <3>1, Zenon DEF page_dirty, Guarded, Active
      <3> QED  BY <2>5, <3>2, <3>3, Zenon DEF Guarded, Newest, Avoids, Below, Active, Saving,
                 Written
    <2>6. ASSUME NEW p \in Pages, mdb_page_loose(p)
          PROVE  Guarded(n, T)'
      BY <2>6, Zenon DEF mdb_page_loose, Guarded, Newest, Intact, Avoids, Below, Active,
           Saving, Written
    <2> QED  BY <1>4, <2>1, <2>2, <2>3, <2>4, <2>5, <2>6, Zenon
             DEF PageStep, mdb_page_touch, mdb_page_new
  <1>5. CASE EndStep
    <2>1. CASE mdb_txn_abort \/ (\E again \in BOOLEAN : commit_failed(again))
               \/ commit_nothing
      BY <2>1, Zenon DEF mdb_txn_abort, commit_failed, commit_nothing, txn_end, Guarded,
           Newest, Intact, Avoids, Below, Active, Saving, Written
    <2>2. CASE mdb_txn_commit
      <3>1. Avoids(wfree', n, T)
        BY <2>2, SavedUnseen, Zenon DEF mdb_txn_commit
      <3>2. T.ver <= mti /\ Below(T, Newest.last + 1) /\ Newest.last < wnext
        BY <2>2, Zenon DEF mdb_txn_commit, Guarded, Written, LmdbInv, ActiveInv, Active
      <3>3. Below(T, wnext)
        <4>1. SUFFICES ASSUME NEW p \in T.pages PROVE p < wnext
          BY Zenon DEF Below
        <4>2. p \in Int /\ p < Newest.last + 1
          BY <1>0, <3>2 DEF Below, Pages
        <4> QED  BY <3>2, <4>2, NewestTypes DEF TypeOK
      <3> QED  BY <2>2, <3>1, <3>2, <3>3, Zenon DEF mdb_txn_commit, Guarded, Newest, Intact,
                 Avoids, Below, Active, Saving, Written
    <2>3. CASE meta_free \/ meta_main \/ meta_last \/ meta_txnid
      <3>1. Newest' = Newest
        BY <2>3, WriteOther, Zenon
      <3> QED  BY <2>3, <3>1, Zenon DEF meta_free, meta_main, meta_last, meta_txnid, Guarded,
                 Intact, Avoids, Below, Active, Saving, Written
    <2>4. CASE publish
      <3>1. wtx = mti + 1 /\ Other.free = wfree /\ Other.last = wnext - 1
        BY <2>4, Zenon DEF publish, LmdbInv, SavingInv, Saving, Written
      <3>2. Newest' = Other /\ mti' = mti + 1
        BY <2>4, <3>1, Zenon DEF publish, Newest, Other
      <3>3. Avoids(wfree, n, T) /\ Below(T, wnext)
        BY <2>4, Zenon DEF publish, Guarded, Saving
      <3>4. Newest'.last + 1 = wnext
        BY <3>1, <3>2 DEF TypeOK
      <3> QED  BY <1>0, <2>4, <3>1, <3>2, <3>3, <3>4 DEF publish, txn_end, Guarded,
                 Intact, Avoids, Below, Active, Saving, Written, TypeOK
    <2> QED  BY <1>5, <2>1, <2>2, <2>3, <2>4, Zenon DEF EndStep
  <1> QED  BY <1>1, <1>2, <1>3, <1>4, <1>5, Zenon DEF Next

-----------------------------------------------------------------------------
(* The pages at work while a transaction is active, without the other      *)
(* conditions of ActiveInv.                                                *)
LEMMA BeginActive ==
  ASSUME TypeOK, LmdbInv, mdb_txn_begin
  PROVE  ActiveInv'
  <1>1. pghead = {} /\ pglast = 0
    BY Zenon DEF mdb_txn_begin, LmdbInv, IdleInv
  <1>2. Divided(Newest.main.pages, Newest.free, Newest.last + 1) /\ Newest.last < MaxPg - 1
    BY Zenon DEF LmdbInv, NewestInv
  <1>3. /\ Newest' = Newest /\ mti' = mti /\ wtx' = mti + 1
        /\ wpages' = Newest.main.pages /\ wfree' = Newest.free
        /\ wnext' = Newest.last + 1
        /\ dirty' = {} /\ loose' = {} /\ freed' = {} /\ pghead' = {} /\ pglast' = 0
    BY <1>1, Zenon DEF mdb_txn_begin, Newest
  <1>4. \A x \in Newest.free : x.t > 0 /\ x.p \notin Newest.main.pages
    BY <1>2, NewestTypes DEF Divided, Free
  <1>5. \A p \in Pages : p < wnext' <=>
          (p \in wpages' \/ \E x \in wfree' : x.t > 0 /\ x.p = p)
    BY <1>2, <1>3, <1>4, Zenon DEF Divided
  <1>6. Newest.last < wnext' /\ wnext' <= MaxPg - 1
    BY <1>2, <1>3, NewestTypes, LmdbAssumption
  <1> QED  BY <1>3, <1>4, <1>5, <1>6, Zenon DEF ActiveInv, AtHand

(* A page that is allocated was loose, at hand, or never used.             *)
LEMMA AllocatedFrom ==
  ASSUME TypeOK, LmdbInv, wpc = "active", NEW np \in Pages, Allocated(np)
  PROVE  /\ np \notin wpages /\ np \notin freed
         /\ \A x \in wfree : x.t > pglast => x.p # np
         /\ np \in loose \/ (loose = {} /\ np \in pghead)
            \/ (loose = {} /\ pghead = {} /\ np = wnext)
         /\ np = wnext => np \notin loose \cup pghead
  <1>1. /\ wpages \cap AtHand = {} /\ loose \cap freed = {} /\ pghead \cap freed = {}
        /\ \A x \in wfree : x.t > pglast => x.p \notin wpages \cup AtHand
        /\ \A p \in Pages : p < wnext <=>
             (p \in wpages \cup AtHand \/ \E x \in wfree : x.t > pglast /\ x.p = p)
    BY Zenon DEF LmdbInv, Active, ActiveInv
  <1>n. ~(wnext < wnext)
    BY DEF TypeOK
  <1>2. CASE np \in loose
    BY <1>1, <1>n, <1>2, Zenon DEF AtHand
  <1>3. CASE np \in pghead /\ loose = {}
    BY <1>1, <1>n, <1>3, ZenonT(30) DEF AtHand
  <1>4. CASE np = wnext /\ loose = {} /\ pghead = {}
    BY <1>1, <1>n, <1>4, Zenon DEF AtHand
  <1> QED  BY <1>2, <1>3, <1>4, Zenon DEF Allocated, NothingAtHand

(* Taking a page and putting it in the tree keeps the division of pages;   *)
(* `old' is the set of the pages it replaces.                              *)
LEMMA TakeActive ==
  ASSUME TypeOK, LmdbInv, wpc = "active", NEW np \in Pages, page_dirty(np),
         NEW old \in SUBSET (wpages \ dirty),
         wpages' = (wpages \ old) \cup {np}, freed' = freed \cup old,
         UNCHANGED <<meta, mti, wpc, wtx, wfree, pglast>>
  PROVE  ActiveInv'
  <1> USE DEF page_dirty
  <1>1. ActiveInv /\ Active
    BY Zenon DEF LmdbInv, Active
  <1>2. /\ np \notin wpages /\ np \notin freed
        /\ \A x \in wfree : x.t > pglast => x.p # np
        /\ np \in loose \/ (loose = {} /\ np \in pghead)
           \/ (loose = {} /\ pghead = {} /\ np = wnext)
        /\ np = wnext => np \notin loose \cup pghead
    BY AllocatedFrom, Zenon
  <1>3. Newest' = Newest
    BY Zenon DEF Newest
  <1>4. /\ wtx' = mti' + 1 /\ wfree' = Newest' .free
        /\ dirty' \subseteq wpages'
        /\ pglast' = 0 => pghead' = {}
    BY <1>1, <1>3, Zenon DEF ActiveInv
  <1>5. /\ wpages' \cap AtHand' = {}
        /\ loose' \cap pghead' = {} /\ loose' \cap freed' = {} /\ pghead' \cap freed' = {}
    BY <1>1, <1>2 DEF ActiveInv, AtHand
  <1>6. \A x \in wfree' : x.t > pglast' => x.p \notin wpages' \cup AtHand'
    BY <1>1, <1>2, ZenonT(30) DEF ActiveInv, AtHand
  <1>7. /\ Newest'.last < wnext' /\ wnext' <= MaxPg - 1
    <2>1. Newest.last < wnext /\ wnext <= MaxPg - 1 /\ wnext \in Nat /\ Newest.last \in Nat
      BY <1>1, NewestTypes, Zenon DEF ActiveInv, TypeOK
    <2>2. MaxPg \in Nat /\ np < MaxPg - 1 /\ np \in Nat
      BY LmdbAssumption DEF Pages
    <2>3. wnext' = wnext \/ (wnext' = wnext + 1 /\ np = wnext)
      BY Zenon
    <2> QED  BY <1>3, <2>1, <2>2, <2>3
  <1>8. ASSUME NEW p \in Pages
        PROVE  p \in wpages' \cup AtHand' <=> p \in wpages \cup AtHand \/ p = np
    BY <1>1, <1>2, Zenon DEF ActiveInv, AtHand
  <1>9. ASSUME NEW p \in Pages
        PROVE  p < wnext' <=> p < wnext \/ p = np
    <2>1. np # wnext => np < wnext
      BY <1>1, <1>2, Zenon DEF ActiveInv, AtHand
    <2> QED  BY <2>1 DEF Pages, TypeOK
  <1>10. \A p \in Pages : p < wnext' <=>
           (p \in wpages' \cup AtHand' \/ \E x \in wfree' : x.t > pglast' /\ x.p = p)
    BY <1>1, <1>8, <1>9, Zenon DEF ActiveInv
  <1> QED  BY <1>4, <1>5, <1>6, <1>7, <1>10, Zenon DEF ActiveInv

(* Every step of the allocation of pages keeps their division. *)
LEMMA PageActive ==
  ASSUME TypeOK, LmdbInv, PageStep
  PROVE  ActiveInv'
  <1> USE DEF readerVars, treeVars, listVars
  <1>0. ActiveInv
    BY Zenon DEF LmdbInv
  <1>1. CASE find_oldest_start
    BY <1>0, <1>1, Zenon DEF find_oldest_start, NothingAtHand, ActiveInv, Active, AtHand, Newest
  <1>2. CASE find_oldest_end
    BY <1>0, <1>2, Zenon DEF find_oldest_end, ActiveInv, Active, AtHand, Newest
  <1>3. ASSUME NEW r \in Readers, mdb_find_oldest(r)
        PROVE  ActiveInv'
    BY <1>0, <1>3, Zenon DEF mdb_find_oldest, ActiveInv, Active, AtHand, Newest
  <1>4. ASSUME NEW k \in 1 .. MaxTxn, page_fetch(k)
        PROVE  ActiveInv'
    <2>0. Active /\ k \in Nat /\ pglast \in Nat /\ wfree \in Free
      BY <1>4, LmdbAssumption DEF page_fetch, NothingAtHand, Active, TypeOK
    <2>1. /\ pghead = {} /\ loose = {} /\ loose' = {} /\ freed' = freed /\ dirty' = dirty
          /\ wpages' = wpages /\ wfree' = wfree /\ pglast' = k /\ wnext' = wnext
          /\ wtx' = wtx /\ mti' = mti /\ Newest' = Newest
          /\ k > pglast /\ \A x \in wfree : x.t > pglast => x.t >= k
      BY <1>4, <2>0, Zenon DEF page_fetch, NothingAtHand, IsNextRecord, Records, Newest, Free
    <2>2. \A q : q \in pghead' <=> \E x \in wfree : x.t = k /\ x.p = q
      BY <1>4, Zenon DEF page_fetch
    <2>3. \A x \in wfree : x.t \in Nat /\ x.p \in Pages
      BY <2>0, Zenon DEF Free
    <2>4. \A x, y \in wfree : x.p = y.p => x = y
      BY <1>0, <2>0, ZenonT(30) DEF LmdbInv, NewestInv, Divided, ActiveInv
    <2>5. \A x \in wfree : x.t > pglast => x.p \notin wpages \cup freed
      BY <1>0, <2>0, Zenon DEF ActiveInv, AtHand
    <2>6. wpages' \cap AtHand' = {} /\ pghead' \cap freed' = {}
      BY <1>0, <2>0, <2>1, <2>2, <2>3, <2>5 DEF ActiveInv, AtHand
    <2>7. \A x \in wfree' : x.t > pglast' => x.p \notin wpages' \cup AtHand'
      <3>1. SUFFICES ASSUME NEW x \in wfree, x.t > k
                     PROVE  x.p \notin wpages \cup pghead' \cup freed
        BY <2>1, Zenon DEF AtHand
      <3>2. x.t > pglast
        BY <2>0, <2>1, <2>3, <3>1
      <3>3. x.p \notin pghead'
        BY <2>0, <2>2, <2>3, <2>4, <3>1
      <3> QED  BY <2>5, <3>2, <3>3, Zenon
    <2>8. ASSUME NEW p \in Pages
          PROVE  p < wnext' <=>
             (p \in wpages' \cup AtHand' \/ \E x \in wfree' : x.t > pglast' /\ x.p = p)
      <3>1. (\E x \in wfree : x.t > pglast /\ x.p = p) <=>
              (p \in pghead' \/ \E x \in wfree : x.t > k /\ x.p = p)
        BY <2>0, <2>1, <2>2, <2>3
      <3>2. p < wnext <=>
             (p \in wpages \cup freed \/ \E x \in wfree : x.t > pglast /\ x.p = p)
        BY <1>0, <2>0, <2>1, Zenon DEF ActiveInv, AtHand
      <3> QED  BY <2>1, <3>1, <3>2, Zenon DEF AtHand
    <2>9. pglast' # 0
      BY <2>0, <2>1
    <2> QED  BY <1>0, <2>0, <2>1, <2>6, <2>7, <2>8, <2>9, Zenon DEF ActiveInv
  <1>5. ASSUME NEW p \in Pages, NEW np \in Pages, mdb_page_touch(p, np)
        PROVE  ActiveInv'
    <2>1. {p} \in SUBSET (wpages \ dirty)
      BY <1>5, Zenon DEF mdb_page_touch
    <2> QED  BY <1>5, <2>1, TakeActive, Zenon DEF mdb_page_touch
  <1>6. ASSUME NEW np \in Pages, mdb_page_new(np)
        PROVE  ActiveInv'
    <2>1. {} \in SUBSET (wpages \ dirty) /\ wpages' = (wpages \ {}) \cup {np}
          /\ freed' = freed \cup {}
      BY <1>6, Zenon DEF mdb_page_new
    <2> QED  BY <1>6, <2>1, TakeActive, Zenon DEF mdb_page_new
  <1>7. ASSUME NEW p \in Pages, mdb_page_loose(p)
        PROVE  ActiveInv'
    <2>1. wpages' \cup AtHand' = wpages \cup AtHand
      BY <1>7, Zenon DEF mdb_page_loose, AtHand
    <2> QED  BY <1>0, <1>7, <2>1 DEF mdb_page_loose, ActiveInv, Active, AtHand, Newest
  <1> QED  BY <1>1, <1>2, <1>3, <1>4, <1>5, <1>6, <1>7, Zenon DEF PageStep

(* Every step keeps the division of pages of an active transaction. *)
LEMMA ActiveStep ==
  ASSUME TypeOK, LmdbInv, [Next]_vars
  PROVE  ActiveInv'
  <1> USE DEF readerVars, treeVars, listVars
  <1>0. ActiveInv
    BY Zenon DEF LmdbInv
  <1>1. CASE UNCHANGED vars
    BY <1>0, <1>1, Zenon DEF vars, ActiveInv, Active, AtHand, Newest
  <1>2. ASSUME NEW r \in Readers, ReaderStep(r)
        PROVE  ActiveInv'
    BY <1>0, <1>2 DEF ReaderStep, renew_load, renew_store, renew_check, renew_copy,
         mdb_txn_reset, ActiveInv, Active, AtHand, Newest
  <1>3. CASE mdb_txn_begin
    BY <1>3, BeginActive, Zenon
  <1>4. CASE PageStep
    BY <1>4, PageActive, Zenon
  <1>5. CASE EndStep \/ crash
    BY <1>5, Zenon DEF EndStep, mdb_txn_abort, commit_failed, mdb_txn_commit, commit_nothing,
         meta_free, meta_main, meta_last, meta_txnid, publish, crash, txn_end,
         ActiveInv, Active
  <1> QED  BY <1>1, <1>2, <1>3, <1>4, <1>5, Zenon DEF Next

(* What mdb_freelist_save writes: a page it lists was listed and not       *)
(* taken, or was at hand, and each only once.                              *)
LEMMA SavedDivided ==
  ASSUME TypeOK, LmdbInv, wpc = "active"
  PROVE  Divided(wpages, freelist_save, wnext)
  <1>1. ActiveInv /\ Active
    BY Zenon DEF LmdbInv, Active
  <1>2. /\ wtx \in Nat /\ wtx >= 1 /\ pglast \in Nat /\ wfree \in Free
        /\ \A x \in wfree : x.t \in Nat /\ x.p \in Pages
    BY <1>1 DEF ActiveInv, TypeOK, Free
  <1>3. \A x, y \in wfree : x.p = y.p => x = y
    BY <1>1, ZenonT(30) DEF LmdbInv, NewestInv, Divided, ActiveInv
  <1> DEFINE left == IF pglast = 0 THEN {} ELSE pghead \cup loose
             gone == IF pglast = 0 THEN freed \cup loose ELSE freed
  <1>4. left \cup gone = AtHand /\ left \cap gone = {}
    BY <1>1, Zenon DEF ActiveInv, AtHand
  <1>5. \A x : x \in freelist_save <=>
          \/ x \in wfree /\ x.t > pglast
          \/ \E q \in left : x = [t |-> pglast, p |-> q]
          \/ \E q \in gone : x = [t |-> wtx, p |-> q]
    BY Zenon DEF freelist_save
  <1>6. \A x \in freelist_save :
          \/ x \in wfree /\ x.t > pglast /\ x.p \notin wpages \cup AtHand
          \/ x.p \in left /\ x = [t |-> pglast, p |-> x.p] /\ pglast >= 1
          \/ x.p \in gone /\ x = [t |-> wtx, p |-> x.p]
    <2>1. SUFFICES ASSUME NEW x \in freelist_save
                   PROVE  \/ x \in wfree /\ x.t > pglast /\ x.p \notin wpages \cup AtHand
                          \/ x.p \in left /\ x = [t |-> pglast, p |-> x.p] /\ pglast >= 1
                          \/ x.p \in gone /\ x = [t |-> wtx, p |-> x.p]
      BY Zenon
    <2>2. CASE x \in wfree /\ x.t > pglast
      BY <1>1, <2>2, Zenon DEF ActiveInv
    <2>3. ASSUME NEW q \in left, x = [t |-> pglast, p |-> q]
          PROVE  x.p \in left /\ x = [t |-> pglast, p |-> x.p] /\ pglast >= 1
      BY <1>2, <2>3
    <2>4. ASSUME NEW q \in gone, x = [t |-> wtx, p |-> q]
          PROVE  x.p \in gone /\ x = [t |-> wtx, p |-> x.p]
      BY <2>4, Zenon
    <2> QED  BY <1>5, <2>1, <2>2, <2>3, <2>4, Zenon
  <1>7. ASSUME NEW p \in Pages
        PROVE  (\E x \in freelist_save : x.p = p) <=>
                 (p \in AtHand \/ \E x \in wfree : x.t > pglast /\ x.p = p)
    <2>1. ASSUME p \in left PROVE \E x \in freelist_save : x.p = p
      <3>1. [t |-> pglast, p |-> p] \in freelist_save
        BY <1>5, <2>1, Zenon
      <3> QED  BY <3>1, Zenon
    <2>2. ASSUME p \in gone PROVE \E x \in freelist_save : x.p = p
      <3>1. [t |-> wtx, p |-> p] \in freelist_save
        BY <1>5, <2>2, Zenon
      <3> QED  BY <3>1, Zenon
    <2>3. p \in AtHand <=> p \in left \/ p \in gone
      BY <1>4, Zenon
    <2>4. ASSUME NEW x \in freelist_save, x.p = p
          PROVE  p \in AtHand \/ \E y \in wfree : y.t > pglast /\ y.p = p
      BY <1>6, <2>3, <2>4, Zenon
    <2>5. ASSUME NEW x \in wfree, x.t > pglast, x.p = p
          PROVE  \E y \in freelist_save : y.p = p
      BY <1>5, <2>5, Zenon
    <2> QED  BY <2>1, <2>2, <2>3, <2>4, <2>5, Zenon
  <1>8. \A p \in Pages : p < wnext <=> (p \in wpages \/ \E x \in freelist_save : x.p = p)
    BY <1>1, <1>7, Zenon DEF ActiveInv
  <1>9. \A x \in freelist_save : x.p \notin wpages /\ x.t >= 1
    <2>1. SUFFICES ASSUME NEW x \in freelist_save
                   PROVE  x.p \notin wpages /\ x.t >= 1
      BY Zenon
    <2>2. CASE x \in wfree /\ x.t > pglast /\ x.p \notin wpages \cup AtHand
      BY <1>2, <2>2
    <2>3. CASE x.p \in left /\ x = [t |-> pglast, p |-> x.p] /\ pglast >= 1
      BY <1>1, <1>4, <2>3 DEF ActiveInv
    <2>4. CASE x.p \in gone /\ x = [t |-> wtx, p |-> x.p]
      BY <1>1, <1>2, <1>4, <2>4 DEF ActiveInv
    <2> QED  BY <1>6, <2>2, <2>3, <2>4, Zenon
  <1>10. ASSUME NEW x \in freelist_save, NEW y \in freelist_save, x.p = y.p
         PROVE  x = y
    <2> HIDE DEF left, gone
    <2> QED  BY <1>3, <1>4, <1>6, <1>10, Zenon
  <1> QED  BY <1>8, <1>9, <1>10, Zenon DEF Divided

(* Every step keeps what is known of a transaction that is being committed *)
(* and of the meta page it writes.                                         *)
LEMMA SavingStep ==
  ASSUME TypeOK, LmdbInv, [Next]_vars
  PROVE  SavingInv'
  <1> USE DEF readerVars, treeVars, listVars
  <1>0. SavingInv
    BY Zenon DEF LmdbInv
  <1>1. CASE UNCHANGED vars
    BY <1>0, <1>1, Zenon DEF vars, SavingInv, Saving, Written, Divided, Other
  <1>2. ASSUME NEW r \in Readers, ReaderStep(r)
        PROVE  SavingInv'
    BY <1>0, <1>2, ZenonT(60) DEF ReaderStep, renew_load, renew_store, renew_check, renew_copy,
         mdb_txn_reset, SavingInv, Saving, Written, Divided, Other
  <1>3. CASE mdb_txn_begin \/ PageStep \/ crash
    BY <1>3, ZenonT(30) DEF mdb_txn_begin, PageStep, find_oldest_start, find_oldest_end,
         mdb_find_oldest, page_fetch, NothingAtHand, mdb_page_touch, mdb_page_new,
         mdb_page_loose, crash, txn_end, SavingInv, Saving
  <1>4. CASE mdb_txn_commit
    <2>1. Divided(wpages, wfree, wnext)'
      BY <1>4, SavedDivided, Zenon DEF mdb_txn_commit, Divided
    <2>2. wtx = mti + 1 /\ Newest.last < wnext /\ wnext <= MaxPg - 1
      BY <1>4, Zenon DEF mdb_txn_commit, LmdbInv, ActiveInv, Active
    <2>3. wnext >= 1
      BY <2>2, NewestTypes DEF TypeOK
    <2> QED  BY <1>4, <2>1, <2>2, <2>3, Zenon DEF mdb_txn_commit, SavingInv, Saving, Written
  <1>5. CASE meta_free \/ meta_main \/ meta_last \/ meta_txnid
    <2>1. /\ mti' = mti /\ wtx = mti + 1 /\ toggle \in {0, 1} /\ Saving
          /\ Other = meta[toggle] /\ Other' = meta'[toggle]
      BY <1>5, WriteOther, Zenon DEF Saving, meta_free, meta_main, meta_last, meta_txnid
    <2>2. /\ meta[toggle] \in Meta /\ meta \in [{0, 1} -> Meta]
          /\ Divided(wpages, wfree, wnext) /\ Divided(wpages, wfree, wnext)'
      BY <1>0, <1>5, <2>1 DEF SavingInv, TypeOK, meta_free, meta_main, meta_last,
           meta_txnid, Divided
    <2>3. CASE meta_free
      BY <1>0, <2>1, <2>2, <2>3, Zenon DEF meta_free, SavingInv, Saving, Written, Meta
    <2>4. CASE meta_main
      BY <1>0, <2>1, <2>2, <2>4, Zenon DEF meta_main, SavingInv, Saving, Written, Meta
    <2>5. CASE meta_last
      BY <1>0, <2>1, <2>2, <2>5, Zenon DEF meta_last, SavingInv, Saving, Written, Meta
    <2>6. CASE meta_txnid
      BY <1>0, <2>1, <2>2, <2>6, Zenon DEF meta_txnid, SavingInv, Saving, Written, Meta
    <2> QED  BY <1>5, <2>3, <2>4, <2>5, <2>6, Zenon
  <1>6. CASE mdb_txn_abort \/ (\E again \in BOOLEAN : commit_failed(again))
             \/ commit_nothing \/ publish
    BY <1>6, Zenon DEF mdb_txn_abort, commit_failed, commit_nothing, publish, txn_end,
         SavingInv, Saving
  <1> QED  BY <1>1, <1>2, <1>3, <1>4, <1>5, <1>6, Zenon DEF Next, EndStep

(* Between transactions nothing is at hand: mdb_txn_end drops the pages    *)
(* taken from the list.                                                    *)
LEMMA IdleStep ==
  ASSUME TypeOK, LmdbInv, [Next]_vars
  PROVE  IdleInv'
  <1> USE DEF readerVars, treeVars, listVars
  <1>0. IdleInv
    BY Zenon DEF LmdbInv
  <1>1. CASE UNCHANGED vars
    BY <1>0, <1>1, Zenon DEF vars, IdleInv
  <1>2. ASSUME NEW r \in Readers, ReaderStep(r)
        PROVE  IdleInv'
    BY <1>0, <1>2, Zenon DEF ReaderStep, renew_load, renew_store, renew_check, renew_copy,
         mdb_txn_reset, IdleInv
  <1>3. CASE mdb_txn_begin \/ PageStep \/ crash
    BY <1>3, Zenon DEF mdb_txn_begin, PageStep, find_oldest_start, find_oldest_end,
         mdb_find_oldest, page_fetch, NothingAtHand, mdb_page_touch, mdb_page_new,
         mdb_page_loose, crash, txn_end, IdleInv
  <1>4. CASE EndStep
    BY <1>4, Zenon DEF EndStep, mdb_txn_abort, commit_failed, mdb_txn_commit, commit_nothing,
         meta_free, meta_main, meta_last, meta_txnid, publish, txn_end, IdleInv
  <1> QED  BY <1>1, <1>2, <1>3, <1>4, Zenon DEF Next

(* While mdb_find_oldest looks at the slots, the oldest transaction found  *)
(* so far bounds the readers it has passed, even those that register while *)
(* it looks: they register at the published transaction.                   *)
LEMMA ScanStep ==
  ASSUME TypeOK, LmdbInv, [Next]_vars
  PROVE  ScanInv'
  <1> USE DEF readerVars, treeVars, listVars
  <1>0. ScanInv /\ TreesInv
    BY Zenon DEF LmdbInv
  <1>1. CASE UNCHANGED vars
    BY <1>0, <1>1, Zenon DEF vars, ScanInv, Registered
  <1>2. ASSUME NEW r \in Readers, ReaderStep(r)
        PROVE  ScanInv'
    <2>1. /\ UNCHANGED <<wpc, scan, mti>>
          /\ \A q \in Readers \ {r} : rpc'[q] = rpc[q] /\ slot'[q] = slot[q]
      BY <1>2, ZenonT(30) DEF ReaderStep, renew_load, renew_store, renew_check, renew_copy,
           mdb_txn_reset, TypeOK
    <2>2. Registered(r)' => slot'[r] = slot[r] /\ (Registered(r) \/ slot[r] = mti)
      BY <1>2, ZenonT(30) DEF ReaderStep, renew_load, renew_store, renew_check, renew_copy,
           mdb_txn_reset, TypeOK, Registered
    <2> QED  BY <1>0, <2>1, <2>2, Zenon DEF ScanInv, Registered
  <1>3. CASE find_oldest_start
    <2>1. wtx = mti + 1
      BY <1>3, Zenon DEF find_oldest_start, NothingAtHand, LmdbInv, ActiveInv, Active
    <2> QED  BY <1>3, <2>1 DEF find_oldest_start, ScanInv, TypeOK
  <1>4. ASSUME NEW r \in Readers, mdb_find_oldest(r)
        PROVE  ScanInv'
    <2>1. /\ scan'.left = scan.left \ {r} /\ scan'.old \in Nat /\ scan'.old <= scan.old
          /\ slot[r] \in Nat => scan'.old <= slot[r]
      BY <1>4 DEF mdb_find_oldest, TypeOK, IDLE
    <2>2. Registered(r) => slot[r] \in Nat
      BY <1>0, Zenon DEF TreesInv, Registered
    <2>3. ASSUME NEW q \in Readers \ scan'.left, Registered(q)
          PROVE  scan'.old <= slot[q]
      <3>1. CASE q = r
        BY <2>1, <2>2, <2>3, <3>1, Zenon
      <3>2. CASE q # r
        <4>1. scan.old <= slot[q] /\ slot[q] \in Nat /\ scan.old \in Nat
          BY <1>0, <1>4, <2>1, <2>3, <3>2, Zenon DEF mdb_find_oldest, ScanInv, TreesInv,
               Registered, TypeOK
        <4> QED  BY <2>1, <4>1
      <3> QED  BY <3>1, <3>2, Zenon
    <2>4. scan'.old <= mti
      BY <1>0, <1>4, <2>1 DEF mdb_find_oldest, ScanInv, TypeOK
    <2> QED  BY <1>4, <2>3, <2>4, Zenon DEF mdb_find_oldest, ScanInv, Registered
  <1>5. CASE mdb_txn_begin \/ crash \/ EndStep
    BY <1>5, Zenon DEF mdb_txn_begin, crash, EndStep, mdb_txn_abort, commit_failed,
         mdb_txn_commit, commit_nothing, meta_free, meta_main, meta_last, meta_txnid,
         publish, txn_end, ScanInv
  <1>6. ASSUME PageStep, ~find_oldest_start, \A r \in Readers : ~mdb_find_oldest(r)
        PROVE  ScanInv'
    BY <1>6, Zenon DEF PageStep, find_oldest_end, page_fetch, NothingAtHand, mdb_page_touch,
         mdb_page_new, mdb_page_loose, ScanInv
  <1> QED  BY <1>1, <1>2, <1>3, <1>4, <1>5, <1>6, Zenon DEF Next

-----------------------------------------------------------------------------

(* Once the transaction number is in its meta page, that page becomes the  *)
(* newest one, by the publication or by a restart.                         *)
LEMMA Published ==
  ASSUME TypeOK, LmdbInv, wpc = "publish",
         wpc' = "idle", mti' = wtx, UNCHANGED <<page, meta>>, pgoldest' <= pgoldest,
         pgoldest' \in Nat
  PROVE  NewestInv'
  <1>1. Saving /\ wtx = mti + 1 /\ mti \in Nat /\ wnext \in Nat /\ pgoldest \in Nat
    BY Zenon DEF LmdbInv, SavingInv, Saving, TypeOK
  <1>2. Newest' = Other /\ Other' = Newest
    <2>1. (wtx + 1) % 2 = mti % 2
      BY <1>1
    <2> QED  BY <1>1, <2>1, Zenon DEF Newest, Other
  <1>3. /\ Other.free = wfree /\ Other.main = [ver |-> wtx, pages |-> wpages]
        /\ Other.last = wnext - 1 /\ Other.txnid = wtx
        /\ Divided(wpages, wfree, wnext) /\ wnext >= 1 /\ wnext <= MaxPg - 1
    BY Zenon DEF LmdbInv, SavingInv, Saving, Written
  <1>4. /\ \A p \in wpages : page[p] <= wtx /\ p < wnext
        /\ \A x \in wfree : x.t <= wtx => x.p \notin wpages
        /\ pgoldest <= mti
    BY <1>1, NewTreeSafe
  <1>5. wnext - 1 + 1 = wnext
    BY <1>1
  <1>6. Guarded(mti, Newest.main)'
    <2>1. pgoldest' <= wtx /\ wtx <= wtx
      BY <1>1, <1>4
    <2> QED  BY <1>2, <1>3, <1>4, <1>5, <2>1
             DEF Guarded, Intact, Avoids, Below, Saving, Active, Written
  <1>7. Divided(Newest.main.pages, Newest.free, Newest.last + 1)'
    BY <1>2, <1>3, <1>5 DEF Divided
  <1>8. Newest'.last < MaxPg - 1
    BY <1>1, <1>2, <1>3, LmdbAssumption
  <1>9. Other'.txnid < mti'
    BY <1>1, <1>2 DEF LmdbInv, NewestInv
  <1>10. \A p \in Pages : page'[p] <= mti' + 1
    <2>1. \A p \in Pages : page'[p] = page[p] /\ page[p] \in Nat /\ page[p] <= mti + 1
      BY Zenon DEF LmdbInv, NewestInv, TypeOK
    <2> QED  BY <1>1, <2>1
  <1>11. Newest'.txnid = mti' /\ Newest'.main.ver = mti'
    BY <1>2, <1>3
  <1> QED  BY <1>6, <1>7, <1>8, <1>9, <1>10, <1>11, Zenon DEF NewestInv

(* A restart finds a meta page that is whole. *)
LEMMA CrashNewest ==
  ASSUME TypeOK, LmdbInv, crash
  PROVE  NewestInv'
  <1>1. wpc' = "idle" /\ mti' = pick_meta.txnid /\ UNCHANGED <<page, meta>> /\ pgoldest' = 0
    BY Zenon DEF crash, txn_end
  <1>2. CASE wpc = "publish"
    <2>1. mti' = wtx /\ pgoldest' <= pgoldest
      <3>1. pgoldest \in Nat
        BY Zenon DEF TypeOK
      <3>2. 0 <= pgoldest
        BY <3>1
      <3> QED  BY <1>1, <1>2, <3>2, PickMeta, Zenon
    <2> QED  BY <1>1, <1>2, <2>1, Published, Zenon
  <1>3. CASE wpc # "publish"
    <2>1. mti' = mti /\ Newest' = Newest /\ Other' = Other /\ mti >= 0
      <3>1. mti \in Nat
        BY Zenon DEF TypeOK
      <3>2. mti >= 0
        BY <3>1
      <3> QED  BY <1>1, <1>3, <3>2, PickMeta, Zenon DEF Newest, Other
    <2>2. NewestInv
      BY Zenon DEF LmdbInv
    <2>3. Newest.main.ver = mti /\ mti <= mti
      <3>1. mti \in Nat
        BY Zenon DEF TypeOK
      <3>2. mti <= mti
        BY <3>1
      <3> QED  BY <2>2, <3>2, Zenon DEF NewestInv
    <2>4. Guarded(mti, Newest.main)'
      BY <1>1, <2>1, <2>2, <2>3, Zenon
      DEF NewestInv, Guarded, Intact, Avoids, Below, Active, Saving, Written
    <2> QED  BY <1>1, <1>3, <2>1, <2>2, <2>4, Zenon DEF NewestInv, Divided
  <1> QED  BY <1>2, <1>3, Zenon

(* Every step keeps what is known of the published meta page. *)
LEMMA NewestStep ==
  ASSUME TypeOK, LmdbInv, [Next]_vars
  PROVE  NewestInv'
  <1> USE DEF readerVars, treeVars, listVars
  <1>0. NewestInv
    BY Zenon DEF LmdbInv
  <1>1. CASE crash
    BY <1>1, CrashNewest, Zenon
  <1>2. CASE publish
    <2>1. pgoldest <= pgoldest /\ pgoldest \in Nat
      BY DEF TypeOK
    <2> QED  BY <1>2, <2>1, Published, Zenon DEF publish, txn_end
  <1>3. ASSUME ~crash, ~publish
        PROVE  NewestInv'
    <2>1. mti' = mti /\ Newest' = Newest /\ (wpc' # "publish" => Other'.txnid = Other.txnid)
          /\ (wpc' # "publish" => wpc # "publish")
      <3>1. CASE meta_free \/ meta_main \/ meta_last \/ meta_txnid
        <4>1. /\ mti' = mti /\ Newest' = Newest /\ toggle \in {0, 1}
              /\ Other = meta[toggle] /\ Other' = meta'[toggle]
          BY <3>1, WriteOther, Zenon
        <4>2. wpc' # "publish" => meta'[toggle].txnid = meta[toggle].txnid
          BY <3>1, <4>1 DEF meta_free, meta_main, meta_last, meta_txnid, TypeOK, Meta
        <4>3. wpc # "publish"
          BY <3>1, Zenon DEF meta_free, meta_main, meta_last, meta_txnid
        <4> QED  BY <4>1, <4>2, <4>3, Zenon
      <3>2. ASSUME ~(meta_free \/ meta_main \/ meta_last \/ meta_txnid)
            PROVE  UNCHANGED <<meta, mti>> /\ (wpc' # "publish" => wpc # "publish")
        <4>1. CASE UNCHANGED vars
          BY <4>1, Zenon DEF vars
        <4>2. ASSUME NEW r \in Readers, ReaderStep(r)
              PROVE  UNCHANGED <<meta, mti, wpc>>
          BY <4>2, Zenon DEF ReaderStep, renew_load, renew_store, renew_check, renew_copy,
               mdb_txn_reset
        <4>3. CASE mdb_txn_begin \/ PageStep
          BY <4>3, Zenon DEF mdb_txn_begin, PageStep, find_oldest_start, find_oldest_end,
               mdb_find_oldest, page_fetch, NothingAtHand, mdb_page_touch, mdb_page_new,
               mdb_page_loose
        <4>4. CASE EndStep
          BY <1>3, <3>2, <4>4, Zenon DEF EndStep, mdb_txn_abort, commit_failed,
               mdb_txn_commit, commit_nothing
        <4> QED  BY <1>3, <4>1, <4>2, <4>3, <4>4, Zenon DEF Next
      <3> QED  BY <3>1, <3>2, Zenon DEF Newest, Other
    <2>2. Guarded(mti, Newest.main)'
      <3>1. PICK n \in Nat, T \in Tree : n = mti /\ T = Newest.main
        BY NewestTypes, Zenon DEF TypeOK
      <3>2. Guarded(n, T) /\ n <= mti /\ (wpc = "scan" => scan.old <= n)
        BY <1>0, <3>1 DEF NewestInv, LmdbInv, ScanInv
      <3>3. Guarded(n, T)'
        BY <1>3, <3>2, GuardKept, Zenon
      <3> QED  BY <2>1, <3>1, <3>3, Zenon
    <2>3. \A p \in Pages : page'[p] <= mti' + 1
      <3>1. ASSUME NEW np \in Pages, page_dirty(np), wpc = "active"
            PROVE  \A p \in Pages : page'[p] <= mti + 1
        <4>1. wtx = mti + 1
          BY <3>1, Zenon DEF LmdbInv, ActiveInv, Active
        <4> QED  BY <1>0, <3>1, <4>1 DEF page_dirty, NewestInv, TypeOK
      <3>2. ASSUME page' # page
            PROVE  \E np \in Pages : page_dirty(np) /\ wpc = "active"
        <4>1. ~UNCHANGED vars
          BY <3>2, Zenon DEF vars
        <4>2. ASSUME NEW r \in Readers
              PROVE  ~ReaderStep(r)
          BY <3>2, Zenon DEF ReaderStep, renew_load, renew_store, renew_check, renew_copy,
               mdb_txn_reset
        <4>3. ~mdb_txn_begin /\ ~EndStep
          BY <3>2, Zenon DEF mdb_txn_begin, EndStep, mdb_txn_abort, commit_failed,
               mdb_txn_commit, commit_nothing, meta_free, meta_main, meta_last,
               meta_txnid, publish
        <4>4. PageStep
          BY <1>3, <4>1, <4>2, <4>3, Zenon DEF Next
        <4> QED  BY <3>2, <4>4, Zenon DEF PageStep, find_oldest_start, find_oldest_end,
                   mdb_find_oldest, page_fetch, mdb_page_touch, mdb_page_new,
                   mdb_page_loose
      <3> QED  BY <1>0, <2>1, <3>1, <3>2, Zenon DEF NewestInv
    <2>4. Divided(Newest.main.pages, Newest.free, Newest.last + 1)'
      BY <1>0, <2>1, Zenon DEF NewestInv, Divided
    <2> QED  BY <1>0, <2>1, <2>2, <2>3, <2>4, Zenon DEF NewestInv
  <1> QED  BY <1>1, <1>2, <1>3, Zenon

(* A reader that has registered keeps its tree guarded while it copies the *)
(* root, even if the writer has begun to write the meta page it copies     *)
(* from: what it gets is then the tree of that transaction.                *)
LEMMA CopyKept ==
  ASSUME TypeOK, LmdbInv, [Next]_vars, ~crash,
         NEW n \in Nat, n <= mti, Guarded(n, meta[n % 2].main),
         wpc = "scan" /\ scan.left = {} => scan.old <= n
  PROVE  Guarded(n, meta[n % 2].main)'
  <1>0. n % 2 \in {0, 1}
    BY Parity, Zenon
  <1>1. CASE meta'[n % 2].main = meta[n % 2].main
    <2>1. PICK T \in Tree : T = meta[n % 2].main
      BY <1>0, MetaTypes, Zenon
    <2>2. Guarded(n, T)'
      BY <2>1, GuardKept, Zenon
    <2> QED  BY <1>1, <2>1, <2>2, Zenon
  <1>2. CASE meta'[n % 2].main # meta[n % 2].main
    <2>1. meta_main
      <3>1. meta' # meta
        BY <1>2, Zenon
      <3>2. ~UNCHANGED vars
        BY <3>1, Zenon DEF vars
      <3>3. ASSUME NEW r \in Readers
            PROVE  ~ReaderStep(r)
        BY <3>1, Zenon DEF ReaderStep, renew_load, renew_store, renew_check, renew_copy,
             mdb_txn_reset
      <3>4. ~mdb_txn_begin /\ ~PageStep
        BY <3>1, Zenon DEF mdb_txn_begin, PageStep, find_oldest_start, find_oldest_end,
             mdb_find_oldest, page_fetch, mdb_page_touch, mdb_page_new, mdb_page_loose
      <3>5. ~meta_free /\ ~meta_last /\ ~meta_txnid
        <4>1. toggle \in {0, 1}
          BY Parity, Zenon DEF toggle, TypeOK
        <4>2. ~meta_free
          BY <1>0, <1>2, <4>1 DEF meta_free, TypeOK, Meta
        <4>3. ~meta_last
          BY <1>0, <1>2, <4>1 DEF meta_last, TypeOK, Meta
        <4>4. ~meta_txnid
          BY <1>0, <1>2, <4>1 DEF meta_txnid, TypeOK, Meta
        <4> QED  BY <4>2, <4>3, <4>4, Zenon
      <3> QED  BY <3>1, <3>2, <3>3, <3>4, <3>5, Zenon DEF Next, EndStep, mdb_txn_abort,
                 commit_failed, mdb_txn_commit, commit_nothing, publish
    <2>2. /\ toggle \in {0, 1} /\ mti' = mti /\ n % 2 = toggle
          /\ meta'[n % 2].main = [ver |-> wtx, pages |-> wpages]
      <3>1. /\ toggle \in {0, 1} /\ mti' = mti
            /\ \A i \in {0, 1} : i # toggle => meta'[i] = meta[i]
        BY <2>1, WriteOther, Zenon
      <3>2. n % 2 = toggle
        BY <1>0, <1>2, <3>1, Zenon
      <3> QED  BY <2>1, <3>1, <3>2, ZenonT(30) DEF meta_main, TypeOK, Meta
    <2>3. Saving
      BY <2>1, Zenon DEF meta_main, Saving
    <2>4. /\ \A p \in wpages : page[p] <= wtx /\ p < wnext
          /\ \A x \in wfree : x.t <= n => x.p \notin wpages
          /\ wtx = mti + 1 /\ pgoldest <= mti
      BY <2>3, NewTreeSafe, Zenon
    <2>5. pgoldest <= n /\ n <= wtx /\ ~(wtx <= mti)
      <3>1. pgoldest <= n
        BY Zenon DEF Guarded
      <3>2. n <= wtx /\ ~(wtx <= mti)
        BY <2>4 DEF TypeOK
      <3> QED  BY <3>1, <3>2, Zenon
    <2> QED  BY <2>1, <2>2, <2>4, <2>5 DEF meta_main, treeVars, listVars, readerVars,
               Guarded, Intact, Avoids, Below, Saving, Active, Written
  <1> QED  BY <1>1, <1>2, Zenon

(* A step that is not a reader's leaves the readers alone, and the         *)
(* published transaction never goes back, save by a restart.               *)
LEMMA ReaderFrame ==
  ASSUME TypeOK, LmdbInv, [Next]_vars, ~crash
  PROVE  /\ mti <= mti' /\ mti' \in Nat
         /\ UNCHANGED readerVars \/ \E r \in Readers : ReaderStep(r) /\ mti' = mti
  <1> USE DEF readerVars, treeVars, listVars
  <1>1. CASE UNCHANGED vars
    BY <1>1 DEF vars, TypeOK
  <1>2. ASSUME NEW r \in Readers, ReaderStep(r)
        PROVE  mti' = mti
    BY <1>2, Zenon DEF ReaderStep, renew_load, renew_store, renew_check, renew_copy,
         mdb_txn_reset
  <1>3. ASSUME mdb_txn_begin \/ PageStep
        PROVE  UNCHANGED <<mti, readerVars>>
    BY <1>3, Zenon DEF mdb_txn_begin, PageStep, find_oldest_start, find_oldest_end,
         mdb_find_oldest, page_fetch, mdb_page_touch, mdb_page_new, mdb_page_loose
  <1>4. CASE EndStep /\ ~publish
    BY <1>4 DEF EndStep, mdb_txn_abort, commit_failed, mdb_txn_commit, commit_nothing,
         meta_free, meta_main, meta_last, meta_txnid, TypeOK
  <1>5. CASE publish
    <2>1. wtx = mti + 1 /\ mti' = wtx /\ UNCHANGED readerVars
      BY <1>5, Zenon DEF publish, LmdbInv, SavingInv, Saving
    <2> QED  BY <2>1 DEF TypeOK
  <1>6. mti <= mti /\ mti \in Nat
    BY DEF TypeOK
  <1> QED  BY <1>1, <1>2, <1>3, <1>4, <1>5, <1>6, Zenon DEF Next

(* Every step keeps the readers' trees guarded. *)
LEMMA TreesStep ==
  ASSUME TypeOK, LmdbInv, [Next]_vars
  PROVE  TreesInv'
  <1>0. TreesInv /\ ScanInv /\ NewestInv
    BY Zenon DEF LmdbInv
  <1>1. CASE crash
    <2>1. TypeOK'
      BY TypeStep, Zenon
    <2> QED  BY <1>1, <2>1 DEF crash, TreesInv, TypeOK
  <1>2. ASSUME ~crash, NEW r \in Readers
        PROVE  /\ rtmp'[r] <= mti'
               /\ rpc'[r] \in {"check", "copy", "read"} => slot'[r] \in Nat /\ slot'[r] <= mti'
               /\ rpc'[r] = "copy" => Guarded(slot[r], meta[slot[r] % 2].main)'
               /\ rpc'[r] = "read" => Guarded(slot[r], rsnap[r])'
    <2>0. mti <= mti' /\ mti' \in Nat /\ mti \in Nat
      BY <1>2, ReaderFrame, Zenon DEF TypeOK
    <2>1. UNCHANGED <<slot[r], rpc[r], rtmp[r], rsnap[r]>> \/ (ReaderStep(r) /\ mti' = mti)
      <3>1. ASSUME NEW q \in Readers, ReaderStep(q), q # r
            PROVE  UNCHANGED <<slot[r], rpc[r], rtmp[r], rsnap[r]>>
        <4>1. CASE renew_load(q) \/ renew_check(q)
          BY <3>1, <4>1, Zenon DEF renew_load, renew_check, TypeOK
        <4>2. CASE renew_store(q) \/ renew_copy(q)
          BY <3>1, <4>2, ZenonT(30) DEF renew_store, renew_copy, TypeOK
        <4>3. CASE mdb_txn_reset(q)
          BY <3>1, <4>3, Zenon DEF mdb_txn_reset, TypeOK
        <4> QED  BY <3>1, <4>1, <4>2, <4>3, Zenon DEF ReaderStep
      <3> QED  BY <1>2, <3>1, ReaderFrame, Zenon DEF readerVars
    <2>2. rtmp[r] \in Nat /\ rtmp[r] <= mti
      BY <1>0, Zenon DEF TreesInv, TypeOK
    <2>3. /\ rtmp'[r] <= mti'
          /\ rpc'[r] \in {"check", "copy", "read"} => slot'[r] \in Nat /\ slot'[r] <= mti'
      <3>1. CASE UNCHANGED <<slot[r], rpc[r], rtmp[r], rsnap[r]>>
        <4>1. rpc[r] \in {"check", "copy", "read"} => slot[r] \in Nat /\ slot[r] <= mti
          BY <1>0, Zenon DEF TreesInv
        <4>2. rtmp'[r] <= mti'
          BY <2>0, <2>2, <3>1
        <4>3. ASSUME rpc'[r] \in {"check", "copy", "read"}
              PROVE  slot'[r] \in Nat /\ slot'[r] <= mti'
          <5>1. slot'[r] = slot[r] /\ slot[r] \in Nat /\ slot[r] <= mti
            BY <3>1, <4>1, <4>3, Zenon
          <5> QED  BY <2>0, <5>1
        <4> QED  BY <4>2, <4>3, Zenon
      <3>2. CASE ReaderStep(r) /\ mti' = mti
        <4>1. rpc[r] \in {"check", "copy", "read"} => slot[r] \in Nat /\ slot[r] <= mti
          BY <1>0, Zenon DEF TreesInv
        <4>2. CASE renew_load(r)
          BY <2>0, <4>2, Zenon DEF renew_load, TypeOK
        <4>3. CASE renew_store(r)
          BY <2>0, <2>2, <4>3 DEF renew_store, TypeOK
        <4>4. CASE renew_check(r) \/ renew_copy(r)
          BY <2>0, <2>2, <3>2, <4>1, <4>4, Zenon DEF renew_check, renew_copy, TypeOK
        <4>5. CASE mdb_txn_reset(r)
          BY <2>2, <3>2, <4>5, Zenon DEF mdb_txn_reset, TypeOK
        <4> QED  BY <3>2, <4>2, <4>3, <4>4, <4>5, Zenon DEF ReaderStep
      <3> QED  BY <2>1, <3>1, <3>2, Zenon
    <2>4. ASSUME rpc'[r] = "copy"
          PROVE  Guarded(slot[r], meta[slot[r] % 2].main)'
      <3>1. /\ slot'[r] = slot[r] /\ slot[r] \in Nat /\ slot[r] <= mti
            /\ rpc[r] = "copy" \/ (rpc[r] = "check" /\ slot[r] = mti)
        BY <1>0, <2>1, <2>4, Zenon DEF TreesInv, ReaderStep, renew_load, renew_store,
             renew_check, renew_copy, mdb_txn_reset, TypeOK
      <3>2. Guarded(slot[r], meta[slot[r] % 2].main)
        BY <1>0, <3>1, Zenon DEF TreesInv, NewestInv, Newest
      <3>3. wpc = "scan" /\ scan.left = {} => scan.old <= slot[r]
        BY <1>0, <3>1, Zenon DEF ScanInv, Registered
      <3>4. PICK n \in Nat : n = slot[r]
        BY <3>1, Zenon
      <3>5. Guarded(n, meta[n % 2].main)'
        BY <1>2, <3>1, <3>2, <3>3, <3>4, CopyKept, Zenon
      <3> QED  BY <3>1, <3>4, <3>5, Zenon
    <2>5. ASSUME rpc'[r] = "read"
          PROVE  Guarded(slot[r], rsnap[r])'
      <3>1. /\ slot'[r] = slot[r] /\ slot[r] \in Nat /\ slot[r] <= mti /\ Registered(r)
            /\ \/ rpc[r] = "read" /\ rsnap'[r] = rsnap[r]
               \/ rpc[r] = "copy" /\ rsnap'[r] = meta[slot[r] % 2].main
        <4>1. /\ slot'[r] = slot[r]
              /\ \/ rpc[r] = "read" /\ rsnap'[r] = rsnap[r]
                 \/ rpc[r] = "copy" /\ rsnap'[r] = meta[slot[r] % 2].main
          <5>1. CASE UNCHANGED <<slot[r], rpc[r], rtmp[r], rsnap[r]>>
            BY <2>5, <5>1, Zenon
          <5>2. ~renew_load(r) /\ ~renew_store(r)
            BY <2>5, Zenon DEF renew_load, renew_store, TypeOK
          <5>3. ~renew_check(r) /\ ~mdb_txn_reset(r)
            BY <2>5, Zenon DEF renew_check, mdb_txn_reset, TypeOK
          <5>4. CASE renew_copy(r)
            BY <5>4, Zenon DEF renew_copy, TypeOK
          <5> QED  BY <2>1, <5>1, <5>2, <5>3, <5>4, Zenon DEF ReaderStep
        <4>2. rpc[r] \in {"check", "copy", "read"} => slot[r] \in Nat /\ slot[r] <= mti
          BY <1>0, Zenon DEF TreesInv
        <4> QED  BY <4>1, <4>2, Zenon DEF Registered
      <3>2. Guarded(slot[r], rsnap'[r])
        BY <1>0, <3>1, Zenon DEF TreesInv
      <3>3. wpc = "scan" /\ scan.left = {} => scan.old <= slot[r]
        BY <1>0, <3>1, Zenon DEF ScanInv
      <3>4. rsnap'[r] \in Tree
        BY <3>1, Parity, MetaTypes, Zenon DEF TypeOK
      <3>5. PICK n \in Nat, T \in Tree : n = slot[r] /\ T = rsnap'[r]
        BY <3>1, <3>4, Zenon
      <3>6. Guarded(n, T)'
        BY <1>2, <3>1, <3>2, <3>3, <3>5, GuardKept, Zenon
      <3> QED  BY <3>1, <3>5, <3>6, Zenon
    <2> QED  BY <2>3, <2>4, <2>5, Zenon
  <1> QED  BY <1>1, <1>2, Zenon DEF TreesInv

-----------------------------------------------------------------------------
(* The states of LMDB satisfy LmdbInv: whatever the readers, the writer    *)
(* and restarts do, the published tree and the tree of every registered    *)
(* reader are guarded, and the pages are divided between tree and list.    *)
THEOREM LmdbInvariant == Spec => [](TypeOK /\ LmdbInv)
  <1>1. Init => TypeOK /\ LmdbInv
    BY TypeInit, LmdbInit, Zenon
  <1>2. TypeOK /\ LmdbInv /\ [Next]_vars => (TypeOK /\ LmdbInv)'
    BY TypeStep, NewestStep, IdleStep, ActiveStep, SavingStep, TreesStep, ScanStep, Zenon
    DEF LmdbInv
  <1> QED  BY <1>1, <1>2, PTL DEF Spec

(* A reader reads every page of its tree as the transaction that made it   *)
(* left it: mdb_page_alloc gives out no page a registered reader can see.  *)
THEOREM SnapshotsIntact == Spec => []SnapshotIntact
  <1>1. TypeOK /\ LmdbInv => SnapshotIntact
    BY Zenon DEF LmdbInv, TreesInv, Guarded, SnapshotIntact
  <1> QED  BY <1>1, LmdbInvariant, PTL

(* Wherever the process ends, mdb_env_pick_meta finds a meta page that is  *)
(* complete and whose tree is whole.                                       *)
THEOREM RestartsWhole == Spec => []RecoversWhole
  <1>1. TypeOK /\ LmdbInv => RecoversWhole
    BY PickWhole, Zenon
  <1> QED  BY <1>1, LmdbInvariant, PTL

(* mdb_freelist_save loses no page and lists none twice: the pages up to   *)
(* the last one are those of the tree and those of the list.               *)
THEOREM PagesKept == Spec => []NoPageLost
  <1>1. TypeOK /\ LmdbInv => NoPageLost
    BY PickDivided, Zenon
  <1> QED  BY <1>1, LmdbInvariant, PTL
===============================================================================
