-------------------------------- MODULE Lmdb --------------------------------
(***************************************************************************)
(* The transactions of LMDB as nstore runs them: one writer thread, reader *)
(* threads that renew and reset a read transaction of their own, and a     *)
(* database opened with MDB_WRITEMAP and MDB_NOSYNC, so that the writer    *)
(* changes pages in the shared map and the death of the process loses      *)
(* nothing that was written.  Store takes from LMDB that a snapshot never  *)
(* changes and that a transaction is there whole or not at all; this       *)
(* module is how LMDB brings that about: copy on write, pages that are     *)
(* used again only when no reader can see them, and two meta pages.        *)
(*                                                                         *)
(* A tree is the set of its pages and a page is the number of the          *)
(* transaction that wrote it last.  Loads and stores of the shared words   *)
(* (mti_txnid, mr_txnid, the fields of a meta page) are one step each, in  *)
(* program order.  Left out: the pages the list of free pages itself is    *)
(* kept in, runs of several pages, and spilling.                           *)
(***************************************************************************)
EXTENDS Integers

CONSTANTS
  Readers,   \* the reader threads
  MaxPg,     \* me_maxpg: mdb_page_alloc never gives out the last page
  MaxTxn     \* bound: the last transaction

ASSUME LmdbAssumption == MaxPg \in Nat /\ MaxPg > 3 /\ MaxTxn \in Nat

VARIABLES
  page,      \* the map: which transaction wrote each page last
  meta,      \* the two meta pages
  mti,       \* mti_txnid: the last transaction that is published
  slot,      \* mr_txnid of each reader
  rpc,       \* where each reader is
  rtmp,      \* the value of mti_txnid a reader has loaded
  rsnap,     \* the tree a reader has copied
  wpc,       \* where the writer is
  wtx,       \* mt_txnid of the write transaction
  wpages,    \* the pages of its tree
  wfree,     \* its list of free pages: page p, freed by transaction t
  wnext,     \* mt_next_pgno
  dirty,     \* the pages of the tree that it has written
  loose,     \* the pages it has written and dropped again
  freed,     \* mt_free_pgs
  pghead,    \* me_pghead: pages taken from the list for use
  pglast,    \* me_pglast: the last record taken from the list
  pgoldest,  \* me_pgoldest: the oldest reader when last looked for
  scan,      \* mdb_find_oldest: the slots to visit, the oldest so far, and
             \* whether mdb_page_alloc has just called it
  txn0       \* whether the handle of write transactions is valid

readerVars == <<slot, rpc, rtmp, rsnap>>
listVars   == <<wfree, pghead, pglast>>
treeVars   == <<wpages, wnext, dirty, loose, freed>>
vars == <<page, meta, mti, readerVars, wpc, wtx, treeVars, listVars, pgoldest,
          scan, txn0>>

-----------------------------------------------------------------------------
Pages == 2 .. MaxPg - 2     \* pages 0 and 1 are the meta pages
IDLE  == -1                 \* (txnid_t)-1: the slot is not in use

Tree == [ver : Nat, pages : SUBSET Pages]     \* ver: who wrote it
Free == SUBSET [t : Nat, p : Pages]
Meta == [txnid : Nat, main : Tree, free : Free, last : Nat]

NoScan == [left |-> {}, old |-> 0, done |-> FALSE]

(* Type correctness: pages are numbered as mdb_page_alloc numbers them, a  *)
(* snapshot is of a number that was published, and the unused slot's -1    *)
(* never becomes the oldest transaction.                                   *)
TypeOK ==
  /\ page \in [Pages -> Nat]
  /\ meta \in [{0, 1} -> Meta]
  /\ mti \in Nat
  /\ slot \in [Readers -> Nat \cup {IDLE}]
  /\ rpc \in [Readers -> {"idle", "load", "store", "check", "copy", "read"}]
  /\ rtmp \in [Readers -> Nat]
  /\ rsnap \in [Readers -> Tree]
  /\ wpc \in {"idle", "active", "scan", "free", "main", "last", "txnid", "publish"}
  /\ wtx \in Nat /\ wpages \subseteq Pages /\ wfree \in Free /\ wnext \in Nat
  /\ dirty \subseteq Pages /\ loose \subseteq Pages /\ freed \subseteq Pages
  /\ pghead \subseteq Pages /\ pglast \in Nat /\ pgoldest \in Nat
  /\ scan \in [left : SUBSET Readers, old : Nat, done : BOOLEAN]
  /\ txn0 \in {"valid", "freed"}

Empty == [ver |-> 0, pages |-> {}]

(* mdb_env_init_meta writes two empty meta pages, of transactions 0 and 1, *)
(* and db::open commits the basic facts, on one page, in transaction 2     *)
(* before it starts a reader.                                              *)
Init ==
  /\ page = [p \in Pages |-> IF p = 2 THEN 2 ELSE 0]
  /\ meta = [i \in {0, 1} |->
                IF i = 0
                  THEN [txnid |-> 2, main |-> [ver |-> 2, pages |-> {2}], free |-> {},
                        last |-> 2]
                  ELSE [txnid |-> 1, main |-> [ver |-> 1, pages |-> {}], free |-> {},
                        last |-> 1]]
  /\ mti = 2
  /\ slot = [r \in Readers |-> IDLE]
  /\ rpc = [r \in Readers |-> "idle"]
  /\ rtmp = [r \in Readers |-> 0]
  /\ rsnap = [r \in Readers |-> Empty]
  /\ wpc = "idle" /\ wtx = 0 /\ wpages = {} /\ wfree = {} /\ wnext = 0
  /\ dirty = {} /\ loose = {} /\ freed = {}
  /\ pghead = {} /\ pglast = 0 /\ pgoldest = 0 /\ scan = NoScan
  /\ txn0 = "valid"

-----------------------------------------------------------------------------
(* Readers: mdb_txn_renew, the reads, mdb_txn_reset. *)

(* The slot gets the published transaction, which is loaded ... *)
renew_load(r) ==
  /\ rpc[r] \in {"idle", "load"}
  /\ rtmp' = [rtmp EXCEPT ![r] = mti]
  /\ rpc' = [rpc EXCEPT ![r] = "store"]
  /\ UNCHANGED <<page, meta, mti, slot, rsnap, wpc, wtx, treeVars, listVars,
                 pgoldest, scan, txn0>>

(* ... and stored, *)
renew_store(r) ==
  /\ rpc[r] = "store"
  /\ slot' = [slot EXCEPT ![r] = rtmp[r]]
  /\ rtmp' = [rtmp EXCEPT ![r] = 0]
  /\ rpc' = [rpc EXCEPT ![r] = "check"]
  /\ UNCHANGED <<page, meta, mti, rsnap, wpc, wtx, treeVars, listVars,
                 pgoldest, scan, txn0>>

(* Mutant: only once. *)
renew_check_Once(r) ==
  /\ rpc[r] = "check"
  /\ rpc' = [rpc EXCEPT ![r] = "copy"]
  /\ UNCHANGED <<page, meta, mti, slot, rtmp, rsnap, wpc, wtx, treeVars, listVars,
                 pgoldest, scan, txn0>>

(* and again if another transaction was published meanwhile. *)
renew_check(r) ==
  /\ rpc[r] = "check"
  /\ rpc' = [rpc EXCEPT ![r] = IF slot[r] = mti THEN "copy" ELSE "load"]
  /\ UNCHANGED <<page, meta, mti, slot, rtmp, rsnap, wpc, wtx, treeVars, listVars,
                 pgoldest, scan, txn0>>

(* The root of the tree is copied from the meta page of that transaction,  *)
(* which the writer may have used for a later one by now.                  *)
renew_copy(r) ==
  /\ rpc[r] = "copy"
  /\ rsnap' = [rsnap EXCEPT ![r] = meta[slot[r] % 2].main]
  /\ rpc' = [rpc EXCEPT ![r] = "read"]
  /\ UNCHANGED <<page, meta, mti, slot, rtmp, wpc, wtx, treeVars, listVars,
                 pgoldest, scan, txn0>>

mdb_txn_reset(r) ==
  /\ rpc[r] = "read"
  /\ slot' = [slot EXCEPT ![r] = IDLE]
  /\ rpc' = [rpc EXCEPT ![r] = "idle"]
  /\ rsnap' = [rsnap EXCEPT ![r] = Empty]
  /\ UNCHANGED <<page, meta, mti, rtmp, wpc, wtx, treeVars, listVars,
                 pgoldest, scan, txn0>>

-----------------------------------------------------------------------------
(* The writer: mdb_txn_begin. *)

mdb_txn_begin ==
  /\ wpc = "idle" /\ txn0 = "valid" /\ mti < MaxTxn
  /\ wpc' = "active"
  /\ wtx' = mti + 1
  /\ LET m == meta[mti % 2]
     IN  wpages' = m.main.pages /\ wfree' = m.free /\ wnext' = m.last + 1
  /\ dirty' = {} /\ loose' = {} /\ freed' = {}
  /\ UNCHANGED <<page, meta, mti, readerVars, pghead, pglast, pgoldest, scan, txn0>>

(* mdb_page_alloc.  Loose pages come first, then pages taken from the list *)
(* of free pages, then the record of the list that follows the last one    *)
(* taken if it is older than every reader, then pages never used.          *)

Records == {x.t : x \in {y \in wfree : y.t > pglast}}

IsNextRecord(k) == k \in Records /\ \A j \in Records : k <= j

(* The record is too recent for the oldest reader that is known. *)
TooRecent ==
  \/ Records = {} /\ pgoldest <= pglast + 1
  \/ \E k \in Records : IsNextRecord(k) /\ pgoldest <= k

NothingAtHand == wpc = "active" /\ loose = {} /\ pghead = {}

(* Mutant: the readers are not looked at. *)
find_oldest_end_Own ==
  /\ wpc = "scan" /\ scan.left = {}
  /\ wpc' = "active"
  /\ pgoldest' = wtx - 1
  /\ scan' = [scan EXCEPT !.done = TRUE]
  /\ UNCHANGED <<page, meta, mti, readerVars, wtx, treeVars, listVars, txn0>>

(* mdb_find_oldest is called, *)
find_oldest_start ==
  /\ NothingAtHand /\ TooRecent /\ ~scan.done
  /\ wpc' = "scan"
  /\ scan' = [left |-> Readers, old |-> wtx - 1, done |-> FALSE]
  /\ UNCHANGED <<page, meta, mti, readerVars, wtx, treeVars, listVars, pgoldest, txn0>>

(* looks at the slots one after the other, *)
mdb_find_oldest(r) ==
  /\ wpc = "scan" /\ r \in scan.left
  /\ scan' = [scan EXCEPT !.left = @ \ {r},
                !.old = IF slot[r] # IDLE /\ slot[r] < @ THEN slot[r] ELSE @]
  /\ UNCHANGED <<page, meta, mti, readerVars, wpc, wtx, treeVars, listVars, pgoldest, txn0>>

(* and returns. *)
find_oldest_end ==
  /\ wpc = "scan" /\ scan.left = {}
  /\ wpc' = "active"
  /\ pgoldest' = scan.old
  /\ scan' = [scan EXCEPT !.done = TRUE]
  /\ UNCHANGED <<page, meta, mti, readerVars, wtx, treeVars, listVars, txn0>>

(* A record is taken from the list. *)
page_fetch(k) ==
  /\ NothingAtHand /\ IsNextRecord(k) /\ ~TooRecent
  /\ pghead' = {x.p : x \in {y \in wfree : y.t = k}}
  /\ pglast' = k
  /\ UNCHANGED <<page, meta, mti, readerVars, wpc, wtx, treeVars, wfree, pgoldest,
                 scan, txn0>>

(* The pages mdb_page_alloc may return now. *)
Allocated(np) ==
  \/ np \in loose
  \/ loose = {} /\ np \in pghead
  \/ /\ NothingAtHand
     /\ IF TooRecent THEN scan.done ELSE Records = {}
     /\ np = wnext /\ np \in Pages

(* The writer gets page np, writes it and puts it in its tree.             *)
page_dirty(np) ==
  /\ Allocated(np)
  /\ page' = [page EXCEPT ![np] = wtx]
  /\ dirty' = dirty \cup {np}
  /\ loose' = loose \ {np}
  /\ pghead' = IF loose = {} THEN pghead \ {np} ELSE pghead
  /\ wnext' = IF np = wnext THEN wnext + 1 ELSE wnext
  /\ scan' = NoScan

(* Mutant: the page is changed where it is. *)
mdb_page_touch_InPlace(p, np) ==
  /\ wpc = "active" /\ p \in wpages \ dirty /\ np = p
  /\ page' = [page EXCEPT ![p] = wtx]
  /\ dirty' = dirty \cup {p}
  /\ UNCHANGED <<meta, mti, readerVars, wpc, wtx, wpages, wnext, loose, freed,
                 listVars, pgoldest, scan, txn0>>

(* mdb_page_touch: a page of the tree is replaced by a copy to change. *)
mdb_page_touch(p, np) ==
  /\ wpc = "active" /\ p \in wpages \ dirty
  /\ page_dirty(np)
  /\ wpages' = (wpages \ {p}) \cup {np}
  /\ freed' = freed \cup {p}
  /\ UNCHANGED <<meta, mti, readerVars, wpc, wtx, wfree, pglast, pgoldest, txn0>>

(* mdb_page_new: the tree grows by a page. *)
mdb_page_new(np) ==
  /\ wpc = "active"
  /\ page_dirty(np)
  /\ wpages' = wpages \cup {np}
  /\ UNCHANGED <<meta, mti, readerVars, wpc, wtx, freed, wfree, pglast, pgoldest, txn0>>

(* mdb_page_loose: a page leaves the tree. *)
mdb_page_loose(p) ==
  /\ wpc = "active" /\ p \in wpages
  /\ wpages' = wpages \ {p}
  /\ IF p \in dirty
       THEN loose' = loose \cup {p} /\ dirty' = dirty \ {p} /\ freed' = freed
       ELSE freed' = freed \cup {p} /\ UNCHANGED <<loose, dirty>>
  /\ UNCHANGED <<page, meta, mti, readerVars, wpc, wtx, wnext, listVars, pgoldest,
                 scan, txn0>>

-----------------------------------------------------------------------------
(* mdb_txn_end of the write transaction; what it worked on is gone. *)
txn_end ==
  /\ wpc' = "idle" /\ wtx' = 0 /\ wpages' = {} /\ wfree' = {} /\ wnext' = 0
  /\ dirty' = {} /\ loose' = {} /\ freed' = {}
  /\ pghead' = {} /\ pglast' = 0 /\ scan' = NoScan

(* mdb_txn_abort, after a put that failed or a fact that was refused. *)
mdb_txn_abort ==
  /\ wpc = "active"
  /\ txn_end
  /\ UNCHANGED <<page, meta, mti, readerVars, pgoldest, txn0>>

(* mdb_txn_commit fails before it writes the meta page, and aborts the     *)
(* transaction.  handle_transact then aborts it again (`again'), which     *)
(* frees the handle all write transactions use; handle_namespace does not. *)
commit_failed(again) ==
  /\ wpc = "active"
  /\ txn_end
  /\ txn0' = IF again THEN "freed" ELSE txn0
  /\ UNCHANGED <<page, meta, mti, readerVars, pgoldest>>

(* Mutant: the pages that are left go with those freed now. *)
freelist_save_Late ==
  {x \in wfree : x.t > pglast}
    \cup {[t |-> wtx, p |-> q] : q \in freed \cup loose}

(* mdb_freelist_save: the records taken are deleted, the pages left of     *)
(* them are put back under the last of their numbers, and the pages freed  *)
(* become a record of this transaction.  Loose pages join the pages left   *)
(* if a record was taken, else the pages freed.                            *)
freelist_save ==
  LET left == IF pglast = 0 THEN {} ELSE pghead \cup loose
      gone == IF pglast = 0 THEN freed \cup loose ELSE freed
  IN  {x \in wfree : x.t > pglast}
        \cup {[t |-> pglast, p |-> q] : q \in left}
        \cup {[t |-> wtx, p |-> q] : q \in gone}

(* mdb_txn_commit up to the meta page, if there is anything to commit. *)
mdb_txn_commit ==
  /\ wpc = "active"
  /\ dirty \cup loose \cup freed # {}
  /\ wpc' = "free"
  /\ wfree' = freelist_save
  /\ pghead' = {}
  /\ UNCHANGED <<page, meta, mti, readerVars, wtx, treeVars, pglast, pgoldest, scan, txn0>>

commit_nothing ==
  /\ wpc = "active"
  /\ dirty \cup loose \cup freed = {}
  /\ txn_end
  /\ UNCHANGED <<page, meta, mti, readerVars, pgoldest, txn0>>

-----------------------------------------------------------------------------
(* mdb_env_write_meta: the fields of the meta page the transaction before  *)
(* last used, one after the other, and the publication.                    *)
toggle == wtx % 2

meta_free ==
  /\ wpc = "free" /\ wpc' = "main"
  /\ meta' = [meta EXCEPT ![toggle].free = wfree]
  /\ UNCHANGED <<page, mti, readerVars, wtx, treeVars, listVars, pgoldest, scan, txn0>>

meta_main ==
  /\ wpc = "main" /\ wpc' = "last"
  /\ meta' = [meta EXCEPT ![toggle].main = [ver |-> wtx, pages |-> wpages]]
  /\ UNCHANGED <<page, mti, readerVars, wtx, treeVars, listVars, pgoldest, scan, txn0>>

meta_last ==
  /\ wpc = "last" /\ wpc' = "txnid"
  /\ meta' = [meta EXCEPT ![toggle].last = wnext - 1]
  /\ UNCHANGED <<page, mti, readerVars, wtx, treeVars, listVars, pgoldest, scan, txn0>>

meta_txnid ==
  /\ wpc = "txnid" /\ wpc' = "publish"
  /\ meta' = [meta EXCEPT ![toggle].txnid = wtx]
  /\ UNCHANGED <<page, mti, readerVars, wtx, treeVars, listVars, pgoldest, scan, txn0>>

publish ==
  /\ wpc = "publish" /\ txn_end
  /\ mti' = wtx
  /\ UNCHANGED <<page, meta, readerVars, pgoldest, txn0>>

-----------------------------------------------------------------------------
(* mdb_env_pick_meta: the meta page of the later transaction. *)
pick_meta == IF meta[0].txnid < meta[1].txnid THEN meta[1] ELSE meta[0]

(* The process ends and another one opens the database: the locks and the  *)
(* reader table are set up again, the map is as it was left.               *)
crash ==
  /\ mti' = pick_meta.txnid
  /\ slot' = [r \in Readers |-> IDLE]
  /\ rpc' = [r \in Readers |-> "idle"]
  /\ rtmp' = [r \in Readers |-> 0]
  /\ rsnap' = [r \in Readers |-> Empty]
  /\ txn_end /\ pgoldest' = 0 /\ txn0' = "valid"
  /\ UNCHANGED <<page, meta>>

ReaderStep(r) ==
  \/ renew_load(r) \/ renew_store(r) \/ renew_check(r) \/ renew_copy(r)
  \/ mdb_txn_reset(r)

PageStep ==
  \/ find_oldest_start \/ find_oldest_end
  \/ \E r \in Readers : mdb_find_oldest(r)
  \/ \E k \in 1 .. MaxTxn : page_fetch(k)
  \/ \E p, np \in Pages : mdb_page_touch(p, np)
  \/ \E np \in Pages : mdb_page_new(np)
  \/ \E p \in Pages : mdb_page_loose(p)

EndStep ==
  \/ mdb_txn_abort \/ \E again \in BOOLEAN : commit_failed(again)
  \/ mdb_txn_commit \/ commit_nothing
  \/ meta_free \/ meta_main \/ meta_last \/ meta_txnid \/ publish

Next ==
  \/ \E r \in Readers : ReaderStep(r)
  \/ mdb_txn_begin \/ PageStep \/ EndStep \/ crash

Spec == Init /\ [][Next]_vars

-----------------------------------------------------------------------------
Intact(tree) == \A p \in tree.pages : page[p] <= tree.ver

(* A reader that has its tree reads every page of it as the transaction    *)
(* that made the tree left it, however long it takes: no later transaction *)
(* writes a page a reader can see.                                         *)
SnapshotIntact == \A r \in Readers : rpc[r] = "read" => Intact(rsnap[r])

(* Whenever the process ends, the tree it finds again is whole, is that of *)
(* the last transaction that was published or of the one being published,  *)
(* and none of its pages is listed as free.                                *)
RecoversWhole ==
  LET m == pick_meta
  IN  /\ Intact(m.main)
      /\ m.main.ver = m.txnid
      /\ m.txnid = mti \/ (wpc = "publish" /\ m.txnid = wtx)
      /\ \A x \in m.free : x.p \notin m.main.pages

(* No page is lost: every page below the last one is in the tree or listed *)
(* as free, and is listed once.                                            *)
NoPageLost ==
  LET m == pick_meta
  IN  /\ 2 .. m.last = m.main.pages \cup {x.p : x \in m.free}
      /\ \A x, y \in m.free : x.p = y.p => x = y

-----------------------------------------------------------------------------
(* Why this holds.  A tree T that a reader registered at transaction n may *)
(* read, and the published tree, are guarded: nothing of T is at hand for  *)
(* the writer, and no record of free pages up to n, which are those it may *)
(* take next, has a page of T.                                             *)

Newest == meta[mti % 2]
Other  == meta[(mti + 1) % 2]

Active  == wpc \in {"active", "scan"}
Saving  == wpc \in {"free", "main", "last", "txnid", "publish"}
Written == wpc \in {"last", "txnid", "publish"}

Avoids(free, n, T) == \A x \in free : x.t <= n => x.p \notin T.pages
Below(T, next) == \A p \in T.pages : p < next

Guarded(n, T) ==
  /\ pgoldest <= n /\ n <= T.ver
  /\ T.ver <= mti \/ (Written /\ T.ver = mti + 1)
  /\ Intact(T)
  /\ T.ver <= mti => Avoids(Newest.free, n, T) /\ Below(T, Newest.last + 1)
  /\ Saving => Avoids(wfree, n, T) /\ Below(T, wnext)
  /\ Active => T.pages \cap (dirty \cup loose \cup pghead) = {}

(* The pages below next are those of the tree and those listed, each once. *)
Divided(pages, free, next) ==
  /\ \A p \in Pages : p < next <=> (p \in pages \/ \E x \in free : x.p = p)
  /\ \A x \in free : x.p \notin pages /\ x.t >= 1
  /\ \A x, y \in free : x.p = y.p => x = y

NewestInv ==
  /\ Newest.txnid = mti /\ Newest.main.ver = mti
  /\ Guarded(mti, Newest.main)
  /\ Divided(Newest.main.pages, Newest.free, Newest.last + 1)
  /\ Newest.last < MaxPg - 1
  /\ wpc # "publish" => Other.txnid < mti
  /\ \A p \in Pages : page[p] <= mti + 1

(* While the transaction works, its pages, those freed, loose or at hand   *)
(* and those of the records it has not taken make up all pages.            *)
AtHand == loose \cup pghead \cup freed

ActiveInv ==
  Active =>
    /\ wtx = mti + 1 /\ wfree = Newest.free
    /\ dirty \subseteq wpages
    /\ wpages \cap AtHand = {}
    /\ loose \cap pghead = {} /\ loose \cap freed = {} /\ pghead \cap freed = {}
    /\ \A x \in wfree : x.t > pglast => x.p \notin wpages \cup AtHand
    /\ \A p \in Pages : p < wnext <=>
         (p \in wpages \cup AtHand \/ \E x \in wfree : x.t > pglast /\ x.p = p)
    /\ Newest.last < wnext /\ wnext <= MaxPg - 1
    /\ pglast = 0 => pghead = {}

SavingInv ==
  Saving =>
    /\ wtx = mti + 1 /\ wnext >= 1 /\ wnext <= MaxPg - 1
    /\ Divided(wpages, wfree, wnext)
    /\ wpc # "free" => Other.free = wfree
    /\ Written => Other.main = [ver |-> wtx, pages |-> wpages]
    /\ wpc \in {"txnid", "publish"} => Other.last = wnext - 1
    /\ wpc = "publish" => Other.txnid = wtx

Registered(r) == rpc[r] \in {"copy", "read"}

TreesInv ==
  \A r \in Readers :
    /\ rtmp[r] <= mti
    /\ rpc[r] \in {"check", "copy", "read"} => slot[r] \in Nat /\ slot[r] <= mti
    /\ rpc[r] = "copy" => Guarded(slot[r], meta[slot[r] % 2].main)
    /\ rpc[r] = "read" => Guarded(slot[r], rsnap[r])

ScanInv ==
  wpc = "scan" =>
    /\ scan.old <= mti
    /\ \A r \in Readers \ scan.left : Registered(r) => scan.old <= slot[r]

IdleInv == wpc = "idle" => pghead = {} /\ pglast = 0

(* The invariant of mdb_page_alloc, mdb_freelist_save, mdb_env_write_meta  *)
(* and mdb_txn_renew0 together: at every step of the writer and of the     *)
(* readers' registration, the published tree and the tree of every         *)
(* registered reader are out of the reach of the pages the writer takes,   *)
(* and the newest meta page accounts for every page once.                  *)
LmdbInv == NewestInv /\ IdleInv /\ ActiveInv /\ SavingInv /\ TreesInv /\ ScanInv

=============================================================================
