# A TLA+ verification of nstore

nstore is a facts store and server: clients send facts (entity, attribute,
value, add or retract) in transactions, the server stamps and keeps them for
ever in one LMDB map, and clients read the facts as of any transaction. This
directory models the store, the server around it, and the parts of LMDB and asio
on which they rest; it checks the models with TLC on small instances and proves
their central properties with TLAPS for every instance.

## The system

| part | source | state | operations | modules |
|---|---|---|---|---|
| datoms and reads | `db.h`, `db.cpp`, `handler.cpp` | keys of EATV and AETV | `setup`, `query_a`, the scan of `handle_facts`, `last_datom` | `Datoms`, `MCReadBack` |
| key order | `db.cpp` 20-79 | the map's order | `custom_key_compare` | `KeyOrder`, `KeyOrderProofs` |
| store | `handler.cpp` | META_TX, META_ID, indices, unique index; locals of a transaction; snapshots | `handle_namespace`, `handle_transact`, `handle_facts`, crash and restart | `Store`, `FactLog`, `StoreLog`, `StoreProofs` |
| LMDB use | `db.cpp` | items, cursors | `open`, `put_meta`, `get_meta`; `cursor_put_padded` | `Store`; `PaddedPut` |
| LMDB transactions | `lib/liblmdb/mdb.c` | pages, meta pages, reader table, free list | renew and reset, page allocation, commit, abort, reopening | `Lmdb`, `LmdbProofs` |
| sessions, channels, server | `session.cpp`, `channel.cpp`, `server.cpp`, `handler.cpp` | write queues, members, jobs posted, threads | accept, read, write, select, publish, end, shutdown | `Server`, `ServerProofs`, `ServerStepProofs`, `ServerReadProofs`, `ServerEventProofs` |
| requests as bytes | `session.cpp`, asio's `read_until.hpp`, `write.hpp` | stream buffer, search position, bytes sent | `async_read_until`, `getline`, `async_write` | `Wire` |
| io_service | asio's `task_io_service.ipp`, `epoll_reactor.ipp`, `posix_event.hpp` | queue, count of work, event, reactor | `run`, `post`, `stop` | `IoService`, `IoServiceProofs` |
| statistics, `indices`, tests, mocks, other libraries | | | | not modelled |

How they interact. The io thread reads one request of a session at a time and
posts it to the writer service (`namespace`, `transact`; one thread) or to the
reader service (`select`, `facts`; several threads). The writer runs each
request in an LMDB write transaction; a reader renews a read transaction, which
is a snapshot. Both post their reply to the io thread, which writes it and
reads the session's next request; the writer's reply is also published to the
members of the namespace's channel.

How the models compose. `Store` assumes of LMDB that a snapshot never changes
and that a transaction is there whole or not at all; `Lmdb` shows it
(`SnapshotIntact`, `RecoversWhole`). `Server` assumes of the store the numbers
of its transactions, which `FactLog` promises and `Store` implements; of asio
that what is posted is run and that `run()` returns when it should, which
`IoService` shows (`PostRuns`, `PoolPostRuns`, `PoolDrained`,
`PoolRunReturns`); and that a read gives
one request, which `Wire` shows (`LinesInOrder`, `AllTaken`). `Store` assumes of
`Server` that one request of a session is handled at a time (`OneInFlight`).

What makes it hard:

- readers work on snapshots while the writer commits, and read the schema and
  the facts in two scans;
- a request is many puts: any fact may be refused, any put may fail, the
  process may die, and temporary ids, unique entries and facts must all go;
- the meaning of a fact (cardinality, uniqueness, reference) is itself made of
  facts, which change;
- retractions and assertions of one transaction share its number;
- the key comparison returns a truncated difference, and shifts may overflow;
- the unique index is kept beside the facts and must follow them;
- replies, answers and events come from several threads, and connections break
  and signals come between any two steps;
- pages are used again while readers come and go, and meta pages are written in
  place.

## The modules

**`Datoms`** holds the pure part. An index is the set of its keys; a datom is
`[e, a, v, t]` with `t` twice the transaction plus one for a retraction, as in
`custom_key`. The bytes of a value are a number, so that an integer and a
string may have the same bytes, as they may in the code's union. `Pad` is the
code's encoding of a string's length. `BasicFacts` and `BasicUnique` are what
`setup` stores. `ScanGroup` folds `Visit`, the body of the scanning loops, over
the datoms of one entity and attribute in key order. Both loops look only at
that group, because their map is emptied when the group changes; `query_a`
never clears it inside a group and `handle_facts` does unless the attribute has
cardinality many. A datom built from a string has an uninitialized integer
(`db.cpp` 334), which the code compares with schema constants: `junk` is the
arbitrary set of entities for which that comparison succeeds. `ReadBound` is
`(tx << 1) + 1` with the overflow of the shift; `TxWrap` stands for 2^62.

**`Store`** has the committed state `db`, the writer's transaction (`wns`,
`work`, `todo`, `newIds`, `newFacts`, `eUnique`, `eRef`), the readers' snapshots
`rd`, and the last replies `reply` and `answer`.

| action | code |
|---|---|
| `handle_namespace` | `handle_namespace`: `setup` and the commit, or a failed commit |
| `transact_reject` | the early returns of `handle_transact`, and `err_tx` before the loop |
| `transact_begin` | the write transaction begins, META_TX, META_ID and the schema are read |
| `fact_refused` | the paths of the loop to `err_cur` |
| `fact_skipped` | a value that is neither an integer nor a string |
| `fact_put` | one fact: ids, unique index, EATV, AETV |
| `transact_commit` | META_TX, META_ID, the commit, the response |
| `transact_fail` | an LMDB call fails at any point |
| `facts_renew`, `facts_scan` | `handle_facts`: the snapshot, then the answer |
| `crash` | the process ends at any point and `db::open` runs again |

A write transaction is a private copy that becomes visible at once or not at
all, there is one at a time, and a read transaction keeps the state it began
with. The database is opened with `MDB_NOSYNC`, so only the death of the process
is modelled, not that of the machine. `e_card` (`handler.cpp` 268) is computed
and never used, and is left out. The part of the writer between two puts is not
visible to readers, so one step per fact is fine enough.

**`FactLog`** is what the store promises: a namespace is a log of transactions
that only grows at its end, a write is appended whole or leaves no trace, and a
read is answered from a prefix that has at least what was there when it began.
It has no indices, stamps, snapshots or ids. **`StoreLog`** maps the store to
it: the EATV index, cut up by the transaction numbers in its stamps, is the
log (`LogOf`), and a snapshot is the length of a prefix (`ReadOf`). The steps of
an open transaction map to no step.

**`KeyOrder`** is `custom_key_compare` with its control and its arithmetic: each
difference is tested for zero in 64 bits and returned as an int, `ToInt`.
`IntHalf` stands for 2^31. A put whose key compares equal to one that is there
adds no key. `Columns` gives the intended order as a tuple.

**`PaddedPut`** is the way of a string into the map and back. The map is the
sequence of its items and the cursor a position in it, because
`cursor_put_padded` (`db.cpp` 305) passes the size of the data as the flags of
`mdb_cursor_put` when the size is a multiple of 8: `Has` tells which bits of a
length are which flag, and `mdb_cursor_put` does what they say.

**`Server`** has, for each session, its connection, its namespace, its write
queue and whether a read and a write are outstanding; the members of channels;
the jobs posted to the three services; the threads; and of the store META_TX of
each namespace. The io thread's actions are `accept`, `request_read`,
`read_failed`, `write_done`, `write_failed` and `run_posted`, which is the
function a handler posts (reply, event, next read). A handler on another thread
is three steps: take the job, work on the store, post. `handle_select` assigns
the namespace on the reader's thread and `run_posted` leaves a channel later, as
the code does. `signal`, `channels_clear`, `writer_joined` and `readers_joined`
are the end of `main`. A client may break its connection at any moment; messages
that arrived before it did are still read.

**`Wire`** is one connection as bytes. `search` is the loop body of asio's
`read_until_delim_string_op` with its search position, `partial_search` the
function it calls, `handle` the completion handler of `read_request` with
`getline`, the dispatch and the next read. A read may take any number of the
bytes that have come; a write may send any number of a message's. A reset, which
loses bytes that were sent, is not modelled: it is `disconnect` of `Server`.

**`Lmdb`** is one writer, reader threads and the death of the process, with the
flags nstore uses (`MDB_WRITEMAP`, `MDB_NOSYNC` and others). A tree is the set
of its pages, a page the number of the transaction that wrote it last. Every
load and store of a shared word (`mti_txnid`, `mr_txnid`, the fields of a meta
page) is a step of its own, in program order. `renew_load`, `renew_store`,
`renew_check`, `renew_copy` are `mdb_txn_renew0`; `find_oldest_start`,
`mdb_find_oldest`, `find_oldest_end`, `page_fetch` and `Allocated` are
`mdb_page_alloc`; `freelist_save` and `meta_free` to `publish` are
`mdb_txn_commit`. A reader that copies a meta page the writer has just begun to
write again may get a mixture of its fields, but of those it uses only the root
of the main tree, which is one word: so the copy is one step.

**`IoService`** is asio's `task_io_service`. A step is a stretch of code under
its mutex, an atomic change of `outstanding_work_`, or a call after the unlock;
`call` is what a thread has still to do of a call to the service. `pc` runs
through `do_run_one`: waiting on the event, inside the reactor, in a handler, in
the clean-ups. Condition variables may wake up by themselves. Handlers may
throw, post, start operations and stop the service.

The modules whose names begin with `MC` are for TLC. `MCStore` holds the requests
clients send to the store and `MCKeyOrder` the keys. The others put instances
together, one of which moves in a behaviour: `MCHistory` and `MCServer` run the
same component under several *plans*, each an instance with requests, faults and
bounds of its own; `MCLmdb` does the same with many or few readers;
`MCIoService` has the io service and a pool of threads beside it; `MCProgress`
has a connection, the server and the store; `MCReadBack` puts strings or scans
datoms. An operator whose comment begins with "Mutant" is a deliberately wrong
variant of the definition after it; each property is known to fail for one of
them.

## The runs

| run | configuration, module | result |
|---|---|---|
| history | `MCHistory.cfg`, `MCHistory` | passes: `TypeOK`, `SchemaIndexInSync`, `ResponseIsStored`, `AnswersReproducible`, `HistoryInv`, `IdentsUnique`, `IdentsProtected`, `AsOfStable`, `IdsHandedOutOnce`, `ImplementsLog` |
| keys | `MCKeyOrder.cfg`, `MCKeyOrder` | passes: `NoKeyLost`, `CursorOrder`, `GroupsContiguous` |
| read_back | `MCReadBack.cfg`, `MCReadBack` | passes: `ReadsBackWhole`, `OnlyFlagsRefuse`, `ScanIsLastWriteWins` |
| server | `MCServer.cfg`, `MCServer` | passes: `OneInFlight`, `RepliesInOrder`, `EventsComplete`, `CommitsAnswered`, `AnswersFresh`, `SelectTakesEffect`, `EndedLeave` |
| progress | `MCProgress.cfg`, `MCProgress` | passes: `LinesInOrder`, `RepliesWhole`, `AllTaken` of the connection, `RequestAnswered`, `ShutdownEnds` of the server, `TransactionEnds` of the store |
| lmdb | `MCLmdb.cfg`, `MCLmdb` | passes: `SnapshotIntact`, `RecoversWhole`, `NoPageLost`, `LmdbInv` |
| io_service | `MCIoService.cfg`, `MCIoService` | passes: `WorkCounted`, `DescriptorsOnce`, `NoWakeupLost`, `PostRuns` of the io service, `PoolDrained`, `PoolPostRuns`, `PoolRunReturns` of the reader service |
| foreign_retraction | `MCForeignRetraction.cfg`, `MCStore` | violates `IdentsUnique` |
| stale_unique | `MCStaleUnique.cfg`, `MCStore` | violates `NoStaleUnique` |
| refs | `MCRefs.cfg`, `MCStore` | violates `OnlyRefsResolved` |
| namespace_twice | `MCNamespaceTwice.cfg`, `MCStore` | violates `NamespaceCreatedOnce` |
| far_keys | `MCFarKeys.cfg`, `MCKeyOrder` | violates `DifferentKeysDiffer` |

The type invariants of `Server` and `Lmdb` are proved and not run again.

Run one with `tlc -config MCHistory.cfg MCHistory`; the passing runs take up to
three minutes. Those of strings, the server, requests, LMDB and asio do not look
for deadlocks: clients may stop sending, `main` ends, and the bounds on requests
and transactions are reached. That nobody waits for ever is what the liveness
properties say.

**Bounds.** *history.* `MaxTx` limits the transactions of a namespace. The plans
are *shapes*, two transactions (schema, then facts that use it) over two
namespaces with every shape of fact list; *reads*, three (facts, schema, a
retraction, with the snapshot taken anywhere); *idents*, four (set, change,
swap, retract). Every path of the loop appears in some fact list, including a
failure after facts were stored. `TxWrap = 8` is above every transaction number,
so that the overflow of the shift is reached only by an argument, as in the
code, and `ReaderArgs` holds one such argument. `NsSize = 2` lets -1 wrap to a
second namespace. *idents* is limited to requests in which an entity gets at
most one identifier per transaction and retracts only identifiers it has, over
integers. Without the second limit the code does not keep identifiers unique,
which is what *foreign_retraction* shows.

*keys.* `IntHalf = 256` must exceed the span of `type` and `sort`, and the
window keys use the full span of it; `MaxKeys = 3` because every property of the
order is about at most three keys.

*read_back.* One length of every class the code tells apart, in requests of one
and two facts: two are needed for a cursor that is somewhere. The scan is of
every set of datoms over three values, two of them with the same bytes, and two
transactions.

*server.* Two sessions are one that transacts and one that is told; two readers
are needed for answers that overtake. The plans are *selects* (two requests of a
session, of any kind the store sees), *events* (three requests, so that an
answer, an event and a further answer meet; a write that has begun ends before
anything else happens, which without faults no invariant can tell), *failures*
(broken connections, failing handlers, a signal) and *leaves* (sessions that
select and end). In all of them clients connect when the threads have started;
*progress* is without that restriction. A namespace has one or two transactions:
two are what it takes to miss one, to hear of one twice or in the wrong order.
Sessions and readers are symmetric. The invariants are proved for any number of
all of these.

*progress.* The streams hold two requests in one piece, an end of line after a
carriage return, a line feed inside a request, empty lines, and half a request
at the end; reads of up to four bytes cut and join all of them. The server has
two reader threads and one slot, so that one thread gets none. The store has one
transaction and one read, which may be of a number whose shift overflows.

*lmdb.* Three pages besides the meta pages and transactions 3 to 5 are enough
for a page to be freed, listed, taken and written again while a reader holds the
tree it was in. A second reader, for one that is overlooked while the other is
visited, takes part up to transaction 3; the proofs are for any number of both.

*io_service.* Three threads are needed for one that is signalled, one that takes
its operation and one that keeps waiting. `MaxPosts = 2` makes two posts race;
`MaxActs` bounds what handlers do besides returning.

**Fairness.** The fairness of `MCProgress` and `MCIoService` is that of the
`FairSpec` of each component, while it is the one that moves. `FairSpec` of
`Store` assumes weak fairness of the writer's steps
inside a transaction and of each reader's scan. They are loops of threads of
their own that wait for nobody: LMDB readers never block, and there is one
writer, so the write lock is free. `FairSpec` of `Server` assumes that each
thread goes on and that the io service runs what is posted to it, whatever else
completes, because its queue is first in, first out; nothing is assumed of
clients, which need not send, read or stay. `FairSpec` of `Wire` assumes that a
read whose bytes have come completes and that handlers reply. `FairSpec` of
`IoService` assumes that a thread with a step to take takes it: the mutex is
held for bounded stretches, handlers return, a signalled thread wakes up, and
`epoll_wait` returns when something is ready. No descriptor ever needs to become
ready, and no thread to wake up by itself.

## What the runs show to be wrong

- *foreign_retraction*: `mdb_del` of a unique entry (`handler.cpp` 394) does not
  ask whose it is. One entity retracts another's identifier, and a second
  entity may then take it while the first still has it.
- *stale_unique*: `last_datom` (`db.cpp` 412) sets a cursor past the value and
  steps back; at the end of the map there is no key to set it on, and the old
  value stays reserved.
- *refs*: `e_ref.find(a) != e_ref.end()` (`handler.cpp` 327) holds for every
  attribute that has a type.
- *namespace_twice*: the result of `setup` is dropped (`handler.cpp` 69), while
  `test.cpp` 157 and 159 expect an error.
- *far_keys*: entities 2^32 apart are one key (`db.cpp` 57).

Two more disagreements with the documentation of LMDB are part of the models and
of what passing runs say:

- `cursor_put_padded` (`db.cpp` 305) passes the size of the data where flags are
  expected, when the size is a multiple of 8. A string of 64 bytes (or 32832) is
  `MDB_CURRENT`: it replaces the fact before it in the same transaction, whose
  key does not match as `lmdb.h` 1503 demands, and is refused when there is
  none. A length with the bit of `MDB_RESERVE` (65536 bytes and more) gets space
  that nobody fills (`lmdb.h` 1518). Lengths with the bits of `MDB_MULTIPLE` and
  `MDB_APPEND` are refused, and so are repeats of 48 or 56 bytes in a
  transaction. *read_back* shows that these are all: `ReadsBackWhole`
  and `OnlyFlagsRefuse` except just those lengths. What searches
  find in a map that the first of them left out of order is not modelled.
- After a failed commit `handle_transact` aborts the transaction again
  (`handler.cpp` 481, 512), although it was freed (`lmdb.h` 1036). The second
  call frees the one handle that all write transactions use: `Lmdb` has this
  (`commit_failed`, `txn0`) and begins no write transaction afterwards until the
  process is started again. `RecoversWhole` and `NoPageLost` hold all the same.

Behaviour that no document of the repository speaks about, and that the models
have as the code has it: `select` joins no channel, so that every session hears
of namespace 0 alone until it selects it; a session that has selected another
namespace stays a member of channel 0 after its end (`EndedLeave`); a write that
failed leaves the queue stuck while requests are still handled
(`RepliesInOrder`); a line feed inside a request makes two of it
(`LinesInOrder`).

## What is proved

The proofs hold for every value of the constants that satisfies the named
assumptions: `TxWrapAssumption`, `StoreAssumption` (the ranges of the integers
clients send, and `MaxTx` below `TxWrap`, so that stamps do not overflow),
`RequestsAssumption` (requests are lists of lists of JSON values whose strings
`cursor_put_padded` stores with a plain put), `IntHalfAssumption`,
`ServerAssumption`, `LmdbAssumption` (a map of more than three pages) and
`IoAssumption` (a service with a reactor has one thread, as in `main`).

A leaf that is pure logic cites `Zenon`, one that needs arithmetic or sequences
is left to the SMT solver, and `ZenonT` or `SMTT` gives more time to the few that
come near the default limit. Preparing an SMT obligation becomes slower with
each one that `tlapm` has prepared before in the same module and is itself
limited to five seconds, which is why the long modules use it sparingly.

`StoreProofs`: `TypeCorrect`, that `TypeOK` is an invariant, by one step per
action.

It continues with `HistoryInvariant`, that `TypeOK /\ HistoryInv` is
inductive. The properties alone are not: that a read as of an old transaction
keeps its answer needs to know that nothing older is ever added. `HistoryInv`
says that committed stamps are below `2 * META_TX` (`DbInv`); that an open
transaction has only added datoms stamped with its own number, and those are its
accepted facts (`WorkInv`); that the ids it handed out are exactly those META_ID
moved over (`IdsInv`); that the last response names a completed transaction
(`ReplyInv`); and that snapshots and answers are about prefixes of the history
(`ReaderInv`, `AnswerInv`). From it follow

- `HistoryImmutable` (`AsOfStable`), `ReadsReproducible`
  (`AnswersReproducible`): a read depends only on the datoms within its bound
  (`FactsDependOnUpTo`), and later states have the same ones (`UpToStable`);
- `ResponseFaithful` (`ResponseIsStored`), `IdsFresh` (`IdsHandedOutOnce`) and
  `SchemaIndexExact` (`SchemaIndexInSync`).

Its last part is `StoreImplementsLog`, that `Store` implements `FactLog`. Each
action maps to one step of the log or to none (`LogStep`). It needs, beside
`HistoryInv`, that what a namespace holds of transaction 0 is exactly the basic
facts (`BaseInvariant`); then the log is the index without them, a commit
appends one element to it (`CutAppend`), and the facts of a prefix are the
datoms a snapshot holds (`PrefixFacts`).

`KeyOrderProofs`: `CompareIsLex`, that for keys whose columns differ by less
than 2^31 the comparison is the lexicographic order of the columns, which is
transitive (`LexTransitive`); and from it, for a set of keys in such a window
(`KeysInWindow`), `KeysKept` (`NoKeyLost`), `CursorOrdered` (`CursorOrder`) and
`GroupsTogether` (`GroupsContiguous`). *far_keys* shows that the window is
needed.

`ServerProofs`: `ServerTyped` (`TypeOK`, which includes that a session's
namespace exists) and `OneRequestInFlight` (`OneInFlight`), for any number of
sessions and threads. `OneInFlight` is inductive with the types: every step
moves a request of one session from one place to one other.

What clients are told is proved in three modules on top of it. To a client the
queues and threads a request passes look alike: a request is pending, then its
reply is on its way, then it is written. `Steps` (`ServerStepProofs`) says that
every step of the server is one of five kinds: it changes none of this
(`Quiet`), it answers a request at once (`AnswerStep`), it takes one in
(`RequestStep`), a handler turns a pending request into a reply on its way and
changes namespaces or transactions accordingly (`HandleStep`), or the io thread
writes a reply and its events (`DeliverStep`). Each invariant below is then
inductive by five cases.

- `RepliesOrdered` (`RepliesInOrder`), by `Numbered`: the request in flight has
  the number of the last one read, and so has its reply.
- `ReadsNeverGoBack` (`AnswersFresh`), by `Bounded`, that every message said so
  far, written or on its way, names a transaction that exists, and by `Fresh`,
  that an answer on its way is as new as all that was written to its session. A
  session has one request in flight, so that only events can come while its
  answer is computed.
- `SelectsTakeEffect` (`SelectTakesEffect`), by `Selected`: `session::ns` is the
  namespace of the last select written unless the acknowledgement of a select is
  on its way, and whatever is on its way is about `session::ns`.
- `CommitsAnsweredOnce` (`CommitsAnswered`), by `OneResponse`: each transaction
  has been said, and only once.
- `MembersMissNothing` (`EventsComplete`). What the io thread has yet to run
  (`OnTheirWay`) grows at its end when the writer commits, but a reader may post
  before a writer that has committed and not posted; `ReadersRead`, that the
  readers have only selects and reads, makes this harmless. `Reported` adds that
  one who joined now would miss nothing either, and `Newcomers` that a session
  was told nothing before it was accepted, which is when it joins. `RoadSteps`
  gives the steps as this argument needs them.
- `EndedSessionsLeave` (`EndedLeave`), by `Ended`: only channel 0 is joined, and
  a session whose connection is open has a request read or handled, so that the
  only step that leaves it with nothing to do is the read that fails, which
  calls `session::end`.

`LmdbProofs`: `LmdbInvariant`, that `TypeOK /\ LmdbInv` is
inductive. A tree that a reader registered at transaction `n` may see is
`Guarded`: nothing of it is at hand for the writer, the oldest reader the writer
knows of is not later than `n`, and no record of free pages up to `n` has a page
of it; so the record taken next, which is older than that reader, cannot have
one either. The published tree is guarded by its own number, which is why a
reader that registers late is safe. `ActiveInv` and `SavingInv` say that tree,
freed, loose and fetched pages and the records not taken divide all pages, so
that what is saved divides them again. From it follow `SnapshotsIntact`
(`SnapshotIntact`), `RestartsWhole` (`RecoversWhole`) and `PagesKept`
(`NoPageLost`). LMDB looks for the oldest reader more carefully than these need:
the retry of `mr_txnid` is required by `LmdbInv`, while `SnapshotIntact` alone
also holds without it at the bounds of the runs.

`IoServiceProofs`: `WakeupsKept` (`NoWakeupLost`), for any number of threads and
callers. Alone it is not inductive. `WakeInv` adds that the event is set while
an operation is queued unless a thread is about to look (`Noticed`), so that a
thread which goes to wait does not sleep on it; that a blocked reactor counts as
interrupted only when it will be (`Interruptible`); that threads return only
from a service that stops (`Returned`); and that the event's count is the
threads inside `wait`.

It goes on with `PoolsDrained`: a service without a reactor, as the writer and
the reader service are, is `Drained` for any number of threads and posters. The
run *io_service* checks the same of one pool of three threads (`PoolDrained`).
`PoolInv` is what makes it inductive: `outstanding_work_` is the dummy work, the
posts on their way, the length of the queue and the threads that run an
operation or clean up after it (`Counted`); each handler that was posted has
run, is queued or runs (`Accounted`); and the service stops only with nothing to
do (`StopsIdle`). A post counted only after it is queued, or work finished
twice, would break `Counted`.

Only model-checked:

- liveness (`RequestAnswered`, `ShutdownEnds`, `AllTaken`, `TransactionEnds`,
  `PostRuns`, `PoolPostRuns`, `PoolRunReturns`), which is outside the prover;
- what the scan computes (`ScanIsLastWriteWins`), what `PaddedPut` reads back
  (`ReadsBackWhole`, `OnlyFlagsRefuse`) and what `Wire` cuts out of a stream
  (`LinesInOrder`, `RepliesWhole`), which need induction over folds and
  sequences. In the proofs of the store the fold is opaque: equal sets of datoms
  give equal answers;
- `WorkCounted` and `DescriptorsOnce` of the service with a reactor. They are
  sums over descriptors and over the threads' queues, about which the provers
  know nothing. Without a reactor the count is `Counted`, which is proved;
  a proof of `DescriptorsOnce` would state it without the sum and needs an
  invariant of its own about what is queued while the reactor runs;
- `IdentsUnique` and `IdentsProtected`, which hold only for the requests that
  the plan *idents* has; *foreign_retraction* shows that they fail for others.

## What is not modelled

Of nstore: formatting and parsing of JSON, the command line, logging, the
counters of `stats.cpp`, which nothing reads, the `indices` tool, which prints
the database, and the tests. Loss of power: the database is opened with
`MDB_NOSYNC` and promises nothing then. An exception from `set_option` in the
accept handler (`server.cpp` 32), after which `do_accept` is not called again.

Of LMDB: the B+tree and the layout of its pages, values on several pages, the
pages of the free list's own tree, spilling, nested transactions, duplicates,
several processes, and memory weaker than program order.

Of asio: everything that nstore does not reach (timers, strands, resolvers,
other reactors and platforms), cancellation and closing of descriptors, and
resets that discard bytes.

The libraries under `lib/` are about 157,000 of the repository's 159,000 lines:
asio, rapidjson, json, spdlog, catch and LMDB. nstore's own code is about 2,000
lines, of which the models cover nearly all that changes state. Of the libraries
only the code that nstore's correctness rests on is modelled; most of the rest
is headers for other platforms, code that nstore never calls, and pure
functions, of which a model would say nothing about this program.

## What could come next

The requests for which the unique index is exact, and a proof that it is; the
counts of the io service with its reactor for any number of descriptors; and the
B+tree of LMDB.
