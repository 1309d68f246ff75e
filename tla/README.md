# Protobag in TLA+

Protobag stores Protobuf messages in ordinary archives: a directory, a zip or
tar file, or a map in memory.  Writing goes through a `WriteSession`, which also
writes an index of the time series data and of the message definitions; reading goes
through a `ReadSession`, which plans a playback from that index; a `MaxSlopTimeSync`
on top of a read session bundles messages of several topics that belong together in
time; a Python package drives the sessions through native bindings.  This directory
models the C++ core under `src/c++/protobag/protobag`, the bindings in
`src/c++/protobag_native` and the package in `src/python/protobag`, checks the models with
TLC on small instances and proves the central properties with TLAPS for all instances.

## Inventory

| Component | Source | State | Operations | Modules |
|---|---|---|---|---|
| Product iterator | `Utils/IterProducts.hpp` | pool sizes, last product | `GetNext` | `IterProducts`, `Products`, `Enumeration` |
| Time synchronizer | `Utils/TimeSync.cpp` | one queue (stamp to entry) per topic | `GetNext`: `TryGetNext`, `Enqueue`, `FindMinCostBundle` | `TimeSync` |
| Entries, topic times | `Entry.hpp`, `Entry.cpp`, `Utils/TopicTime.hpp` | none | creation, unpacking, naming, ordering | `Entries` |
| Archive back-ends | `archive/*.cpp` | the stored records; an open libarchive writer | `Open`, `Write`, `ReadAsStr`, `GetNamelist`, streaming | `Archives`, the fault part of `WriteSession`, `ArchiveUtil` |
| Index builder | `BagIndexBuilder.cpp` | observed topic times, counts, first and last time | `Observe`, `Complete` | `BagIndexBuilder` |
| Descriptor indexer | `BagIndexBuilder.cpp:57-150` | files of each type, type of each entry | `Observe`, `MoveToDescriptorPoolData` | `DescriptorIndexer`, `Descriptors` |
| Write session | `WriteSession.cpp` | archive, optional builder | `Create`, `WriteEntry`, `Close`, destructor | `WriteSession` |
| Read session | `ReadSession.cpp` | archive, plan, whether planned | `GetNext`, `GetIndex`, `GetAllTopics` | `ReadSession` |
| Archive utilities | `ArchiveUtil.cpp`, streaming in `archive/LibArchiveArchive.cpp` | none of their own; files | pack a directory, unpack an archive | `ArchiveUtil` |
| Temporary files | `Utils/Tempfile.cpp` | none of their own; the temporary directory | `CreateTempfile`, `CreateTempdir` | `Tempfile` |
| Dynamic messages | `Utils/PBUtils.cpp`, `.hpp` | descriptor database and pool | `RegisterType`, `LoadFromArray`, attribute access | `DynamicMsgFactory`, `Descriptors`; in part |
| Facade | `Protobag.hpp`, `.cpp` | a path | opens sessions | `Protobag`; in part |
| Python bindings | `protobag_native.cpp` | sessions held by readers and writers | iterate, write, close | `Protobag`, `DescriptorIndexer`; in part |
| Python package | `protobag.py` | registered types, one dynamic factory | `iter_entries`, decoding, writing | `Protobag`, `DescriptorIndexer`; in part |
| Generated code, examples, packaging | `protobag_msg/`, `examples/`, `cocoa/`, build files | none | none | none |

How they interact:

* `WriteSession::WriteEntry` derives a name, calls `Archive::Write` and, only if
  that succeeds, `BagIndexBuilder::Observe`, which passes the entry on to the
  `DescriptorIndexer`; `Close` completes the builder and writes the index as one more
  entry, through `WriteEntry`.  The destructor closes, then releases the archive, which
  completes the file of a zip or tar.
* `ReadSession::GetNext` reads, at its first call, every index entry of the archive
  and plans the names to read; every later call reads one name.
* `MaxSlopTimeSync::GetNext` calls `ReadSession::GetNext` until the queues hold a
  bundle, which it finds with `IterProducts`.
* `iter_entries` of Python reads the index, gives the definitions in it to the `DynamicMsgFactory`
  of the `Protobag`, which replaces the one that was there, and then calls
  `PyReader::GetNext`; each entry is decoded with generated code or by that factory.
* `ArchiveUtil` packs into files that `CreateTempfile` may have named.
* Nothing is locked.  Sessions of different processes may share a directory, and
  sessions of one process a `MemoryArchive`; files of a directory may change or go away
  at any time; all processes share the temporary directory.

What is hard about it: interleaved sessions, writes that fail or lose data
without saying so, processes that die between a write and the index, arrivals
out of time order, queues at their limit, indices at their boundaries, names written twice,
several versions of one definition, files that change while they are copied, and errors
that one layer turns into the end of another.  `PROJECT.json` lists each such hazard at
its line of the source, with the properties that watch over it, or a note on what no
property says of it.

What makes each component correct:

* Iterator: every product exactly once, then the end, for ever.
* Synchronizer: bounded memory; bundles within the slop, complete and never
  overlapping; no entry lost except the stalest of a full queue; no bundle
  withheld; the minimal bundle.
* Builder and write session: an index lists exactly what its session wrote, with
  the right counts and times; one index per session; names in an index resolve;
  a session that is destroyed leaves an index unless a fault took it.
* Descriptor indexer: for every type, the closure of its imports, of one version; every
  entry pinned to a type finds it; definitions are never replaced; the search ends.
* Read session: in time order, complete for a window, one answer for each
  requested name, an end that is final, and calls that return.
* Archive utilities and temporary files: what was packed is what is unpacked, and an error that is
  not reported costs no more than the file it met; a failure to unpack leaves what was done and
  nothing else; a temporary name is nobody else's, unless the calls raced.
* Python: an entry is decoded as what was written; an iteration gives everything it
  promises before it ends; it ends.

## Modules

`Lists` has the elements of a vector and `Sublist`, the elements that are in a set, in their order:
the community's `SelectSeq` is recursive, which would keep the modules that use it from
being proved about.  `Products` has the index vectors of a list of pools and the order of the odometer.

`Enumeration` is the abstract promise of an iterator: the members of a set, each
once, then the end.  `IterProducts` is the class.  `pool_sizes` and `next` are
`_pool_sizes` and `_next`, `given` and `emitted` are history.  `GetNext` is
split by its path: `EndAgain`, `StartWithEmptyPool`, `Start`, `Advance` (the
carry stops at some pool) and `Overflow` (it stops at none).  `ImplementsEnumeration`
is its refinement of `Enumeration`.

`TimeSync` is `MaxSlopTimeSync` with its queues.  `topic_to_q[t]` is the set of
queued entries of a topic; `std::map` keeps one entry for each stamp, so `Push`
ignores an entry whose stamp is there.  `pc` follows `GetNext`: `Call`, then
`TryGetNext` (a bundle), `TryGetNextFails` (read on) or `TryGetNextMissing` (a
topic listed twice), then `ReadEntry`, `ReadUnstamped` or `ReadFails`, and again.
`FoundBundle` is what the loop of `FindMinCostBundle` leaves: the last bundle
within the slop in the order of `IterProducts`.  The read session is external
to this module: it delivers entries of any topic and stamp in any order (a
selection by names is not sorted), and may fail at any time.

`Entries` has names, entries and topic times.  A path is cut where the code cuts
it, into a topic with or without a leading `/` and a leaf that is the time of a
stamped message; text and binary suffixes are left out.  No topic that is considered
has the index topic as a proper prefix, so `EntryIsInTopic` compares topics.

`Archives` says what the back-ends do with the records written, kept as a log: in
a directory or in memory the last record of a name is read, and names lose their leading
`/`; in a zip or tar the first is read, and names are compared as written.  `Playable` is what a
reader takes for granted of an archive: `ReadSession` assumes it, and the archives that
`WriteSession` makes are proved to have it.

`BagIndexBuilder` is the timeseries index: `Observe` counts, keeps the range
of times and appends to `observed`; `Complete` sorts (every ordering that
`std::sort` may leave).

`Descriptors` has the files of message definitions, by name and version (the pool of the
program they are from), their imports, and what a descriptor database and the pool on top of it
make of a list of them: the first file of a name stays, and a type resolves when all its files
can be built.  `DescriptorIndexer` is the class of that name and what calls it:
`Observations` are the calls that one entry causes (a stamped one also brings `StampedMessage`
along), `Skip` and `Visit` the search over imports, one file at a time, in the order of C++
or of `build_fds_for_msg` in Python, and `IgnoreObservation`, `ObserveKnown`, `ObserveFds` and
`ObserveDescriptor` the branches of `Observe`.  `DynamicMsgFactory` composes it with the reader,
which registers the types of the index in any order and decodes with them.

`WriteSession` composes archive, names and timeseries builder for any number of sessions on one
archive.  `archive` is the log, and each record carries, for the properties only, the session
that wrote it and the index it holds.  `indexer[s]` is `_indexer`, a set of at most
one builder.  `WriteEntry` is the whole call: name, write, observe.  `WriteEntryFails`
is an entry refused or an archive that says so.  `Write` may also lose the data
and report success: an `ofstream` and `archive_write_data` are not asked.  `Close`
and `Destroy` share `WriteIndex`, whose write may fail unnoticed.  `Crash` ends
a process between calls, `CrashInWriteEntry` between the write and the observation; a
directory keeps what was written, a zip or tar some first part.  `Visible` is what a reader
is sure to find.

`ReadSession` follows `GetNext` with `pc`: `Plan` or `PlanFails`, then one of
`EndOfSequence`, `ReadEntry`, `ReadError`, `NotFound` and `Skip`, the last of which
stays in the call, as the code's recursion does.  `GetEntriesToRead` has a case for each
criterion of a `Selection`.  `Delete` removes a file of a directory at any time.
An index cut short is passed over, as one that cannot be parsed is.  `Parses` is what
`PBFactory` makes of bytes: those cut short may parse as another message, and none at all are
refused.  `unpack_stamped_messages` has the value that `ReadSession.hpp:52` gives it; the plan
and the order of answers do not depend on it.

`Tempfile` is `CreateTempfile` and `CreateTempdir` of several processes: `Look` tries a random
name, `Create` makes it in a second step that does not mind if it exists by then.
`ArchiveUtil` extends it.  Each process packs one directory into its temporary file:
`StartPacking` lists and opens, `AddFile` writes a header with the size of now, `CopyChunk`
copies what there is (no more than announced), `CopyDone` pads a tar, `Close` completes the
archive, or stops at a file that cannot be opened or a header that cannot be written.  Three answers
are not looked at: an error of `fread` ends the file as its end does (`CopyStops`); where the disk is full
(`DiskFails`), `CopyChunk` may lose what `archive_write_data` did not take, and what `archive_write_close`
leaves on disk is cut, or has an entry with a wrong checksum (`OnDisk`).  `ChangeFile`, `Crash` and `Damage` are the
rest of the environment.  `failing` has the processes whose disk is full; `changed`, `unread` and `damaged`
are histories of what was changed, not read to its end, and damaged.  Afterwards a client unpacks an archive
(`UnpackEntry`, `UnpackBlock`, `UnpackDone`, `UnpackFails`; in `UnpackRefused`, `archive_write_header` fails
before there is a file, or after the old one was unlinked) or reads one entry in the loop of `ReadEntry`
(`ReadData`).  Two processes that write one file at the same time spoil it (`mixed`).

`Protobag` composes `WriteSession` and `ReadSession` under the Python package.  `PyWriter`
creates, writes, closes and dies; `IterEntries` reads the index and takes its definitions into `serdes`,
the one factory of the `Protobag`; `IterElsewhere` is another iteration over the same object, which
replaces it; `GetNextPlans`, `GetNextEntry`, `GetNextThrows` and `GetNextNone` are
`PyReader::GetNext` around the actions of `ReadSession`: a plan that fails and an entry that cannot be
parsed both raise.  `FromNentry` decodes.  A definition
is abstracted to its type and the session that recorded it: what the closure of its
files is worth is the business of `DynamicMsgFactory`.

`MC*.tla` give these modules their instances.  `OrderLemmas` and `*_proofs.tla`
hold the proofs.  A definition marked as a mutant is a plausible bug in the
definition after it; it is used only to see that a property notices it.

## Runs

| Run | Instance | Shows |
|---|---|---|
| `iter_products` | all lists of 0 to 3 pools of 0 to 3 items | types, `NoProductSkipped`, refinement of `Enumeration`, `Exhausted` |
| `time_sync` | 0, 1, 2 and 3 topics and one listed twice, 3 stamps, limits 0 to 2, slop 0 and 1, 5 reads | types, `QueuesBounded`, `BundlesSound`, `NoBundleWithheld`, `LossJustified`, `CallReturns`, `MinimalWhenInOrder` |
| `time_sync_minimal` | the same, 4 reads | `BundleIsMinimal` is violated |
| `write_session` | 2 sessions; memory, directory and zip; 4 kinds of entries, 3 writes, 1 lost record | types, `IndexMatchesArchive`, `IndexStatsAgree`, `OneIndexPerSession`, `IndexedNamesResolve`, `DestroyedIsIndexed` |
| `write_session_flush` | a zip | `FlushedWhenClosed` is violated |
| `read_session` | bags of up to 2 entries and 1 torn or empty record, of 1 or 2 sessions; 10 selections; 5 answers | types, `PlaybackInTimeOrder`, `PlaybackComplete`, `RequestedAnswered`, `EndIsFinal`, `CallReturns` |
| `read_session_latest` | two sessions on a directory | `LatestIndexRead` is violated |
| `descriptor_indexer` | 4 files in 2 versions, 3 types, every way to make an entry, up to 3 entries | types, `CollectedIsClosure`, `PinnedTypesKnown`, `NothingMissing`, `DecodedAsWritten`, `FirstDefinitionStays`, `WriteReturns` |
| `archive_util` | 2 processes, 3 temporary names of which 1 is taken, 1 attempt; a file of two chunks and an empty one; zip and tar; 1 fault | types, `FreshPath`, `RoundTrip`, `UnpackLeavesPrefix`, `CallsReturn` |
| `archive_util_packed` | the same | `PackedWhole` is violated |
| `python_bag` | 2 sessions, 7 kinds of entries, 2 writes besides the indexes; directory and zip; 5 selections; 5 answers | types, `DecodedAsWritten`, `OneSessionDecodes`, `IterationComplete`, `IterationEnds` |
| `python_bag_missing` | the same | `RequiredNamesRead` is violated |

Why the bounds are enough.  The carry loop has three cases (wrap, stop, wrap
all), which three pools of three reach at every position.  A tar is
written and read as a zip is, so the runs of sessions take one of the two; they differ in how
they finish an entry, so `archive_util` takes both.  A queue limit of 2
with 5 reads fills a queue, evicts from it twice and still completes a bundle; limit 0
is the degenerate case.  Three topics make the odometer's order matter.  Two
sessions are enough to interleave, to collide in the name of an index and to truncate
each other's zip; three writes let an index hold messages in and out of order,
with a failure or a lost record between them.  The entries of `MCWriteSession` are the
kinds the code treats differently: stamped, without name and topic, stamped under a name
of its own, and one copied from another bag.  The bags of `MCReadSession` are
built by `BagIndexBuilder` itself.  In `MCDescriptorIndexer` a file is reached by two ways in both
versions, and the two versions import in a different order, so that mixing them closes a cycle;
three entries suffice for a type met twice by each of C++ and Python.  In `archive_util`
two processes find one name or two, a fault (a changed file, a failed read, a full disk, a crash or
a damaged archive) falls on the first, the second or no chunk, and a second attempt at a name differs from the first only in `attempts`.  In `python_bag`
one name can be written twice, by one session or by two, with one or two types and with or without
descriptors, before, during and between two iterations; `Registered` has the index message only,
so that every other type needs a definition.

Bounds of actions: `MaxWrites`, `MaxLost`, `MaxReads`, `MaxAnswers`, `MaxEntries`, `MaxAttempts` and
`MaxFaults`; in `Protobag` nothing is written once the iteration is over and sessions that are alike
begin in one order.  Sessions, readers and clients stop there, so only `iter_products` and
`time_sync` check deadlock.  `python_bag` has no lost data
(`MaxLost = 0`), which `write_session` and `read_session` have.

Fairness.  `IterProducts`, `TimeSync`, `ReadSession` and `Protobag` assume weak fairness of
the steps inside `GetNext`, `DescriptorIndexer` of `Observe`, and `ArchiveUtil` of `Unpack` and `Read`:
each is one call on the caller's thread, and once called it is not suspended for ever.  For the
iterator the caller is the loop of `FindMinCostBundle`, which calls until the end, and for
`Protobag` a Python `for` loop, which does too.  No one is assumed to begin a call, to
write, to close, to delete or to pack anything.

What the violations mean:

* `BundleIsMinimal`: `TimeSync.hpp:76` promises the minimal bundle, but `FindMinCostBundle`
  never updates `best_duration` (`TimeSync.cpp:136`) and keeps the last bundle within
  the slop.  While arrivals are in time order that is still a minimal one
  (`MinimalWhenInOrder`); out of order it need not be.
* `FlushedWhenClosed`: `WriteSession.hpp:54-55` promises that `Close` flushes all data to disk
  and invalidates the session; a zip or tar is completed only by the destructor.  (A closed session
  also goes on accepting entries, which no index lists.)
* `LatestIndexRead`: `ReadLatestIndex` keeps the index of the smallest stamp
  (`ReadSession.cpp:180`).
* `PackedWhole`: `ArchiveUtil.hpp:41` promises an archive from the given files, but errors of `fread` and
  `archive_write_data` (`LibArchiveArchive.cpp:398-402`) and of `archive_write_close` (line 57) are ignored,
  and the answer is `kOK` for an archive that lacks some of their data.
* `RequiredNamesRead`: `ProtobagMsg.proto:62-63` says that a file not found causes an error by default;
  `PyReader::GetNext` (`protobag_native.cpp:132`) makes it the end of the iteration, and the names after
  it are not read.

The code and its documents disagree in four more places, which the models follow the code in and the passing
properties leave out:

* With `require_all`, `ReadSession.cpp:260-269` calls missing what the index has and was not asked for, not
  what was asked for and the index lacks (`ProtobagMsg.proto:91`, and the message at `ReadSession.cpp:281`).
* `protobag.py:502-503` says that the descriptors of every message written are indexed; `PyWriter::WriteMsg`
  gives no type URL, and `DescriptorIndexer::Observe` ignores an observation without one, so that such an
  entry is decoded only if its type is registered otherwise (`Decodable` in `Protobag`).
* `ProtobagMsg.proto:128-131` says that an entry is pinned to the definition used to record it, though a
  schema may evolve in one file.  A type is indexed once, with the files it had at its first entry; a later
  entry of another version is pinned to those (`BagIndexBuilder.cpp:81`; `Unambiguous` in `DynamicMsgFactory`).
* The repository's `README.md:117-120` says that after a change of schema between sessions both are indexed and
  the proper one is used; `protobag.py:722` takes the definitions of one index, and the entries of the other
  session raise (`OneSessionDecodes` is about bags of one session).

What the passing properties had to leave room for is how the code behaves, too:

* A type pinned to a name overrides the type the entry itself has (`protobag.py:871-881`).  An entry is
  decoded as written unless its name is ambiguous (`Ambiguous` in `Protobag`): written by several
  sessions, or with and without descriptors, or, in a directory, with and without the leading `/`, or, in
  a zip, with several types, where the first record is read and the last one pinned.
* A directory lists every name with a leading `/`.  One written without it was indexed without, so an
  iteration over everything does not find its type and raises (`Decodable`).
* A raw entry of no bytes can be written and never read, except in raw mode.
* `iter_entries` needs an index even when it is asked for everything or for names.
* An iteration over names is complete if they all were in the bag when it began (`AllThere` in
  `IterationComplete`); otherwise see `RequiredNamesRead`.
* A packer told that all went well has its files in the archive except those that changed or could not be read
  to the end, and none for certain when the disk was full, the archive damaged, or its temporary
  name another's too (`Spoiled`, `Alone` in `RoundTrip`).  The ignored error of reading one file costs no other file.
* When the header of an output file is refused, that file is as it was, empty, or gone
  (`Refused` in `UnpackLeavesPrefix`).
* `ARCHIVE_WARN`, the answer to a wrong checksum, is added to the position in `ReadEntry` of
  `LibArchiveArchive.cpp`, whose loop then need not end (`CallsReturn`).
* An entry with an absolute name is unpacked to that path, not below `dest_dir`; archives packed
  without a base directory have such names.
* Of two versions of one file, the one registered first is used for all types (`Unambiguous` in
  `DynamicMsgFactory`).
* The entries that a topic listed twice took from its queue before the second `Pop` failed are gone
  (`LossJustified` is about distinct topics); none is ever delivered for both (`BundlesSound`).
* Indexes of two sessions that close at one reading of the clock have one name, and one of them is not
  found (`IndexFound` in `DestroyedIsIndexed`).

Seen in the source and kept out of the models, because nothing depends on it: the branch of
`_Writer.write_entry` for a `StampedEntry` cannot be reached, and `_indexed_type_urls` is never filled, so
that Python searches the imports of every message again.

## Proofs

TLAPS checks these for every value of the constants, under the named assumptions
of the modules, which the runs evaluate.  Every invariant and every action property of
a passing run is the statement of a theorem.

* `IterProducts_proofs`: `TypeCorrect`, `WalkIsComplete` and `IteratorImplementsEnumeration`.
  The invariant that matters, `NoProductSkipped`, is itself inductive together with
  types: what was emitted is the set of products up to the current one in the odometer's
  order.  The step of `Advance` needs that `Increment` is the least product after the current one, and
  that of `Overflow` that the current one is the greatest; `OrderLemmas` has the order
  facts.
* `TimeSync_proofs`: `TypeCorrect`, `QueuesStayBounded` and `BundlesAreSound`.  The inductive invariant
  adds that queues are finite and that the number of a delivered entry, like that of a queued one,
  is no greater than the number of reads, so that an arrival is new to every queue and to all
  bundles delivered; no entry is given for two topics, since the second `Pop` would have failed.
  `NothingIsWithheld` rests on `WithheldInv`: outside the attempt that
  an arrival causes, the queues hold no bundle within the slop, since taking entries away makes none.
  `LossIsJustified` is an action property of the same invariant.  `InOrderIsMinimal` rests on `InOrderInv`:
  while arrivals are in time order every bundle within the slop has the newest arrival, which
  is the latest of all, so that the last one in the odometer's order, with the latest of the
  other topics, is minimal.
* `WriteSession_proofs`: `SessionsAreWellTyped` and `IndexIsFaithful` (the index in the archive lists
  exactly the stamped messages that its session wrote).  `IndexMatchesArchive` is not
  inductive: it speaks of indexes already written.  `IInv` adds `BuildersMatch` (a builder knows
  what its session wrote so far), `Owners` (a session has no record before it is created) and
  `OneWriter` (a zip or tar has one open session, so that truncating it robs no other
  builder).  Every action either appends one record, which `AppendLists` follows through
  `ShouldList`, or cuts the log to a first part (`SamePrefix`).
  `SessionsIndexOnce` adds `NoIndexYet`: a session that has its builder has written no index,
  whatever else it wrote; the step that writes one gives the builder up.  `IndexedNamesAreFound`
  needs no invariant of its own: an indexed name has, by `IndexMatchesArchive`, a record, and among the
  records of a name there is a first and a last (`OrderLemmas`), which is what the archives read.
  `DestroyedSessionsAreIndexed` rests on `FoundInv`: a session that gave up its builder has written an index
  or is in the history of faults, only indexes have the names of indexes, and the records of a zip
  being written are its writer's.  `IndexStatisticsAgree` rests on `StatsInv`: the counts of a builder
  are the numbers of records of a topic, and its times are reached and not exceeded; `CompleteStats`
  carries them through the sort.  The length of a builder's list is counted with them, so that two messages
  of one name are two entries.  `ArchivesArePlayable` draws on all of them: the archives
  that sessions leave, through faults and crashes, are those that `ReadSession` assumes.
* `DescriptorIndexer_proofs`: `TypeCorrect`, `IndexHasClosures`, `PinnedTypesAreKnown`, and the
  action property `DefinitionsStay`.  The heart is `SearchInv`, the invariant of a breadth- or
  depth-first search: only files the type needs are visited or queued, and what a visited file imports is
  visited or queued, so that when the queue is empty the visited files are closed under
  imports and thus all of the least closed set.  `TodoOK` has what each call of `Observe` still to come may
  use.  The graph of imports is arbitrary, cycles included.  `NothingIsMissing` and `PinnedAreDecoded`
  carry this to the reader: a database that got the closures of all types in any order, and refused
  the files whose name it had, has a file of each name that a type needs, and where the
  versions are unambiguous it has the pinned one.
* `ArchiveUtil_proofs`: `TempPathsAreFresh`, that a temporary path existed for nobody who was done
  when it was looked up; `TempInv` keeps for each process what it knew when it looked.  `TypeCorrect`,
  `UnpackedIsPrefix` and `RoundTripHolds` rest on one invariant for packers and clients: no entry holds more
  than its header announces; the entries of one packer are its files in the order listed, each with what it
  had if it did not change and was read and written without an error (`Whole`); an archive that it wrote
  alone, on a disk that was not full, and nobody damaged, has those entries (`DamagedOK` and `CutsOK` say
  what the others have); and what a client has done so far is a first part of the archive it reads, up to the
  file it writes or whose header was refused.
* `ReadSession_proofs`: `SessionsAreWellTyped`, `TheEndIsFinal` and `EachRequestIsAnswered`.  `TypeInv` adds
  that a call which plans has no plan yet, `EndInv` that after an end the plan is made and empty, and
  `ReqInv` that what is left of a plan of names is what follows the names answered, which is stronger
  than the count the property gives.  `PlaybackIsInTimeOrder` and `PlaybackIsComplete` rest on `PlaybackInv`:
  what is left of a plan is in time order and after all that was answered, and every name that a
  window wants is answered, left, or gone from the archive.
* `Protobag_proofs`: `BagsAreWrittenBySessions`, that the composition implements `WriteSession`, so that all
  that is proved of the sessions holds of a bag.  `BagsAreWellTyped`, `EntriesDecodeAsWritten`,
  `IterationsAreComplete` and `OneSessionsBagsDecode` need, beside the invariants of the writers (`WriteInv`),
  `GoneInv`, that whoever wrote an index has gone, so that a bag with an index that is read can
  grow by other sessions only (`StepGrows`), and `IterInv`, by which the one factory has the last
  pin of each name of a session that has gone (`FactoryOK`) and what a directory lists under one name is
  read and pinned from the same record.  `PlanInv` says of a running iteration that what it has to
  generate is generated or still planned: all names the bag began with, the messages of the
  window in the index it planned by, or the rest of the names asked for.  A name that was in the bag
  at the beginning is found (`RequestedIsFound`), so that an iteration over such names ends with its plan.  For `OneSessionsBagsDecode`
  the bag of one session has one index, which is found (`SoleIndex`), makes a plan (`SolePlans`), and has a
  type for each name that is read (`SoleDecodes`).

What the proofs assume of the constants, beside bounds and types: users leave the topic of the indexes to
the index (`ReservedTopicAssumption`; `IsProtoBagIndexTopic` is what the code knows it by, and
`WriteEntry` would not refuse it); files import files of their own program (`ImportsAssumption`); there is some
temporary name; sources are finite; and, of Python, that `PBSerdes` has the generated code of the
index message (`DEFAULT_MSG_TYPES`) and raw entries have no context (`ProtobagAssumption`).
`ContentsAssumption` of `ReadSession` is `ArchivesArePlayable`.

Left to TLC: liveness (`Exhausted`, `CallReturns` of both, `WriteReturns`, `CallsReturn` and `IterationEnds`), which
depends on fairness and on `ENABLED`.  In the composition `Protobag`,
nobody deletes records of the bag being read: `ReadSession` alone has `Delete`, and its proofs cover it.

## Not modelled

* Generated code (`ProtobagMsg.pb.cc`, `ProtobagMsg.pb.h`, `ProtobagMsg_pb2.py`, the messages of the
  examples): about 13,500 of the 19,770 lines of code in the repository.  It is protoc's output and holds no
  logic of this system, so no definition is mapped to it, and the share of all lines that is
  mapped stays well below what it is of the lines written by hand (about a third).
* `PBUtils`: printing, the input and output streams, and access to attributes by path (`GetAttr`,
  `GetDeep`).  They are lookups in one message by Protobuf's reflection, without state, order or
  failure beyond that of one call.  Of `LoadFromArray` only what it refuses is modelled.
* Typed access to entries (`GetAs`) and the payloads of messages: no property is about them.
* What `GetNamelist` makes of an archive torn in its last entry: it may give the empty list
  (`Namelists` in `ArchiveUtil`), which `Archives`, whose records can be passed over, leaves out.  No property
  of the sessions depends on it: it would be an archive without an index.
* Archive formats other than zip and tar, which differ inside libarchive.
* Python: conversions of times, rows (`DictRowEntry`), the building of selections, and the wrapper of
  the time synchronizer, which treats its answers as `PyReader` does.  Two bags open in one process share
  Protobuf's default descriptor pool, which refuses a definition that differs from the one it has; the
  models take a fresh process.
* The Cocoa pod, examples, Docker and build files.

## Plan

Done: the core (`IterProducts`, `TimeSync`, `Entries`, `Archives`, `BagIndexBuilder`, `WriteSession`,
`ReadSession`), then `DescriptorIndexer` with `DynamicMsgFactory`, `Tempfile` and `ArchiveUtil`, and
`Protobag`, the composition of writers, archive, reader and Python; and the proofs of every safety
property of these modules.

Next, in this order:

1. The measures behind the liveness properties, as action properties that can be proved: every step of a
   call that does not return leaves less to do (the plan that `Skip` shortens, the files that a search has
   yet to visit, the blocks that `ReadData` has yet to read).
2. `TimeSync` composed with `ReadSession`, in place of the external reader: what playback by a window, which is
   in time order, adds to what a bundle promises.
