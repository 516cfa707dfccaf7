# A verification project for CoSimIO

CoSimIO couples two simulation programs. Each program is one *partner* of a
connection; the partners share nothing but files, pipes, sockets or an MPI
intercommunicator. This directory holds TLA+ models of the library's own logic,
the TLC runs that check them on small instances, and TLAPS proofs of the
properties that matter most for every instance.

## Inventory

Paths are relative to `src/co_sim_io/`.

| Component | State | Operations | What makes it correct |
|---|---|---|---|
| `Communication` (`sources/communication/communication.cpp`) | settings, `mIsConnected`, `mPartnerInfo`; the files of the communication folder | `Connect`, `Disconnect`, `SynchronizeAll`, `HandShake`, folder cleanup | the partners synchronise, agree on the verdict of the handshake, are not disturbed by leftovers, leave nothing behind, never wait forever |
| `FileCommunication` | one file per identifier and rank, and its temporary name or `.avail` file | send, receive (raw or serialized), destructor | every import returns, complete, what the partner exported, once and in order |
| `PipeCommunication` | two named pipes per rank, buffer size | open order, sizes, split writes and reads | no deadlock in opening, no short message |
| `SocketCommunication`, `LocalSocketCommunication` | acceptor, port of every rank, io context thread | listen, exchange ports, connect, close | every rank meets its partner, whoever is faster |
| `MPIInterCommunication` | port name, intercommunicator | `Comm_accept`, `Comm_connect` | collective calls match |
| `DataCommunicator`, `MPIDataCommunicator` | communicator | barrier, broadcast, gather, reductions, error checks | ranks agree on failure |
| `Connection`, `connect_impl.cpp`, `co_sim_io.cpp` | map of connections; registered functions; the loop of `Run` | `Connect`, `Disconnect`, `Register`, `Run`, import and export | a name refers to at most one live connection; failures leave a usable registry |
| `CommunicationFactory` | table of constructors | `Create` | refuses unknown names |
| `Info`, `Serializer`, `DataContainer`, `ModelPart` | containers | set, get, save, load, resize, create and remove entities | load is the inverse of save; ids stay unique |
| `Utilities` | none | names, partner ranks, polling | both sides compute matching partner ranks |
| C, Fortran and Python interfaces | handles | forward calls | ownership of handles |
| VTK output, version, exceptions | none | formatting | not protocol relevant |

The components interact as follows. A call of the program looks up its
`Connection` in the registry and ends in the `Communication` object of the
connection, on every rank of the program. The ranks of a program meet in the
collective calls of its `DataCommunicator`; the ranks 0 of the two programs meet
in the files of the communication folder; after the handshake each rank talks to
the rank of the same number in the other program. Data passes through
`DataContainer`, metadata and meshes through the `Serializer`.

The hardest behaviour is in the connection life cycle. Two programs that are
started, killed and restarted independently run a protocol of files whose names
repeat from session to session and from execution to execution; every call of
the file system of one partner can fall between any two calls of the other. Next
come the ranks, which must all take the same decision while only rank 0 knows
why, the functions that `Run` calls and that use the library themselves, and the
objects that `Info` and `ModelPart` share behind the back of the program.

## What is modelled

### `Communication`: the life cycle of a connection

Rank 0 of each partner executes `Connect` and `Disconnect`, one file-system call
per step. `pc[p]` is the next call, `tag[p]` the part of the protocol: the
synchronisation `conn`, the `handshake`, or the synchronisation `disconn`.
A file of the protocol is `<<owner, tag, kind>>`, kind `data` for the file and
`avail` for the empty file that announces it.

| Code | Model |
|---|---|
| `BaseConnectDetail`: `remove_all`, `create_directory` | `StartRemoveAll`, `RemoveEntry`, `RemoveFolder`, `CreateFolder` |
| `SynchronizeAll`, primary branch | `Open Perms Avail Wait RmAvail RmData Gone` |
| `SynchronizeAll`, secondary branch | `Wait RmAvail RmData Open Perms Avail Gone` |
| exchange lambda of `HandShake` | `Gone Open Perms Avail Wait RmAvail Load RmData` |
| the checks of `HandShake`, `DerivedHandShake` | `Check` |
| `BaseDisconnectDetail` | `Gone` with tag `disconn`, then the folder removal |
| exceptions | `Throw`: the partner has failed and does nothing more |
| the programs being killed and started again | `Crash`, `Restart` |

`remove_all` is not atomic: it lists the entries and visits them one by one, may
meet files that appeared in between, and removes the folder only if it is empty.
`fs::remove` of a missing file makes `RemovePath` throw; a stream opened in a
folder that does not exist creates nothing and the next check throws. The
settings that the handshake compares are one value `setting`; the trace type is
kept apart because it also decides whether the partner's file can be read. Every
file carries the number of the execution and session that wrote it; no action
looks at that stamp, only the properties do.

`Rendezvous` is the abstract specification: a barrier, in which a partner may
leave its n-th synchronisation only when the other one has entered it.

### `FileCommunication`: data exchange through files

It extends `Communication`. While connected, a partner works through a script of
exports and imports; each is a sequence of file-system calls on the data file of
its identifier. `useAux`, chosen at the start, is the mode of
`use_aux_file_for_file_availability`. Opening a file and completing it are two
steps, so that a torn file is visible. `Mailbox` is the abstract specification:
each identifier is a box for one message.

### `PipeCommunication`: data exchange through named pipes

It extends `Communication`, too. `step[p]` is the position of a partner in
`ConnectDetail` (create, wait for and open the pipes), `Write`, `Read` or `Close`.
`pipe[p]` holds the bytes in the pipe that p writes to. Each byte knows the
message and the session it belongs to, so that a lost, a foreign and an old byte
can be told from the right one. The 8 bytes of the size are one byte of the
model; they are far below `PIPE_BUF` and cannot be torn. The kernel is external:
`write()` of more than `PipeBuf` bytes may be split at any place when the pipe is
filling up, `read()` returns what is there or, at the end of the pipe, nothing,
and a write that nobody can read any more ends the program (SIGPIPE; its status is
then `crashed`). The code ignores how much `read()` returned; the bytes it did not
get are `Garbage`. Nothing else kills a program: the end of a pipe is silently taken
for data.

The programs may call anything in any order. The pairs in `Coupled` are those that
`FitTogether`: each imports as often as the other exports, and elements of the same
width, in whatever order the two are. `PipeDelivers` and
`PipeNeverFails` are about these, `NoStaleBytes` is about all of them.

### `Ranks`: all ranks of both partners

`socket`, `local_socket` and `mpi_inter` connect every rank with its twin, the
same rank of the other partner. The variable `conn` holds the connection that is
made: format, numbers of ranks, settings and programs. Each rank works through the list of steps
`self[x].todo`, which `Connect`, the script and `Disconnect` make from the code of
the rank. Waiting for others is a step of its own.

| Code | Model |
|---|---|
| `DataCommunicator::Barrier` in `SynchronizeAll` | `Arrive`, `Depart` |
| the synchronisation of the two ranks 0 | `Sync`, `Synced`: the barrier that `Communication` is proved to implement |
| `SocketCommunication::PrepareConnection`: listen, `Send` to rank 0, `Recv` in the order of the ranks | `Listen`, `Report`, `Reported`, `Collect`; `conn.eager` says whether `MPI_Send` returns before it is received |
| `MPIInterCommunication::PrepareConnection`: `MPI_Open_port`, `MPI_Bcast` | `OpenPort`, `GetPort` |
| `HandShake`: exchange, checks, broadcast | `Offer`, `Judge`, `Broadcast`, `GetInfo` |
| `GetConnectionInformation`, `ConnectDetail` | `LookUp`, `ConnectSocket`, `Accept`; `Unlink`, `Bind`; `Join`, `Joined` |
| `SendString`, `ReceiveString` | `Send`, `Receive`: whole messages, `SocketBuffer` of them in flight |
| `DisconnectDetail` | `Close`; `Leave`, `Left` |

Which port a rank gets depends on the order in which the ranks listen. A closed
socket still delivers what was sent before; then `Receive` throws, and so does a
`Send` to a peer that is gone. The sockets and MPI are external.

### `Connection`: the registry, `Register` and `Run`

One program, its map `registry` from names to `Connection` objects and the
`stack` of the `Run`s it is in, because a registered function may call the library
again. `Connect`, `Disconnect`, `Exchange` (all imports and exports), `Register`
and `Run` are one action each; every check and every place where the layers below
may throw is a disjunct, an exception unwinds the stack. `Signal` is a request of
the partner that `Run` receives, `FctReturns` the end of the function it called.
Names are sequences of characters, since `CreateConnectionName` compares and joins
them. `EntryFirst` is the order, open in C++11, in which `map[name] =
make_unique<Connection>(...)` makes the entry and the object: GCC makes the object
first, Clang the entry. Two things have no defined effect: a call that follows the null
pointer left in the map by a constructor that threw (`Dereference`), and a `Run` that
goes on after the function it called has disconnected, with a `Connection` that is
destroyed (`UseDestroyed`). The program ends there and is started again (`Crash`).

### `Info` and `Registration`

`Info` keeps the objects of the program on a `heap`, because `Info` stores shared
pointers and copies of an `Info` share them. `Set`, `SetInfo`, `Copy`, `Erase` and
`Clear` change the variables of the program; `Exchange` saves one and loads it with
the serializer's tables of the addresses already seen. `LoadMap` and `LoadPointer`
are recursive, so that nothing is proved about this module.

`Registration` is the first use of the serializer by several threads:
`RegisterTypesInSerializer` tests a pointer, locks a mutex, tests again, registers
one type after the other (`Register`) and sets the pointer (`Publish`). The pointer
is an ordinary variable in the code. The model takes its reads and writes for
atomic and ordered, as on x86 with a compiler that does not move the store; on
other machines the code has a data race that the model does not show.

### `ModelPart`

The `ModelPart` of an exporting and of an importing program: lists of node objects
(all, local, ghost, per partition) and of elements. The actions are the creation
of nodes, ghost nodes and elements, one or many at a time, in which everything
before the first bad entry stays (`Created`), `Clear`, and `ImportMesh`, which
loads into the `ModelPart` that is there and reuses its objects as the serializer
does. A single creation is a bulk creation of one.

### `DataCommunicator`

The collective operations of `MPIDataCommunicator` in the Debug build. `Calls` are the
operations with their arguments on all ranks, right and wrong ones: lengths that do not
match, roots that are no rank or differ, and for `Scatterv` and `Gatherv` arrays of counts
and offsets with any number of elements of any sign. What the root reads behind the end
of an array is an argument, too. `Program` gives for a call the MPI calls in their
order, whom each waits for, which ranks throw after it, and whether it fits: a call that
does not fit uses memory outside of a buffer or an array, or names different roots.
`Enter` and `Leave` are the two ends of an MPI call on a rank, `Undefined` is the entry to
one that does not fit. Release builds have no checks.

### `PartnerRanks` and `DataContainer`

`PartnerRanks` are the two functions with which importer and exporter compute
which ranks talk to each other; so far only tests call them. `DataContainer` is
`resize` of the memory of a C program, through a container that lives on
(`Receive`) and through the one `CoSimIO_ImportData` makes for each call
(`ImportData`).

## Runs

| Run | Instance | Shows |
|---|---|---|
| `crash` | 2 settings, 2 trace types, 3 executions, 2 sessions, primary first | all properties of the life cycle, its liveness and the inductive invariant, of which `TypeOK` is a part |
| `nofolder` | 3 sessions without a folder, 2 settings, 2 trace types; two exports in flight and an answer, both availability modes | the protocol removes each of its files by itself, the files implement `Mailbox`, nobody is left waiting (no deadlock); the inductive invariant `FileInv` of the proofs, from which `FileTypeOK`, `OnlyMismatchFails` and `ImportsMatchExports` follow |
| `scripts` | 2 executions started in any order, 2 sessions, both modes, 98 pairs of programs of up to 4 operations | what still holds when a leftover is consumed: an import returns the export of its place, connections are made by both partners of the same execution; unmatched programs do not leak messages into the next session |
| `pipe_chunks` | pipe of 4 bytes, chunks of 2, atomic up to 2; messages of 0, 3 and 4 bytes, and all 49 pairs of programs up to 2 operations; 2 sessions | messages arrive whole and in order, opening does not block or fail, coupled programs end, nothing of a session reaches the next one |
| `calls` | 2 partners and 2 refused names, 3 objects, `Run`s up to depth 2, called functions that call everything, `Disconnect` of their own connection included | connections do not disturb each other; `Run` calls only functions that were registered with its connection |
| `ranks` | sockets with 3 ranks, and with 2 ranks, synchronous `MPI_Send` and 21 pairs of programs; local socket with 1 rank; MPI with 2; different settings; 2 against 3 ranks | every rank meets its twin, imports come from it in order, nobody connects when rank 0 refuses, matching partners never throw and end |
| `info` | 2 Infos, 2 keys, 2 values, 4 objects | Infos are values; an import equals the export while no object is in it twice |
| `mesh` | 2 node ids and an invalid one, 2 partitions and an invalid one, up to 2 entities a call, 4 node objects | a creation that fails half-way leaves consistent lists; a mesh imported into an empty `ModelPart` is the one exported |
| `collectives` | 2 ranks, all operations, lengths up to 2, all roots; parts up to 1, counts and offsets from -1 to 1, arrays with 0 to 2 elements | but for the arguments in `Unchecked`, the checks stop each call that does not fit; no rank returns where another throws; nobody waits for ever |
| `local` | `MCLocal`: `Registration` with 2 threads and 3 types, `DataContainer` with up to 4 values, `PartnerRanks` with up to 4 ranks, side by side | nobody reads the tables while they change, every call ends; values fit, no memory is lost; importer and exporter agree |
| `echo`, `pipe_default` | | expected violations, see below |

The type invariants `FileTypeOK`, `PipeTypeOK`, `RanksTypeOK` and
`ConnectionTypeOK` are stated in the modules; they hold in the runs of these modules
when they are added to the .cfg as an INVARIANT.

Bounds. Two values of the settings are enough for equality and inequality. Two
sessions are needed for the second Connect to meet the files and the folder
removal of the first Disconnect, three executions for leftovers of an execution
that itself started from leftovers. In the file runs two identifiers separate
the directions; a third message under one identifier finds the box in every
state. `Crash` is not enabled in the last execution: a killed program trivially
stops, and the liveness property is about an execution that is not killed.

Three ranks let the ranks other than 0 overtake each other in every phase; two
suffice where only rank 0 differs from the others. One message in the socket's
buffer makes the second `Send` block. Three objects let a connection be made
again after its predecessor was destroyed; two nested `Run`s have an inner and an
outer one. Four objects of an `Info` are two values and an `Info` in another, with
one to overwrite. Two node ids are enough for a repeated and a new one, two
partitions for a node in the wrong one; four node objects are a mesh of two nodes
and its import. Two ranks of a collective call are a root and another one; parts
of length 0 and 1 at offsets -1, 0 and 1 begin before the buffer of the root, lie in it,
overlap, or end behind it, and an array lacks none, one or all of its elements. In
`local` two threads race for the mutex, a capacity of 1 is doubled and more than
doubled, and 3 ranks against 2 need a division with a rest; the proofs cover all
numbers there.

Fairness. `FairSpec` assumes weak fairness of each partner's next step and of
`Restart`: every program is scheduled, the polling loops of `WaitUntilPathExists`
and `WaitUntilFileIsRemoved` retry until they succeed, and the user restarts a
coupled program that died. No fairness is assumed of crashes. `FairRanksSpec`,
`FairDataCommunicatorSpec` and `FairRegistrationSpec` assume weak fairness of the
next step of each rank or thread: MPI and the operating system run every process.
A step that waits is enabled once its condition holds and stays so, except `Lock`:
a thread can lose the mutex to others, but only finitely often, because the tables
are registered once and nobody needs the mutex after that.

`CHECK_DEADLOCK FALSE` is set in `scripts`, where a partner whose signal was
consumed waits forever (docs/communication.md describes this), and in `scripts`,
`pipe_chunks` and `ranks`, where a program may import what its partner never
exports; that coupled programs end is a liveness property there (`PipeRunEnds`,
`MatchingRanksEnd`). In `ranks`, rank 0 of partners that disagree throws in the
handshake while the other ranks are in the broadcast, where they stay until the
program is killed; the property is that none of them connects. In `collectives`
the ranks stop when the call has ended.

The pipe runs need a pipe that is smaller than what is in flight (4 bytes
against 5 or more), messages of several chunks with a rest, and elements wider
than a byte; larger numbers repeat the same cases. The fairness there is weak
fairness of each partner's step, the kernel's part of a `write()` included.

### Findings

`pipe_default`: a short read is taken for a complete chunk. With the default
buffer, one byte smaller than the pipe, the kernel splits the write of a large
message while its size is still unread; the reader gets the first part, ignores
how much it was, and loses the rest. `pipe_chunks` shows that chunks which the
kernel writes atomically (`buffer_size` up to `PIPE_BUF`) are safe.

`echo`: the name of a data file does not contain the direction. A partner that
exports and then imports under the same identifier may find its own file before
the partner has read it; it receives its own data and the partner waits forever.
The API documentation says that `ImportData` receives data "from the connection
partner", and the tutorial programs use one identifier in both directions.

### What the passing runs leave out

Each of these is excluded by a constant of a run, or is a property that is stated
in a module and not listed in its run, because the code does not have it. The
change to the .cfg that makes TLC show the behaviour is given with it.

* A `buffer_size` smaller than an element gives empty chunks, and `Write` of a pipe
  loops forever (`BufferSize = 1` in `PipeCommunication_chunks.cfg`; `PipeRunEnds`).
* A Connect that throws leaves its `Connection` in the map, and the same Connect is
  refused as "already exists" until the program calls Disconnect for a connection
  it never had (`INVARIANT RefusedOnlyIfEstablished` in `Connection_calls.cfg`).
* With a compiler that makes the entry of the map first, a Connect whose
  constructor throws leaves a null pointer, which the next call follows
  (`INVARIANT NeverUndefined` there). The run goes on after it with a new program.
* Disconnect reports `Disconnected` for a connection that was never established,
  although the layer below has reported `DisconnectionError`
  (`PROPERTY DisconnectedTellsTheTruth` there).
* "a" with "b_c" and "a_b" with "c" have the same connection name; the second is
  refused with a message that is not true (`Component <- Colliding` there and
  `INVARIANT RefusedOnlyForSamePair`).
* A registered function that disconnects its own connection destroys the object
  whose `Run` is still being executed (`EntryFirst = {FALSE}` there, which leaves out the
  null pointer, and `INVARIANT NeverUndefined`). The run goes on after this, too: it shows
  what holds as long as the called function has not returned, and what a new connection
  under the same name has to do with the old one.
* With a local socket all ranks of the primary bind the same file; all but one
  throw, even on a single machine, where the warning in the code suggests that it
  works (`Instances <- LocalSocketMPI` in `Ranks.cfg`; `MatchingNeverThrows`).
* The serializer remembers the address of a local variable. An `Info` that contains
  an object twice, which happens by copying, is imported with an empty pointer
  (`NestsTwice = TRUE` in `Info_nested.cfg`; `ImportEqualsExport`).
* `ImportMesh` into a `ModelPart` that is not empty keeps partitions of the old mesh
  next to the nodes of the new one (`ImportsIntoUsed = TRUE` in `ModelPart.cfg`;
  `ListsAgree`, `ImportReproduces`).
* After an import of no value the next `CoSimIO_ImportData` takes the memory for not
  allocated and loses it (`WrapsEmpty = TRUE` in `Local.cfg`; `NothingLost`).
* Two collective operations that return vectors check their arguments on one rank
  alone, throw there, and leave the others waiting (`LocalErrors = TRUE` in
  `DataCommunicator_debug.cfg`; `EveryRankEnds`).
* The checks of the collective operations do not look at everything (`Unchecked`): ranks
  that name different valid roots, an array of counts or offsets with fewer elements than
  there are ranks, and an offset below 0 lead to MPI calls without a defined effect, to
  elements behind the end of the array and to memory before the buffer.
  mpi_data_communicator.hpp promises "a meaningful error explaining the inconsistency"
  (`INVARIANT ErrorsAreExplained` there).

## Proofs

`CommunicationProofs` proves, for every set of settings and trace types and
every number of executions and sessions:

* `TypeCorrect`: the type invariant;
* `Inductive`: the inductive invariant `IInv` of `CommunicationInv`;
* `OnlyMismatchFailsHolds`, `FreshPartnerInfoHolds`, `SameVerdictHolds`,
  `ConnectedTogetherHolds`, `NothingLeftOverHolds`: the safety properties;
* `Refinement`: `SynchronizeAll` implements `Rendezvous`.

All but the first assume `LeftoversRemoved`: either nothing is ever executed
twice, or there is a communication folder and the primary is started first after
a crash, which is the advice of docs/communication.md. The run `scripts` shows
what is left without it.

None of the properties is inductive: that `RemovePath` finds its file depends on
where the other partner is. `IInv` says for each file of the protocol at which
pairs of positions it exists (`SyncFiles`, `HandshakeFiles`), which pairs of
positions occur (`BarrierInv`, `SyncOrder`, `HandshakeOrder`), and what has been
read and decided (`Verdict`). An execution after a crash starts `Dirty`: until
the primary has cleaned the folder nothing is known about the files, but the
secondary has not started (`DirtyInv`). The proof has one lemma per group of
actions; each shows what the action does to the position of one partner and to
one file, and then reestablishes the parts of the invariant it touches. The last
RemoveFolder of a dirty phase establishes `CleanInv` from an empty folder.

`LocalProofs` covers the three small components.

For `PartnerRanks` it shows for all numbers of ranks that the relations computed by
importer and exporter are the same (`PartnersAgreeAlways`) and that every exporter
sends to an existing rank (`EveryExporterSendsAlways`). The work is in the lemmas
on the rounded-up division; the invariant `PartnerInv` only says that the results
are those of the present sizes.

For `DataContainer` it shows for imports of any size that the values fit into the
memory (`ValuesFitAlways`) and, assuming `~WrapsEmpty`, that no memory is lost
(`NothingLostAlways`). `ContainerInv` adds that the capacity is at most the length
of the block and that a capacity of 0 means that there is no memory, which is what
`resize` relies on.

For `Registration` it shows for any threads and number of types that a thread that
looks up types finds all of them in tables that nobody changes
(`LookupsAreSafeAlways`). `RegistrationInv` is needed for it: the owner of the
mutex is the one thread between lock and unlock (`MutexInv`), and the pointer is
set exactly when all types are registered (`TablesInv`).

`FileCommunicationProofs` adds the exchange of data, for scripts of any length and
any number of identifiers, in both modes of announcing a file:

* `FileInvariant`: the inductive invariant `FileInv` of `FileCommunicationInv`;
* `ImportsMatchExportsAlways`: the k-th import under an identifier returns what the
  k-th export under it sent in the same session, complete;
* `OnlyMismatchFailsWithData`, `NothingLeftOverWithData`, `LifeCycleWithData`,
  `RefinementWithData`: what was proved of the life cycle survives the exchange;
* `MailboxRefinement`: the files of an identifier implement `Mailbox`.

`ImportsMatchExports` speaks of what has been returned and not of the files, and is
not inductive. `FileInv` derives the files from two numbers: while both partners
are in the same session (`Live`), the finished exports under an identifier are as
many as the finished imports, or one more, and this together with the position of
both partners says which of the three files exist and what is in them (`BoxInv`).
`ProgressInv` and `IoInv` say where a partner is in its script. Outside of a session
there are no data files, or the folder with them is about to be removed. A step of
the exchange leaves `IInv` alone and one of the life cycle `BoxInv`, except where a
session begins and ends; these are lemmas of their own (`SessionBegins`,
`SessionEnds`). The refinement needs `AnnouncedInv`: whatever is announced is complete.
The theorems assume `LeftoversRemoved` as above; `OneWay`, that an identifier is used
in one direction, without which the run `echo` gives a counterexample; and
`UnreadRemoved`, that there is a communication folder or everything exported is also
imported, because nobody else removes a message.

`PipeProofs` covers scripts of any length and every size of buffer, pipe and element:

* `PipeInductive`: the inductive invariant `PipeInv`, and `PipeTypeCorrect` from it;
* `NoStaleBytesAlways`: whatever the programs call, an import returns no byte of an
  earlier session and none that the partner itself has written;
* `FlowInductive`: the inductive invariant `FlowInv` of programs that fit together;
* `PipeDeliversAlways`: the k-th import returns the bytes of the k-th export, complete;
* `PipeNeverFailsAlways`: nobody writes to a pipe that is not read any more, and no
  handshake fails for another reason than a mismatch.

The proof has two layers. `PipeInv` holds for all programs: it says when the two
fifos exist (`FifoInv`), where a partner can be in `ConnectDetail`, `Write`, `Read`
and `Close` (`PlaceInv`), and whose bytes a pipe can hold (`BytesInv`). It needs the
life cycle only through `IInv`, which is preserved because no step of the pipes
touches the files of the handshake. `FlowInv` adds, for programs that fit together,
that the bytes in a pipe are exactly those between the next byte of the reader and
the next byte of the writer (`StreamInv`); that the pipes are open as long as there
is something to be read or written (`OpenInv`); and where the boundaries of the
chunks are (`ChunkInv`, `ReadInv`). The lemma `WholeChunk` carries the delivery: when
a chunk is not larger than `PIPE_BUF`, a reader finds the next chunk whole, or
nothing of it, so that ignoring the result of `read()` is harmless. `WillBeRead` and
`WillBeWritten` show that the partner is still there: what the writer has left to
write the reader has left to read. The theorems assume `CommInFolder`, without which
fifos of an earlier session are found; the last two also `Buffer <= PipeBuf`. The
default `buffer_size` does not satisfy this, and the run `pipe_default` shows that
the data are then not delivered.

`ConnectionProofs` covers every set of names, functions and formats, any depth of
`Run`s inside of `Run`s and called functions that call anything: `CallsRegisteredAlways`,
and `HoldersAreServedAlways`, assuming `NamesDiffer`. The first needs that an object in the
map knows only functions that were registered with it (`ObjectsInv`, a part of
`ConnectionInv`), the second in addition that a holder's object was made for it. Names can
collide, see above; `OneProgramNamesDiffer` gives a condition under which they do not: a
program with one name of its own, and no underscore in it or in the names of its partners.

`RanksProofs` covers every number of ranks, all programs and every size of the socket's
buffer:

* `RankInvariant`: the inductive invariant `RankInv`, which includes `RanksTypeOK`;
* `NoHalfConnectionAlways`: partners that do not match do not connect on any rank;
* `RanksMeetAlways`, `ImportsFromTwinAlways`: who meets whom, and what is imported;
* `MatchingNeverThrowsAlways`: partners that match, with programs that fit together,
  never throw on any rank.

The position of a rank is the list `todo` of the steps it still has to do, of unknown
length. The invariant never says what the list is, only which steps are not in it
(`Without`), do not come before a gate (`Guarded`) or do not come after another step
(`NotAfter`): all three are true of the lists `Connect`, the program and `Disconnect`
make, and stay true when the first step is taken off. A step before a gate cannot be
taken by a rank that has not passed it (`GateInv`), so that a rank that sends has a
peer and a rank that broadcasts has found the partner compatible. `HandShakeInv` says
that the ranks 0 tell the truth, `PortsInv` that the ports of the primary differ and
that every copy of the list of ports, in the infos, the offer, the broadcast and the
information of a rank, has them in the order of the ranks (`Known`). `MeetInv` and
`StreamInv` are on top of it: what waits to be accepted belongs to the twin, and the
numbers of the received, the unread and the sent messages fit together, unless the
sender has closed its socket. What a step does is split by the fields of a rank once
(`StepEffects`); the parts of the invariant use only these effects.

`MatchingNeverThrowsAlways` needs to know how far the two partners are, for which the
positions of steps are counted (`Rest`, `Count`) and not only compared. `FitInv` has four
parts. `FlowInv`: a rank has sent and still has to send what its program says, the same for
what it receives, and what its twin has sent is what it has received or not read yet;
as a rank receives as much as its twin sends (`CoupledAssumption`), nothing is on the way to
a rank that closes its socket, and nobody needs a socket that is closed. `KnockInv`:
each rank connects once, so that its twin has not closed the acceptor when it does.
`PortsKnown`: rank 0 offers the list of ports when it has all of them, and a rank of the
secondary has the list before it looks up its port, and the port before it connects.
`BindInv` and `WaitInv`: the primary binds its local socket after it has entered two
synchronisations and before it enters the third, and the secondary connects after it has
left the third (`Numbered`, `Waits`). With this invariant none of the steps throws
(`JudgeFits`, `LookUpFits`, `BindFits`, `ServerListens`, `SendFits`, `ReceiveFits`), and each
has the effect its function promises (`SmoothStep`), which keeps the invariant.

`RanksMeetAlways`, `ImportsFromTwinAlways` and `MatchingNeverThrowsAlways` assume
`OneLocalRank`: partners with a local socket have one rank each. With more, every rank of
the secondary meets the one rank that has bound the file, see above.
`CoupledAssumption` in `Ranks` says only that the numbers of messages agree; in which order
a program sends and receives does not matter for not throwing, it does for ending
(`MatchingRanksEnd`).

`DataCommunicatorProofs` covers every number of ranks and all arguments:
`BuffersFitAlways`, that no rank is in a call that does not fit unless its arguments are
among the `Unchecked`, and `SameOutcomeAlways`, assuming `~LocalErrors`, that no rank returns
where another one throws. The argument is about the programs of the operations (`Safe`):
each check stops all ranks or none, whatever the arguments are; and when the arguments
are not `Unchecked`, each call fits that comes after checks that were passed. For
`IsEqualOnAllRanks`, which compares the smallest and the largest value, this is a fact
about finite sets of numbers; for the arrays that the operations make for themselves it
needs that the distances are natural numbers, for which a sum over all ranks is shown to
exist (`DistancesExist`). `ReachedInv` says that a rank has passed the checks behind it.

`ModelPartProofs` covers calls and meshes of any size, with any ids and partitions:

* `MeshInductive`: the inductive invariant `MeshInv`;
* `ListsAgreeAlways`: the lists of a `ModelPart` agree, also after a creation that was
  refused half-way;
* `ImportReproducesAlways`: `ImportMesh` shows the importer the exported mesh.

`MeshInv` says that the nodes of a `ModelPart` are objects that exist and have different
ids (`NodesOK`), that the two halves (`HalvesOK`), the partitions (`PartitionOK`) and the
elements (`ElementsOK`) belong together, and that all lists have their types. A creation
adds only fresh objects, because it stops at the first id that is in use. An import
into an empty `ModelPart` maps the nodes one to one to new objects with the same ids
(`MapOK`); such a copy keeps the invariant and what a program sees of the mesh. The
theorems assume `~ImportsIntoUsed`: an import into a `ModelPart` that is not empty makes
the lists disagree, see above.

Only model-checked:

* liveness (`LastRunEnds`, `PipeRunEnds`, `MatchingRanksEnd`, `EveryCallEnds`,
  `EveryRankEnds`), which is out of the prover's reach;
* `Info`, whose operators are recursive: what these compute for every input needs an
  induction over the data;
* what is left when the primary is not started first after a crash (`scripts`): the
  theorems about files assume `LeftoversRemoved`.

## Plan

1. The bytes of a socket: the size before each message, and the partner that dies
   between the two.
2. Crashes of single ranks in `Ranks`.

## Not modelled

The stream formats of the serializers, the encoding of the port numbers, the
choice of the network address, timing and echo output, VTK output and printing
keep no state that a protocol depends on. The language wrappers forward each call;
the one that passes memory back is in `DataContainer`. `SendRecv` is one MPI call
and the serial `DataCommunicator` only copies. Release builds of
`MPIDataCommunicator` make the same MPI calls without the checks.

`external_libraries` (asio, ghc filesystem, intrusive_ptr, pybind11 and doctest) is
most of the C++ code of the repository. It is vendored and not CoSimIO's own
logic; where the models need it, sockets, file system and shared pointers are
modelled from how CoSimIO uses them.
