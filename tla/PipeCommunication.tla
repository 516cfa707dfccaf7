-------------------------- MODULE PipeCommunication --------------------------
(***************************************************************************)
(* Data exchange through a pair of named pipes (pipe_communication.cpp),   *)
(* on top of the connection life cycle of module Communication.            *)
(*                                                                         *)
(* After the handshake the primary creates the two pipes in the folder,    *)
(* and both partners open them; opening one end blocks until the other end *)
(* is opened.  A message is a header with its size and then its elements,  *)
(* written and read in chunks.  An element has a width: the bytes that one *)
(* call of write() or read() can tear apart.                               *)
(*                                                                         *)
(* The kernel (external) keeps at most Capacity bytes in a pipe.  A write  *)
(* of up to PipeBuf bytes is atomic; a longer one may be split anywhere.   *)
(* A read returns what is there, perhaps less than was asked for.          *)
(***************************************************************************)
EXTENDS Communication, Sequences, FiniteSetsExt

CONSTANTS
    BufferSize, \* the setting buffer_size
    Capacity,   \* size of a pipe, after the attempts to resize it
    PipeBuf,    \* PIPE_BUF: writes up to this size are atomic
    PipeScripts,\* pairs of programs: what each partner does while connected
    Coupled,    \* the pairs that fit together: what one exports the other imports
    MaxSize     \* bound: elements of a message

PipeOperation ==
    [op : {"export", "import"}, size : 0..MaxSize, width : Nat \ {0}]

Fifo == [fifo |-> TRUE]

\* How many of the first n operations of a program are exports, or imports.
Nth(ops, op, n) == Cardinality({j \in 1..Len(ops) : ops[j].op = op /\ j <= n})

\* The programs fit together: each imports as often as the other one exports, and
\* elements of the same width.
FitTogether(s) ==
    \A p \in Partner :
        LET a == s[p]
            b == s[Other(p)]
        IN  /\ Nth(a, "import", Len(a)) = Nth(b, "export", Len(b))
            /\ \A n \in 1..Len(a), m \in 1..Len(b) :
                  /\ a[n].op = "import" /\ b[m].op = "export"
                  /\ Nth(a, "import", n) = Nth(b, "export", m)
                  => a[n].width = b[m].width

ASSUME PipeAssumption ==
    /\ BufferSize \in Nat /\ Capacity \in Nat \ {0} /\ PipeBuf \in Nat
    /\ MaxSize \in Nat
    /\ PipeScripts \subseteq [Partner -> Seq(PipeOperation)]
    /\ Coupled \subseteq {s \in PipeScripts : FitTogether(s)}
    /\ DataFile = Partner \X {"fifo"}
    /\ DataContent = {Fifo}

VARIABLES
    script,   \* the operations a partner performs while it is connected
    done,     \* number of operations of the script a partner has finished
    step,     \* where a partner is in ConnectDetail, Write, Read or Close
    pipe,     \* the bytes in the pipe a partner writes to
    size,     \* size of the message in progress, in elements
    moved,    \* written_size or read_size
    call,     \* bytes the write() in progress still has to put into the pipe
    received  \* the messages a partner has read, the last one perhaps in part

pipeVars == <<script, done, step, pipe, size, moved, call, received>>
allVars  == <<vars, pipeVars>>

FirstStep(p) == IF p = "primary" THEN "mkfifo_write" ELSE "wait_fifo"

PipeStep == {"mkfifo_write", "mkfifo_read", "wait_fifo", "open_write",
             "open_read", "ready", "write", "read", "half_closed"}

\* The byte a read() did not fill in.
Garbage == [from |-> "nobody", session |-> 0, no |-> 0, index |-> 0]

Byte == [from : Partner \cup {"nobody"}, session : Nat, no : Nat, index : Nat]

\* The first byte of a message, index 0, carries the size.
Header(p) == [from |-> p, session |-> session[p], no |-> done[p] + 1, index |-> 0]

\* Every variable has its type, and a pipe never holds more than its capacity.
PipeTypeOK ==
    /\ TypeOK
    /\ script \in PipeScripts
    /\ done \in [Partner -> Nat]
    /\ step \in [Partner -> PipeStep]
    /\ pipe \in [Partner -> Seq(Byte)]
    /\ \A p \in Partner : Len(pipe[p]) <= Capacity
    /\ size \in [Partner -> 0..MaxSize]
    /\ moved \in [Partner -> 0..MaxSize]
    /\ call \in [Partner -> Nat]
    /\ received \in [Partner -> Seq(Seq(Byte))]

-----------------------------------------------------------------------------

FifoOf(p) == <<p, "fifo">>

PipeAt(p, s) == At(p, "connected") /\ step[p] = s

Current(p) == script[p][done[p] + 1]

Pending(p, op) == done[p] < Len(script[p]) /\ Current(p).op = op

\* Mutant: one byte less than the setting, too.
BufferMinusOne == IF BufferSize >= Capacity THEN Capacity - 1 ELSE BufferSize - 1

\* mBufferSize: "crashes if same size or larger!"
Buffer == IF BufferSize >= Capacity THEN Capacity - 1 ELSE BufferSize

\* Mutant: the buffer size is taken for a number of elements.
ChunkOfElements(p) == Min({Buffer, size[p] - moved[p]})

\* Elements of the next write() or read().
Chunk(p) == Min({Buffer \div Current(p).width, size[p] - moved[p]})

\* Has q opened, or is it opening, its writing (reading) end, and not closed it?
Alive(q) == status[q] # "crashed" /\ pc[q] = "connected"
HasWriter(q) ==
    Alive(q) /\ step[q] \in IF q = "primary"
                            THEN {"open_write", "open_read", "ready", "write", "read"}
                            ELSE {"open_write", "ready", "write", "read"}
HasReader(q) ==
    Alive(q) /\ step[q] \in IF q = "primary"
                            THEN {"open_read", "ready", "write", "read", "half_closed"}
                            ELSE {"open_read", "open_write", "ready", "write", "read",
                                  "half_closed"}

PipeGoto(p, s) == step' = [step EXCEPT ![p] = s]

PipeThrow(p) == status' = [status EXCEPT ![p] = "failed"] /\ UNCHANGED step

\* The signal SIGPIPE ends a program that writes to a pipe nobody reads.
PipeKilled(p) == status' = [status EXCEPT ![p] = "crashed"]

-----------------------------------------------------------------------------
(* ConnectDetail(): the constructor of BidirectionalPipe.                   *)

\* Mutant: the bytes of the last session stay in the pipe.
MkFifoReuse(p) ==
    /\ PipeAt(p, "mkfifo_write") \/ PipeAt(p, "mkfifo_read")
    /\ LET own == step[p] = "mkfifo_write"
           q   == IF own THEN p ELSE Other(p)
       IN  /\ dir' = [dir EXCEPT ![FifoOf(q)] = Fifo]
           /\ PipeGoto(p, IF own THEN "mkfifo_read" ELSE "open_write")
    /\ UNCHANGED <<status, pipe, done, size, moved, call, received>>

\* A new pipe is empty; mkfifo() fails when there is one already.
MkFifo(p) ==
    /\ PipeAt(p, "mkfifo_write") \/ PipeAt(p, "mkfifo_read")
    /\ LET own == step[p] = "mkfifo_write"
           q   == IF own THEN p ELSE Other(p)
       IN  IF Exists(FifoOf(q))
           THEN PipeThrow(p) /\ UNCHANGED <<dir, pipe>>
           ELSE /\ dir' = [dir EXCEPT ![FifoOf(q)] = Fifo]
                /\ pipe' = [pipe EXCEPT ![q] = <<>>]
                /\ PipeGoto(p, IF own THEN "mkfifo_read" ELSE "open_write")
                /\ UNCHANGED status
    /\ UNCHANGED <<done, size, moved, call, received>>

\* Mutant: the secondary does not wait for the pipes.
WaitNothing(p) ==
    /\ PipeAt(p, "wait_fifo")
    /\ PipeGoto(p, "open_read")
    /\ UNCHANGED <<status, dir, done, pipe, size, moved, call, received>>

\* The pipe the secondary writes to is created last.
WaitFifo(p) ==
    /\ PipeAt(p, "wait_fifo")
    /\ Exists(FifoOf(p))
    /\ PipeGoto(p, "open_read")
    /\ UNCHANGED <<status, dir, done, pipe, size, moved, call, received>>

\* open() blocks until the other end is opened; without the pipe it fails.
OpenEnd(p, fifo, other, next) ==
    /\ IF Exists(fifo)
       THEN other /\ PipeGoto(p, next) /\ UNCHANGED status
       ELSE PipeThrow(p)
    /\ UNCHANGED <<dir, done, pipe, size, moved, call, received>>

OpenWrite(p) ==
    /\ PipeAt(p, "open_write")
    /\ OpenEnd(p, FifoOf(p), HasReader(Other(p)),
               IF p = "primary" THEN "open_read" ELSE "ready")

OpenRead(p) ==
    /\ PipeAt(p, "open_read")
    /\ OpenEnd(p, FifoOf(Other(p)), HasWriter(Other(p)),
               IF p = "primary" THEN "ready" ELSE "open_write")

-----------------------------------------------------------------------------
(* BidirectionalPipe::Write(). *)

SendSize(p) ==
    /\ PipeAt(p, "ready")
    /\ Pending(p, "export")
    /\ IF HasReader(Other(p))
       THEN /\ Len(pipe[p]) < Capacity
            /\ pipe' = [pipe EXCEPT ![p] = Append(@, Header(p))]
            /\ UNCHANGED status
       ELSE PipeKilled(p) /\ UNCHANGED pipe
    /\ size' = [size EXCEPT ![p] = Current(p).size]
    /\ moved' = [moved EXCEPT ![p] = 0]
    /\ PipeGoto(p, "write")
    /\ UNCHANGED <<dir, done, call, received>>

\* The loop of Write: call write() for the next chunk.
WriteChunk(p) ==
    /\ PipeAt(p, "write")
    /\ call[p] = 0
    /\ moved[p] < size[p]
    /\ call' = [call EXCEPT ![p] = Chunk(p) * Current(p).width]
    /\ UNCHANGED <<status, dir, done, step, pipe, size, moved, received>>

\* The kernel takes n bytes of the write() in progress, or all that are left.
KernelWrite(p) ==
    LET total == Chunk(p) * Current(p).width
        first == moved[p] * Current(p).width + total - call[p]
        bytes(n) == [i \in 1..n |-> [Header(p) EXCEPT !.index = first + i]]
        space == Capacity - Len(pipe[p])
    IN  /\ PipeAt(p, "write")
        /\ call[p] > 0
        /\ IF HasReader(Other(p))
           THEN \E n \in 1..Min({space, call[p]}) :
                /\ total <= PipeBuf => n = total
                /\ pipe' = [pipe EXCEPT ![p] = @ \o bytes(n)]
                /\ call' = [call EXCEPT ![p] = @ - n]
                /\ moved' = [moved EXCEPT ![p] =
                                 IF n = call[p] THEN @ + Chunk(p) ELSE @]
                /\ UNCHANGED status
           ELSE PipeKilled(p) /\ UNCHANGED <<pipe, call, moved>>
        /\ UNCHANGED <<dir, done, step, size, received>>

WriteDone(p) ==
    /\ PipeAt(p, "write")
    /\ call[p] = 0
    /\ moved[p] >= size[p]
    /\ done' = [done EXCEPT ![p] = @ + 1]
    /\ received' = [received EXCEPT ![p] = Append(@, <<>>)]
    /\ PipeGoto(p, "ready")
    /\ UNCHANGED <<status, dir, pipe, size, moved, call>>

-----------------------------------------------------------------------------
(* BidirectionalPipe::Read().  The number of bytes a read() returns is only *)
(* compared with 0: at the end of the pipe, or when less is there, the rest *)
(* of the memory stays as it is.                                            *)

Readable(p) == Len(pipe[Other(p)]) > 0 \/ ~HasWriter(Other(p))

\* What the first byte says about the size: the truth if it is a header.
SizesRead(p) ==
    LET q == Other(p)
    IN  IF Len(pipe[q]) > 0 /\ Head(pipe[q]).index = 0
        THEN {script[q][Head(pipe[q]).no].size}
        ELSE 0..MaxSize

ReceiveSize(p) ==
    /\ PipeAt(p, "ready")
    /\ Pending(p, "import")
    /\ Readable(p)
    /\ \E n \in SizesRead(p) : size' = [size EXCEPT ![p] = n]
    /\ pipe' = [pipe EXCEPT ![Other(p)] = SubSeq(@, 2, Len(@))]
    /\ moved' = [moved EXCEPT ![p] = 0]
    /\ received' = [received EXCEPT ![p] = Append(@, <<>>)]
    /\ PipeGoto(p, "read")
    /\ UNCHANGED <<status, dir, done, call>>

ReadChunk(p) ==
    LET q    == Other(p)
        want == Chunk(p) * Current(p).width
        n    == Min({want, Len(pipe[q])})
        got  == SubSeq(pipe[q], 1, n) \o [i \in 1..(want - n) |-> Garbage]
    IN  /\ PipeAt(p, "read")
        /\ moved[p] < size[p]
        /\ Readable(p) \/ want = 0
        /\ pipe' = [pipe EXCEPT ![q] = SubSeq(@, n + 1, Len(@))]
        /\ received' = [received EXCEPT ![p][Len(received[p])] = @ \o got]
        /\ moved' = [moved EXCEPT ![p] = @ + Chunk(p)]
        /\ UNCHANGED <<status, dir, done, step, size, call>>

ReadDone(p) ==
    /\ PipeAt(p, "read")
    /\ moved[p] >= size[p]
    /\ done' = [done EXCEPT ![p] = @ + 1]
    /\ PipeGoto(p, "ready")
    /\ UNCHANGED <<status, dir, pipe, size, moved, call, received>>

-----------------------------------------------------------------------------

\* Close(): first the writing end; the reading end just before Disconnect goes on.
CloseWrite(p) ==
    /\ PipeAt(p, "ready")
    /\ done[p] = Len(script[p])
    /\ PipeGoto(p, "half_closed")
    /\ UNCHANGED <<status, dir, done, pipe, size, moved, call, received>>

Transfer(p) ==
    /\ \/ MkFifo(p) \/ WaitFifo(p) \/ OpenWrite(p) \/ OpenRead(p)
       \/ SendSize(p) \/ WriteChunk(p) \/ KernelWrite(p) \/ WriteDone(p)
       \/ ReceiveSize(p) \/ ReadChunk(p) \/ ReadDone(p)
       \/ CloseWrite(p)
    /\ UNCHANGED <<memory, pc, tag, folder, listing, script>>

PipeDisconnect(p) ==
    /\ PipeAt(p, "half_closed")
    /\ Disconnect(p)
    /\ PipeGoto(p, FirstStep(p))
    /\ UNCHANGED <<script, done, pipe, size, moved, call, received>>

PipeConnect(p) ==
    /\ Connect(p)
    /\ done' = [done EXCEPT ![p] = 0]
    /\ received' = [received EXCEPT ![p] = <<>>]
    /\ UNCHANGED <<script, step, pipe, size, moved, call>>

PipeInit ==
    /\ Init
    /\ script \in PipeScripts
    /\ done = [p \in Partner |-> 0]
    /\ step = [p \in Partner |-> FirstStep(p)]
    /\ pipe = [p \in Partner |-> <<>>]
    /\ size = [p \in Partner |-> 0]
    /\ moved = [p \in Partner |-> 0]
    /\ call = [p \in Partner |-> 0]
    /\ received = [p \in Partner |-> <<>>]

PipeOp(p) ==
    \/ Transfer(p) \/ PipeConnect(p) \/ PipeDisconnect(p)
    \/ Protocol(p) /\ UNCHANGED pipeVars

\* The programs are not killed: a partner that dies is noticed by nobody.
PipeNext ==
    \/ \E p \in Partner : PipeOp(p)
    \/ Terminated /\ UNCHANGED pipeVars

PipeSpec ==
    /\ PipeInit
    /\ [][PipeNext]_allVars
    /\ \A p \in Partner : WF_allVars(PipeOp(p))

-----------------------------------------------------------------------------

\* The positions of the exports of a script.
Exports(p) == {n \in 1..Len(script[p]) : script[p][n].op = "export"}

\* The bytes of the n-th export of p in session s, as they should arrive.
Sent(p, n, s) ==
    [i \in 1..(script[p][n].size * script[p][n].width) |->
        [from |-> p, session |-> s, no |-> n, index |-> i]]

\* Read() returns the message that Write() was given, however it was cut into
\* chunks: the k-th finished import equals the partner's k-th export, in programs
\* that fit together.
PipeDelivers ==
    script \in Coupled => \A p \in Partner : \A n \in 1..Len(received[p]) :
        n <= done[p] /\ script[p][n].op = "import" =>
            \E m \in Exports(Other(p)) :
                /\ Nth(script[Other(p)], "export", m) = Nth(script[p], "import", n)
                /\ received[p][n] = Sent(Other(p), m, session[p])

\* Creating and opening the pipes never fails, whoever is faster, and nobody closes
\* a pipe that the other still writes to, in programs that fit together: only the
\* handshake can throw, and no program is ended by SIGPIPE.
PipeNeverFails ==
    script \in Coupled =>
        OnlyMismatchFails /\ \A p \in Partner : status[p] # "crashed"

\* Programs that do not fit together may receive too little, but never bytes of
\* an earlier session or their own: Disconnect throws away what was not read.
NoStaleBytes ==
    \A p \in Partner : \A n \in 1..Len(received[p]) :
        \A i \in 1..Len(received[p][n]) :
            LET b == received[p][n][i]
            IN  b = Garbage \/ (b.from = Other(p) /\ b.session = session[p])

\* Every Write and Read comes to its end, and so do both programs, if they fit
\* together.
PipeRunEnds ==
    script \in Coupled =>
        <>(\A p \in Partner : pc[p] = "idle" /\ session[p] = MaxSession)
=============================================================================
