----------------------------- MODULE PipeProofs -----------------------------
(***************************************************************************)
(* The theorems about the exchange of data through pipes: that a session   *)
(* never meets the bytes of another one, that programs that fit together   *)
(* receive what was sent, and that none of their calls fails.              *)
(*                                                                         *)
(* The invariant has two layers.  PipeInv holds for all programs: when the *)
(* pipes exist and whose bytes are in them.  FlowInv is about programs     *)
(* that fit together: the bytes in a pipe are the ones between the next    *)
(* byte its reader expects and the next byte its writer will put there.    *)
(***************************************************************************)
EXTENDS PipeCommunication, CommunicationProofs, FiniteSetTheorems,
        SequenceTheorems

-----------------------------------------------------------------------------
(* The first layer: the life of the pipes.                                  *)

Creation == {"mkfifo_write", "mkfifo_read"}

\* The steps of the exchange: both ends are open.
Exchanging == {"ready", "write", "read", "half_closed"}

\* The primary may still have to create a pipe, or both exist.
Creating == tag["primary"] = "handshake" /\ step["primary"] \in Creation
Made ==
    \/ tag["primary"] = "handshake" /\ step["primary"] \notin Creation
    \/ Disconnecting("primary")

\* Both partners are in the session for which the pipes were made.
Live == Made /\ session["primary"] = session["secondary"]

\* The pipes are made after the handshake and removed after both partners have
\* left the exchange.
FifoInv ==
    /\ Creating =>
          /\ ~Exists(FifoOf("secondary"))
          /\ step["secondary"] = "wait_fifo"
          /\ ~Disconnecting("secondary")
          /\ step["primary"] = "mkfifo_write" => ~Exists(FifoOf("primary"))
          /\ step["primary"] = "mkfifo_read" =>
                Exists(FifoOf("primary")) /\ pipe["primary"] = <<>>
    /\ Made => \A p \in Partner : Exists(FifoOf(p))

\* Where a partner is in its program.
PlaceInv(p) ==
    /\ step[p] \in (IF p = "primary" THEN PipeStep \ {"wait_fifo"}
                    ELSE PipeStep \ Creation)
    /\ pc[p] # "connected" => step[p] = FirstStep(p)
    /\ done[p] <= Len(script[p])
    /\ step[p] \notin Exchanging /\ tag[p] # "disconn" => done[p] = 0
    /\ step[p] = "half_closed" \/ Disconnecting(p) => done[p] = Len(script[p])
    /\ Len(received[p]) = IF step[p] = "read" THEN done[p] + 1 ELSE done[p]
    /\ step[p] = "write" => Pending(p, "export") /\ size[p] = Current(p).size
    /\ step[p] = "read" => Pending(p, "import")
    /\ moved[p] <= size[p]
    /\ call[p] # 0 =>
          /\ step[p] = "write" /\ moved[p] < size[p]
          /\ call[p] <= Chunk(p) * Current(p).width

\* The elements of the n-th message of a program, in bytes.
Bytes(ops, n) == ops[n].size * ops[n].width
Total(p, n) == Bytes(script[p], n)

\* What is in the pipes was written in this session, by the right partner.
BytesInv ==
    Live => \A q \in Partner : \A i \in 1..Len(pipe[q]) :
        LET b == pipe[q][i]
        IN  /\ b.from = q /\ b.session = session[q]
            /\ b.no \in Exports(q) /\ b.index <= Total(q, b.no)

PipeInv ==
    /\ IInv /\ run = 1
    /\ PipeTypeOK
    /\ FifoInv
    /\ \A p \in Partner : PlaceInv(p)
    /\ BytesInv
    /\ NoStaleBytes

-----------------------------------------------------------------------------
(* The second layer: the bytes in flight.                                   *)

\* The place in the stream of messages at which partner p is with its exports
\* (op = "export", s = "write") or imports (op = "import", s = "read"): the number
\* of a message and the index of the byte that comes next.
NextMessage(p, op, s) ==
    Nth(script[p], op, done[p]) +
        (IF step[p] = s /\ moved[p] = size[p] THEN 2 ELSE 1)
NextIndex(p, s) ==
    IF step[p] = s /\ moved[p] < size[p]
    THEN moved[p] * Current(p).width + 1 ELSE 0

(***************************************************************************)
(* B holds consecutive bytes of the exports of the program ops, from byte  *)
(* ri of message number rm, which its reader expects, to the one before    *)
(* byte wi of message wm, which comes next.                                *)
(***************************************************************************)
Number(ops, b) == Nth(ops, "export", b.no)

After(ops, b, m, i) ==
    IF b.index < Bytes(ops, b.no)
    THEN m = Number(ops, b) /\ i = b.index + 1
    ELSE m = Number(ops, b) + 1 /\ i = 0

Stream(ops, B, rm, ri, wm, wi) ==
    /\ B = <<>> => rm = wm /\ ri = wi
    /\ B # <<>> => /\ Number(ops, B[1]) = rm /\ B[1].index = ri
                  /\ After(ops, B[Len(B)], wm, wi)
    /\ \A h, i \in 1..Len(B) :
          h <= i /\ B[h].index + (i - h) <= Bytes(ops, B[h].no) =>
              B[i].no = B[h].no /\ B[i].index = B[h].index + (i - h)
    /\ \A i \in 1..(Len(B) - 1) :
          B[i].index >= Bytes(ops, B[i].no) =>
              B[i + 1].index = 0 /\ Number(ops, B[i + 1]) = Number(ops, B[i]) + 1

StreamInv(q) ==
    Stream(script[q], pipe[q],
           NextMessage(Other(q), "import", "read"), NextIndex(Other(q), "read"),
           NextMessage(q, "export", "write"), NextIndex(q, "write"))

\* A partner that exchanges data has a partner that has opened its ends, and
\* closes them when its program is done.
Opened(p) == step[p] \in
    IF p = "primary" THEN Exchanging \cup {"open_read"} ELSE Exchanging \cup {"open_write"}

OpenInv(p) ==
    step[p] \in Exchanging => Opened(Other(p)) \/ Disconnecting(Other(p))

\* Messages move in chunks that write() does not split.
ChunkInv(p) ==
    /\ step[p] \in {"write", "read"} =>
          \/ moved[p] = size[p]
          \/ \E k \in 0..moved[p] : moved[p] = k * (Buffer \div Current(p).width)
    /\ call[p] # 0 => call[p] = Chunk(p) * Current(p).width

\* The first k bytes of the elements of message n of partner q in session s.
Elements(q, n, s, k) ==
    [i \in 1..k |-> [from |-> q, session |-> s, no |-> n, index |-> i]]

\* What has been read of the message of the current import.
ReadInv(p) ==
    step[p] = "read" => \E m \in Exports(Other(p)) :
        /\ Nth(script[Other(p)], "export", m) = Nth(script[p], "import", done[p] + 1)
        /\ size[p] = script[Other(p)][m].size
        /\ received[p][done[p] + 1] =
              Elements(Other(p), m, session[p], moved[p] * Current(p).width)

\* What has been read of the earlier imports: property PipeDelivers.
Delivers(p) ==
    \A n \in 1..Len(received[p]) :
        n <= done[p] /\ script[p][n].op = "import" =>
            \E m \in Exports(Other(p)) :
                /\ Nth(script[Other(p)], "export", m) = Nth(script[p], "import", n)
                /\ received[p][n] = Elements(Other(p), m, session[p], Total(Other(p), m))

FlowInv ==
    script \in Coupled =>
        /\ \A p \in Partner :
              /\ status[p] # "crashed"
              /\ OpenInv(p) /\ ChunkInv(p) /\ ReadInv(p) /\ Delivers(p)
        /\ Live => \A q \in Partner : StreamInv(q)

-----------------------------------------------------------------------------
(* Lemmas about numbers and sequences.                                      *)

\* The smaller one of two numbers.
LEMMA MinOfTwo ==
    ASSUME NEW a \in Int, NEW b \in Int
    PROVE  /\ Min({a, b}) \in {a, b}
           /\ Min({a, b}) <= a /\ Min({a, b}) <= b
<1>1. \E x \in {a, b} : \A y \in {a, b} : x <= y
  OBVIOUS
<1>2. QED
  BY <1>1 DEF Min

\* The buffer holds whole elements.
LEMMA WholeElements ==
    ASSUME NEW b \in Nat, NEW w \in Nat \ {0}
    PROVE  b \div w \in Nat /\ (b \div w) * w <= b
OBVIOUS

\* Products of natural numbers.
LEMMA Product ==
    ASSUME NEW a \in Nat, NEW b \in Nat, NEW w \in Nat
    PROVE  /\ a * w \in Nat /\ (a + b) * w = a * w + b * w
           /\ a <= b => a * w <= b * w
           /\ w > 0 => a <= a * w
           /\ w > 0 /\ a < b => a * w < b * w
<1>1. a * w \in Nat /\ b * w \in Nat /\ (a + b) * w = a * w + b * w
  OBVIOUS
<1>2. ASSUME a <= b PROVE a * w <= b * w
  <2>1. b - a \in Nat /\ b = a + (b - a)
    BY <1>2
  <2>2. (b - a) * w \in Nat /\ b * w = a * w + (b - a) * w
    BY <2>1
  <2>3. QED
    BY <1>1, <2>2
<1>3. ASSUME w > 0 PROVE a <= a * w
  <2>1. w - 1 \in Nat
    BY <1>3
  <2>2. a * (w - 1) \in Nat /\ a * w = a + a * (w - 1)
    BY <2>1
  <2>3. QED
    BY <2>2
<1>4. ASSUME w > 0, a < b PROVE a * w < b * w
  <2>1. b - a - 1 \in Nat
    BY <1>4
  <2>2. (b - a - 1) * w \in Nat /\ b * w = a * w + (b - a - 1) * w + w
    BY <2>1
  <2>3. QED
    BY <1>1, <1>4, <2>2
<1>5. QED
  BY <1>1, <1>2, <1>3, <1>4

\* What is left of a sequence when its first n elements are taken away.
LEMMA Rest ==
    ASSUME NEW S, NEW s \in Seq(S), NEW n \in 0..Len(s)
    PROVE  /\ SubSeq(s, n + 1, Len(s)) \in Seq(S)
           /\ Len(SubSeq(s, n + 1, Len(s))) = Len(s) - n
           /\ \A i \in 1..(Len(s) - n) : SubSeq(s, n + 1, Len(s))[i] = s[i + n]
<1>1. Len(s) \in Nat /\ n + 1 \in Int /\ \A i \in (n + 1)..Len(s) : s[i] \in S
  OBVIOUS
<1>2. QED
  BY <1>1, SubSeqProperties

\* The first n elements of a sequence.
LEMMA Front ==
    ASSUME NEW S, NEW s \in Seq(S), NEW n \in 0..Len(s)
    PROVE  /\ SubSeq(s, 1, n) \in Seq(S) /\ Len(SubSeq(s, 1, n)) = n
           /\ \A i \in 1..n : SubSeq(s, 1, n)[i] = s[i]
<1>1. Len(s) \in Nat /\ 1 \in Int /\ \A i \in 1..n : s[i] \in S
  OBVIOUS
<1>2. QED
  BY <1>1, SubSeqProperties

\* The operations of a program.
LEMMA ScriptFacts ==
    ASSUME PipeTypeOK, NEW p \in Partner
    PROVE  /\ script[p] \in Seq(PipeOperation) /\ Len(script[p]) \in Nat
           /\ done[p] \in Nat
           /\ \A n \in 1..Len(script[p]) :
                 /\ script[p][n].op \in {"export", "import"}
                 /\ script[p][n].size \in 0..MaxSize
                 /\ script[p][n].width \in Nat \ {0}
                 /\ Total(p, n) \in Nat
<1>1. script[p] \in Seq(PipeOperation) /\ Len(script[p]) \in Nat /\ done[p] \in Nat
  BY PipeAssumption DEF PipeTypeOK
<1>2. ASSUME NEW n \in 1..Len(script[p])
      PROVE  /\ script[p][n].op \in {"export", "import"}
             /\ script[p][n].size \in 0..MaxSize
             /\ script[p][n].width \in Nat \ {0}
             /\ Total(p, n) \in Nat
  <2>1. script[p][n] \in PipeOperation
    BY <1>1
  <2>2. script[p][n].size \in Nat /\ script[p][n].width \in Nat \ {0}
    BY <2>1, PipeAssumption DEF PipeOperation
  <2>3. Total(p, n) \in Nat
    BY <2>2, Product DEF Total, Bytes
  <2>4. QED
    BY <2>1, <2>2, <2>3 DEF PipeOperation
<1>3. QED
  BY <1>1, <1>2

\* The operation a partner is at.
LEMMA CurrentFacts ==
    ASSUME PipeTypeOK, NEW p \in Partner, done[p] < Len(script[p])
    PROVE  /\ done[p] + 1 \in 1..Len(script[p])
           /\ Current(p).op \in {"export", "import"}
           /\ Current(p).size \in 0..MaxSize
           /\ Current(p).width \in Nat \ {0}
           /\ Total(p, done[p] + 1) = Current(p).size * Current(p).width
<1>1. done[p] + 1 \in 1..Len(script[p])
  BY ScriptFacts
<1>2. QED
  BY <1>1, ScriptFacts DEF Current, Total, Bytes

\* The chunk of the next write() or read().
LEMMA ChunkFacts ==
    ASSUME PipeTypeOK, NEW p \in Partner, done[p] < Len(script[p]),
           moved[p] <= size[p]
    PROVE  /\ Buffer \in Nat /\ Buffer \div Current(p).width \in Nat
           /\ (Buffer \div Current(p).width) * Current(p).width <= Buffer
           /\ size[p] \in Nat /\ moved[p] \in Nat
           /\ Chunk(p) \in {Buffer \div Current(p).width, size[p] - moved[p]}
           /\ Chunk(p) \in Nat /\ Chunk(p) <= size[p] - moved[p]
           /\ Chunk(p) <= Buffer \div Current(p).width
           /\ Chunk(p) * Current(p).width \in Nat
           /\ Chunk(p) * Current(p).width <= Buffer
<1>1. Current(p).width \in Nat \ {0} /\ Buffer \in Nat
  BY CurrentFacts, PipeAssumption DEF Buffer
<1>2. /\ Buffer \div Current(p).width \in Nat
      /\ (Buffer \div Current(p).width) * Current(p).width <= Buffer
  BY <1>1, WholeElements
<1>3. size[p] \in Nat /\ moved[p] \in Nat /\ size[p] - moved[p] \in Nat
  BY PipeAssumption DEF PipeTypeOK
<1>4. /\ Chunk(p) \in {Buffer \div Current(p).width, size[p] - moved[p]}
      /\ Chunk(p) <= size[p] - moved[p]
      /\ Chunk(p) <= Buffer \div Current(p).width
  BY <1>2, <1>3, MinOfTwo DEF Chunk
<1>5. Chunk(p) \in Nat
  BY <1>2, <1>3, <1>4
<1>6. /\ Chunk(p) * Current(p).width \in Nat
      /\ Chunk(p) * Current(p).width <= (Buffer \div Current(p).width) * Current(p).width
  BY <1>1, <1>2, <1>4, <1>5, Product
<1>7. (Buffer \div Current(p).width) * Current(p).width \in Nat
  BY <1>1, <1>2, Product
<1>8. QED
  BY <1>1, <1>2, <1>3, <1>4, <1>5, <1>6, <1>7

-----------------------------------------------------------------------------
(* What the steps of the exchange do.                                       *)

\* A connected partner has its partner in the same session.
LEMMA InSession ==
    ASSUME PipeInv, NEW p \in Partner, pc[p] = "connected"
    PROVE  /\ ~Dirty /\ folder /\ tag[p] = "handshake" /\ session[p] > 0
           /\ session["primary"] = session["secondary"]
           /\ session[Other(p)] = session[p]
           /\ tag[Other(p)] = "handshake" \/ Disconnecting(Other(p))
           /\ tag["primary"] = "handshake" \/ Disconnecting("primary")
           /\ tag["primary"] # "conn"
           /\ pc["primary"] \notin {"idle", "remove_all", "create_dir"}
<1>1. "primary" \in Partner /\ "secondary" \in Partner /\ p \in {"primary", "secondary"}
  BY DEF Partner
<1>2. IInv /\ TypeOK /\ Shape /\ ~Dirty
  BY DEF PipeInv, IInv, Dirty
<1>3. tag[p] = "handshake" /\ session[p] > 0 /\ Found(p)
  BY <1>2 DEF Shape, Found, In, TypeOK
<1>4. session[Other(p)] = session[p] /\ Wrote(Other(p)) /\ Wrote(p)
  BY <1>2, <1>3, SameSession DEF Wrote
<1>5. /\ session["primary"] = session["secondary"]
      /\ tag["primary"] = "handshake" \/ Disconnecting("primary")
  BY <1>1, <1>4, OtherPartner DEF Wrote
<1>6. pc["primary"] \notin {"idle", "remove_all", "create_dir"} /\ tag["primary"] # "conn"
  BY <1>1, <1>2, <1>5 DEF Shape, Disconnecting, In, FileStep, SyncTag
<1>7. folder
  BY <1>2, <1>6, ConstantAssumption DEF IInv, CleanInv, FolderInv
<1>8. tag[Other(p)] = "handshake" \/ Disconnecting(Other(p))
  BY <1>4 DEF Wrote
<1>9. QED
  BY <1>2, <1>3, <1>4, <1>5, <1>6, <1>7, <1>8

\* Whoever is past the creation of the pipes finds both of them.
LEMMA PastCreation ==
    ASSUME PipeInv, NEW p \in Partner, pc[p] = "connected",
           step[p] \notin Creation \cup {"wait_fifo"}
    PROVE  Live /\ \A r \in Partner : Exists(FifoOf(r))
<1>1. p \in {"primary", "secondary"} /\ session["primary"] = session["secondary"]
  BY InSession DEF Partner
<1>2. Made
  BY <1>1, InSession DEF Made, PipeInv, FifoInv, Creating
<1>3. QED
  BY <1>1, <1>2 DEF Live, PipeInv, FifoInv

\* The pipes are files of their own.
LEMMA FifoNames ==
    ASSUME NEW p \in Partner
    PROVE  /\ FifoOf(p) \in File /\ FifoOf(p) \in DataFile
           /\ FifoOf(p) \notin ProtocolFile
           /\ FifoOf(p) # FifoOf(Other(p))
           /\ Fifo \in DataContent /\ Fifo # Absent
BY PipeAssumption, ConstantAssumption, OtherPartner DEF FifoOf, File

\* mkfifo() never finds a pipe of an earlier session.
LEMMA MkFifoFacts ==
    ASSUME PipeInv, NEW p \in Partner, MkFifo(p)
    PROVE  /\ p = "primary" /\ UNCHANGED status
           /\ \E q \in Partner :
                 /\ q = IF step[p] = "mkfifo_write" THEN p ELSE Other(p)
                 /\ dir' = [dir EXCEPT ![FifoOf(q)] = Fifo]
                 /\ pipe' = [pipe EXCEPT ![q] = <<>>]
           /\ step[p] \in Creation
           /\ step' = [step EXCEPT ![p] = IF step[p] = "mkfifo_write" THEN "mkfifo_read"
                                          ELSE "open_write"]
<1>1. PipeAt(p, "mkfifo_write") \/ PipeAt(p, "mkfifo_read")
  BY DEF MkFifo
<1>2. pc[p] = "connected" /\ step[p] \in Creation /\ PlaceInv(p)
  BY <1>1 DEF PipeAt, At, Creation, PipeInv
<1>3. p = "primary"
  BY <1>2 DEF PlaceInv
<1>4. Creating
  BY <1>2, <1>3, InSession DEF Creating
<1>5. ~Exists(FifoOf(IF step[p] = "mkfifo_write" THEN p ELSE Other(p)))
  BY <1>2, <1>3, <1>4, OtherPartner DEF PipeInv, FifoInv, Creation
<1>6. (IF step[p] = "mkfifo_write" THEN p ELSE Other(p)) \in Partner
  BY OtherPartner
<1>7. QED
  BY <1>2, <1>3, <1>5, <1>6 DEF MkFifo, PipeGoto, Creation

\* open() always finds the pipe.
LEMMA OpenFacts ==
    ASSUME PipeInv, NEW p \in Partner, OpenWrite(p) \/ OpenRead(p)
    PROVE  /\ UNCHANGED <<status, dir, done, pipe, size, moved, call, received>>
           /\ OpenWrite(p) =>
                 /\ step[p] = "open_write" /\ HasReader(Other(p))
                 /\ step' = [step EXCEPT ![p] = IF p = "primary" THEN "open_read"
                                                ELSE "ready"]
           /\ OpenRead(p) =>
                 /\ step[p] = "open_read" /\ HasWriter(Other(p))
                 /\ step' = [step EXCEPT ![p] = IF p = "primary" THEN "ready"
                                                ELSE "open_write"]
<1>1. pc[p] = "connected" /\ step[p] \in {"open_write", "open_read"}
  BY DEF OpenWrite, OpenRead, PipeAt, At
<1>2. Exists(FifoOf(p)) /\ Exists(FifoOf(Other(p)))
  BY <1>1, PastCreation, OtherPartner DEF Creation
<1>3. QED
  BY <1>2 DEF OpenWrite, OpenRead, OpenEnd, PipeAt, PipeGoto

\* The data of the other partner stays as it is.
Others(p) ==
    \A r \in Partner : r # p =>
        /\ step'[r] = step[r] /\ done'[r] = done[r] /\ size'[r] = size[r]
        /\ moved'[r] = moved[r] /\ call'[r] = call[r] /\ received'[r] = received[r]

\* What a step of the exchange leaves alone, and when it ends a program.
LEMMA TransferFrame ==
    ASSUME PipeInv, NEW p \in Partner, Transfer(p)
    PROVE  /\ At(p, "connected") /\ Others(p)
           /\ UNCHANGED <<memory, pc, tag, folder, listing, script>>
           /\ \/ status' = status
              \/ /\ status' = [status EXCEPT ![p] = "crashed"]
                 /\ ~HasReader(Other(p)) /\ pipe' = pipe
                 /\ SendSize(p) \/ (KernelWrite(p) /\ call[p] > 0)
           /\ dir' = dir \/ (MkFifo(p) /\ \E q \in Partner : dir' = [dir EXCEPT ![FifoOf(q)] = Fifo])
<1> USE DEF Others, PipeInv, PipeTypeOK, PipeGoto, PipeAt
<1>0. UNCHANGED <<memory, pc, tag, folder, listing, script>>
  BY DEF Transfer
<1>1. CASE MkFifo(p)
  BY <1>0, <1>1, MkFifoFacts DEF MkFifo
<1>2. CASE OpenWrite(p) \/ OpenRead(p)
  BY <1>0, <1>2, OpenFacts DEF OpenWrite, OpenRead
<1>3. CASE SendSize(p) \/ KernelWrite(p)
  BY <1>0, <1>3 DEF SendSize, KernelWrite, PipeKilled
<1>4. CASE WaitFifo(p) \/ WriteChunk(p) \/ WriteDone(p) \/ ReceiveSize(p) \/ ReadChunk(p)
           \/ ReadDone(p) \/ CloseWrite(p)
  BY <1>0, <1>4 DEF WaitFifo, WriteChunk, WriteDone, ReceiveSize, ReadChunk, ReadDone,
                    CloseWrite
<1>5. QED
  BY <1>1, <1>2, <1>3, <1>4 DEF Transfer

\* The exchange leaves the life cycle of the connection alone.
LEMMA TransferLifeCycle ==
    ASSUME PipeInv, NEW p \in Partner, Transfer(p)
    PROVE  IInv' /\ run' = 1
<1>1. /\ IInv /\ pc[p] = "connected" /\ UNCHANGED <<memory, pc, tag, folder, listing>>
      /\ run = 1
  BY TransferFrame DEF PipeInv, At
<1>2. /\ ~Dirty /\ tag["primary"] # "conn"
      /\ pc["primary"] \notin {"idle", "remove_all", "create_dir"}
  BY <1>1, InSession
<1>3. /\ \A f \in ProtocolFile : dir'[f] = dir[f]
      /\ dir' \in [File -> Info \cup DataContent \cup {Absent}]
  BY <1>1, TransferFrame, FifoNames DEF IInv, TypeOK, File
<1>4. DataInv'
  BY <1>1, <1>2 DEF DataInv
<1>5. /\ status' \in [Partner -> {"running", "failed", "crashed"}]
      /\ \A r \in Partner : status'[r] = "failed" => status[r] = "failed"
  BY <1>1, TransferFrame DEF IInv, TypeOK
<1>6. TypeOK'
  BY <1>1, <1>3, <1>5 DEF IInv, TypeOK, memory
<1>7. ~Dirty' /\ Shape' /\ CleanInv'
  BY <1>1, <1>2, <1>3, <1>4, <1>5, StatusFrame
<1>8. QED
  BY <1>1, <1>6, <1>7 DEF IInv, memory

\* What a call of write() puts into the pipe: the next n bytes of the message.
LEMMA KernelFacts ==
    ASSUME PipeInv, NEW p \in Partner, KernelWrite(p), HasReader(Other(p))
    PROVE  LET first == moved[p] * Current(p).width + Chunk(p) * Current(p).width - call[p]
           IN  /\ step[p] = "write" /\ call[p] > 0 /\ first \in Nat
               /\ Pending(p, "export")
               /\ UNCHANGED <<status, dir, done, step, size, received>>
               /\ \E n \in 1..call[p] : \E B \in Seq(Byte) :
                     /\ Chunk(p) * Current(p).width <= PipeBuf =>
                           n = Chunk(p) * Current(p).width
                     /\ Len(B) = n /\ Len(pipe[p]) + n <= Capacity
                     /\ \A i \in 1..n :
                           B[i] = [from |-> p, session |-> session[p],
                                   no |-> done[p] + 1, index |-> first + i]
                     /\ first + n <= Total(p, done[p] + 1)
                     /\ pipe' = [pipe EXCEPT ![p] = pipe[p] \o B]
                     /\ call' = [call EXCEPT ![p] = call[p] - n]
                     /\ moved' = [moved EXCEPT ![p] =
                                    IF n = call[p] THEN moved[p] + Chunk(p) ELSE moved[p]]
<1> DEFINE w == Current(p).width
           total == Chunk(p) * w
           past == moved[p] * w
           full == size[p] * w
           first == past + total - call[p]
           bytes(n) == [i \in 1..n |-> [Header(p) EXCEPT !.index = first + i]]
           free == Capacity - Len(pipe[p])
           rest == call[p]
           space == Min({free, rest})
<1>1. /\ PipeTypeOK /\ PlaceInv(p) /\ step[p] = "write" /\ call[p] > 0
      /\ call[p] \in Nat /\ session[p] \in Nat /\ Len(pipe[p]) \in Nat
      /\ pipe[p] \in Seq(Byte) /\ Len(pipe[p]) <= Capacity /\ Capacity \in Nat
  <2>1. PipeTypeOK /\ TypeOK /\ PlaceInv(p)
    BY DEF PipeInv, PipeTypeOK
  <2>2. step[p] = "write" /\ call[p] > 0
    BY DEF KernelWrite, PipeAt
  <2>3. pipe[p] \in Seq(Byte) /\ Len(pipe[p]) <= Capacity /\ call[p] \in Nat
    BY <2>1 DEF PipeTypeOK
  <2>4. session[p] \in Nat
    BY <2>1 DEF TypeOK
  <2>5. QED
    BY <2>1, <2>2, <2>3, <2>4, PipeAssumption
<1>2. /\ Pending(p, "export") /\ size[p] = Current(p).size /\ moved[p] < size[p]
      /\ moved[p] <= size[p] /\ call[p] <= total /\ done[p] < Len(script[p])
  BY <1>1 DEF PlaceInv, Pending
<1>3. /\ Chunk(p) \in Nat /\ Chunk(p) <= size[p] - moved[p] /\ moved[p] \in Nat
      /\ size[p] \in Nat /\ total \in Nat
  BY <1>1, <1>2, ChunkFacts
<1>4. /\ w \in Nat \ {0} /\ done[p] \in Nat
      /\ Total(p, done[p] + 1) = full
  BY <1>1, <1>2, CurrentFacts, ScriptFacts
<1>5. past \in Nat /\ full \in Nat /\ past + total <= full
  <2>1. moved[p] + Chunk(p) <= size[p] /\ moved[p] + Chunk(p) \in Nat
    BY <1>3
  <2>2. (moved[p] + Chunk(p)) * w <= full /\ full \in Nat
    BY <1>3, <1>4, <2>1, Product
  <2>3. (moved[p] + Chunk(p)) * w = past + total /\ past \in Nat
    BY <1>3, <1>4, Product
  <2>4. QED
    BY <2>2, <2>3
<1>6. PICK n \in 1..space :
         /\ total <= PipeBuf => n = total
         /\ pipe' = [pipe EXCEPT ![p] = @ \o bytes(n)]
         /\ call' = [call EXCEPT ![p] = @ - n]
         /\ moved' = [moved EXCEPT ![p] = IF n = call[p] THEN @ + Chunk(p) ELSE @]
  BY DEF KernelWrite
<1>7. space \in Int /\ space <= free /\ space <= rest
  <2>1. free \in Int /\ rest \in Int
    BY <1>1
  <2> HIDE DEF free, rest
  <2>2. QED
    BY <2>1, MinOfTwo
<1> HIDE DEF total, past, space, full
<1>8. n \in 1..call[p] /\ Len(pipe[p]) + n <= Capacity /\ n \in Nat
  BY <1>1, <1>7
<1>9. first \in Nat /\ first + n <= Total(p, done[p] + 1)
  <2>1. rest \in Nat /\ rest <= total /\ n \in Nat /\ n <= rest
    BY <1>1, <1>2, <1>8
  <2> HIDE DEF rest
  <2>2. past + total - rest \in Nat /\ (past + total - rest) + n <= full
    BY <1>3, <1>5, <2>1
  <2>3. QED
    BY <1>4, <2>2 DEF rest
<1>10. /\ call' = [call EXCEPT ![p] = call[p] - n]
       /\ pipe' = [pipe EXCEPT ![p] = pipe[p] \o bytes(n)]
       /\ moved' = [moved EXCEPT ![p] = IF n = call[p] THEN moved[p] + Chunk(p) ELSE moved[p]]
  BY <1>1, <1>6 DEF PipeTypeOK
<1> HIDE DEF first
<1>11. \A i \in 1..n : bytes(n)[i] = [from |-> p, session |-> session[p],
                                    no |-> done[p] + 1, index |-> first + i]
  BY DEF Header
<1>12. bytes(n) \in Seq(Byte) /\ Len(bytes(n)) = n
  <2>1. \A i \in 1..n : first + i \in Nat
    BY <1>8, <1>9
  <2>2. done[p] + 1 \in Nat /\ session[p] \in Nat
    BY <1>1, <1>4
  <2>3. \A i \in 1..n : bytes(n)[i] \in Byte
    BY <1>11, <2>1, <2>2, ZenonT(40) DEF Byte
  <2>4. QED
    BY <1>8, <2>3
<1>13. UNCHANGED <<status, dir, done, step, size, received>>
  BY DEF KernelWrite
<1> HIDE DEF bytes, w
<1>14. \E k \in 1..call[p] : \E B \in Seq(Byte) :
                     /\ total <= PipeBuf => k = total
                     /\ Len(B) = k /\ Len(pipe[p]) + k <= Capacity
                     /\ \A i \in 1..k :
                           B[i] = [from |-> p, session |-> session[p],
                                   no |-> done[p] + 1, index |-> first + i]
                     /\ first + k <= Total(p, done[p] + 1)
                     /\ pipe' = [pipe EXCEPT ![p] = pipe[p] \o B]
                     /\ call' = [call EXCEPT ![p] = call[p] - k]
                     /\ moved' = [moved EXCEPT ![p] =
                                    IF k = call[p] THEN moved[p] + Chunk(p) ELSE moved[p]]
  BY <1>6, <1>8, <1>9, <1>10, <1>11, <1>12
<1>15. QED
  BY <1>1, <1>2, <1>9, <1>13, <1>14 DEF total, first, past, w

\* What a call of read() takes from the pipe: what is there, and rubbish for the
\* bytes that are missing.
LEMMA ReadFacts ==
    ASSUME PipeInv, NEW p \in Partner, ReadChunk(p)
    PROVE  LET q == Other(p)
               want == Chunk(p) * Current(p).width
           IN  /\ step[p] = "read" /\ moved[p] < size[p] /\ want \in Nat
               /\ Readable(p) \/ want = 0
               /\ UNCHANGED <<status, dir, done, step, size, call>>
               /\ moved' = [moved EXCEPT ![p] = moved[p] + Chunk(p)]
               /\ \E n \in 0..Len(pipe[q]) : \E got \in Seq(Byte) :
                     /\ n <= want /\ (n < want => n = Len(pipe[q]))
                     /\ pipe' = [pipe EXCEPT ![q] = SubSeq(pipe[q], n + 1, Len(pipe[q]))]
                     /\ Len(got) = want
                     /\ \A i \in 1..want :
                           got[i] = IF i <= n THEN pipe[q][i] ELSE Garbage
                     /\ received' = [received EXCEPT ![p] =
                           [received[p] EXCEPT ![done[p] + 1] = received[p][done[p] + 1] \o got]]
<1> DEFINE q == Other(p)
           want == Chunk(p) * Current(p).width
           n == Min({want, Len(pipe[q])})
           rubbish == [i \in 1..(want - n) |-> Garbage]
           got == SubSeq(pipe[q], 1, n) \o rubbish
<1>1. /\ PipeTypeOK /\ PlaceInv(p) /\ step[p] = "read" /\ moved[p] < size[p]
      /\ (Readable(p) \/ want = 0) /\ q \in Partner
      /\ UNCHANGED <<status, dir, done, step, size, call>>
  BY OtherPartner DEF PipeInv, ReadChunk, PipeAt
<1>2. pipe[q] \in Seq(Byte) /\ Len(pipe[q]) \in Nat /\ Len(received[p]) = done[p] + 1
  BY <1>1 DEF PipeTypeOK, PlaceInv
<1>3. want \in Nat
  BY <1>1, ChunkFacts DEF PlaceInv, Pending
<1>4. n \in 0..Len(pipe[q]) /\ n <= want /\ (n < want => n = Len(pipe[q]))
  <2> DEFINE l == Len(pipe[q])
  <2> HIDE DEF want, l
  <2>1. l \in Nat /\ want \in Nat
    BY <1>2, <1>3 DEF l
  <2>2. Min({want, l}) \in {want, l} /\ Min({want, l}) <= want /\ Min({want, l}) <= l
    BY <2>1, MinOfTwo
  <2>3. Min({want, l}) \in 0..l /\ (Min({want, l}) < want => Min({want, l}) = l)
    BY <2>1, <2>2
  <2>4. QED
    BY <2>2, <2>3 DEF l
<1>5. /\ pipe' = [pipe EXCEPT ![q] = SubSeq(pipe[q], n + 1, Len(pipe[q]))]
      /\ received' = [received EXCEPT ![p] =
                           [received[p] EXCEPT ![done[p] + 1] = received[p][done[p] + 1] \o got]]
      /\ moved' = [moved EXCEPT ![p] = moved[p] + Chunk(p)]
  BY <1>1, <1>2 DEF ReadChunk, PipeTypeOK
<1>6. rubbish \in Seq(Byte) /\ Len(rubbish) = want - n
  <2>1. want - n \in Nat /\ Garbage \in Byte
    BY <1>3, <1>4 DEF Garbage, Byte
  <2> HIDE DEF want, n
  <2>2. QED
    BY <2>1
<1>7. /\ SubSeq(pipe[q], 1, n) \in Seq(Byte) /\ Len(SubSeq(pipe[q], 1, n)) = n
      /\ \A i \in 1..n : SubSeq(pipe[q], 1, n)[i] = pipe[q][i]
  BY <1>2, <1>4, Front
<1>8. /\ got \in Seq(Byte) /\ Len(got) = n + (want - n)
      /\ \A i \in 1..(n + (want - n)) :
            got[i] = IF i <= n THEN SubSeq(pipe[q], 1, n)[i] ELSE rubbish[i - n]
  <2> HIDE DEF n, want, rubbish
  <2>1. QED
    BY <1>6, <1>7, ConcatProperties
<1>9. \A i \in 1..(want - n) : rubbish[i] = Garbage
  OBVIOUS
<1> HIDE DEF got, rubbish, n, want
<1>10. Len(got) = want /\ \A i \in 1..want : got[i] = IF i <= n THEN pipe[q][i] ELSE Garbage
  <2>1. n + (want - n) = want /\ n \in Nat
    BY <1>2, <1>3, <1>4
  <2>2. ASSUME NEW i \in 1..want PROVE got[i] = IF i <= n THEN pipe[q][i] ELSE Garbage
    <3>1. ~(i <= n) => i - n \in 1..(want - n)
      BY <1>3, <2>1
    <3>2. i <= n => i \in 1..n
      BY <2>1
    <3>3. QED
      BY <1>7, <1>8, <1>9, <2>1, <3>1, <3>2
  <2>3. QED
    BY <1>8, <2>1, <2>2
<1>11. QED
  BY <1>1, <1>3, <1>4, <1>5, <1>8, <1>10 DEF want

-----------------------------------------------------------------------------
(* The exchange keeps the first layer of the invariant.                     *)

\* The exchange takes place while both pipes exist.
LEMMA TransferLive ==
    ASSUME PipeInv, NEW p \in Partner, Transfer(p), ~MkFifo(p)
    PROVE  /\ Live /\ Live' /\ Made /\ Made' /\ ~Creating'
           /\ dir' = dir
<1>1. /\ pc[p] = "connected" /\ Others(p) /\ dir' = dir
      /\ UNCHANGED <<memory, pc, tag>>
  BY TransferFrame DEF At
<1>2. /\ session["primary"] = session["secondary"]
      /\ tag["primary"] = "handshake" \/ Disconnecting("primary")
      /\ p \in {"primary", "secondary"} /\ PlaceInv(p) /\ PipeTypeOK
  BY <1>1, InSession, SMTT(30) DEF Partner, PipeInv
<1>3. step[p] \notin Creation /\ step'[p] \notin Creation \cup {"wait_fifo"}
  BY <1>2, OpenFacts
     DEF Transfer, WaitFifo, OpenWrite, OpenRead, SendSize, WriteChunk, KernelWrite, WriteDone,
         ReceiveSize, ReadChunk, ReadDone, CloseWrite, PipeAt, PipeGoto, Creation, PipeTypeOK
<1>4. step[p] = "wait_fifo" => p = "secondary" /\ Exists(FifoOf("secondary"))
  BY <1>2
     DEF Transfer, WaitFifo, OpenWrite, OpenRead, SendSize, WriteChunk, KernelWrite, WriteDone,
         ReceiveSize, ReadChunk, ReadDone, CloseWrite, PipeAt, PlaceInv
<1>5. Made
  <2>1. CASE step[p] = "wait_fifo"
    BY <1>2, <1>4, <2>1 DEF PipeInv, FifoInv, Creating, Made
  <2>2. CASE step[p] # "wait_fifo"
    BY <1>1, <1>3, <2>2, PastCreation DEF Live
  <2>3. QED
    BY <2>1, <2>2
<1>6. step["primary"] \in Creation => tag["primary"] # "handshake"
  BY <1>5 DEF Made, Disconnecting, In, Creation
<1>7. step'["primary"] \in Creation => tag["primary"] # "handshake"
  BY <1>1, <1>2, <1>3, <1>6 DEF Others, Partner
<1>8. Made' /\ ~Creating'
  BY <1>1, <1>2, <1>7 DEF Made, Creating, Disconnecting, In
<1>9. QED
  BY <1>1, <1>2, <1>5, <1>8 DEF Live, memory

\* The creation of the pipes goes from one phase to the next.
LEMMA MkFifoPhase ==
    ASSUME PipeInv, NEW p \in Partner, Transfer(p), MkFifo(p)
    PROVE  FifoInv' /\ (Live' => \A q \in Partner : pipe'[q] = <<>>)
<1>1. /\ p = "primary" /\ pc[p] = "connected" /\ UNCHANGED <<memory, pc, tag>>
      /\ Others(p)
  BY MkFifoFacts, TransferFrame DEF At
<1>2. PICK q \in Partner : /\ q = IF step[p] = "mkfifo_write" THEN p ELSE Other(p)
                           /\ dir' = [dir EXCEPT ![FifoOf(q)] = Fifo]
                           /\ pipe' = [pipe EXCEPT ![q] = <<>>]
  BY MkFifoFacts
<1>3. /\ step[p] \in Creation
      /\ step'[p] = IF step[p] = "mkfifo_write" THEN "mkfifo_read" ELSE "open_write"
      /\ tag[p] = "handshake" /\ Creating
  <2>1. step \in [Partner -> PipeStep] /\ step[p] \in Creation /\ tag[p] = "handshake"
    BY <1>1, MkFifoFacts, InSession DEF PipeInv, PipeTypeOK
  <2>2. step' = [step EXCEPT ![p] = IF step[p] = "mkfifo_write" THEN "mkfifo_read"
                                    ELSE "open_write"]
    BY MkFifoFacts
  <2>3. QED
    BY <1>1, <2>1, <2>2 DEF Creating
<1>4. /\ Other(p) = "secondary" /\ "secondary" \in Partner /\ p # "secondary"
      /\ pipe \in [Partner -> Seq(Byte)]
      /\ dir \in [File -> Info \cup DataContent \cup {Absent}]
      /\ FifoOf(p) \in File /\ FifoOf("secondary") \in File
      /\ FifoOf(p) # FifoOf("secondary") /\ Fifo # Absent
      /\ \A r \in Partner : r = p \/ r = "secondary"
  <2>1. Other(p) = "secondary" /\ \A r \in Partner : r = p \/ r = "secondary"
    BY <1>1, OtherPartner DEF Partner
  <2>2. "secondary" \in Partner /\ p # "secondary"
    BY <1>1 DEF Partner
  <2>3. /\ pipe \in [Partner -> Seq(Byte)]
        /\ dir \in [File -> Info \cup DataContent \cup {Absent}]
    BY DEF PipeInv, PipeTypeOK, TypeOK
  <2>4. QED
    BY <2>1, <2>2, <2>3, FifoNames
<1>5. /\ ~Exists(FifoOf("secondary")) /\ step["secondary"] = "wait_fifo"
      /\ ~Disconnecting("secondary")
      /\ step[p] = "mkfifo_read" => Exists(FifoOf(p)) /\ pipe[p] = <<>>
  BY <1>1, <1>3 DEF PipeInv, FifoInv
<1>6. step'["secondary"] = "wait_fifo" /\ ~Disconnecting("secondary")'
  BY <1>1, <1>4, <1>5 DEF Others, Disconnecting, In
<1>7. CASE step[p] = "mkfifo_write"
  <2>1. q = p /\ step'[p] = "mkfifo_read"
    BY <1>2, <1>3, <1>7
  <2>2. ~Exists(FifoOf("secondary"))' /\ Exists(FifoOf(p))' /\ pipe'[p] = <<>>
    BY <1>2, <1>4, <1>5, <2>1 DEF Exists
  <2>3. ~Made'
    BY <1>1, <1>3, <2>1 DEF Made, Creation, Disconnecting, In
  <2>4. QED
    BY <1>1, <1>6, <2>1, <2>2, <2>3 DEF FifoInv, Live
<1>8. CASE step[p] = "mkfifo_read"
  <2>1. q = "secondary" /\ step'[p] = "open_write"
    BY <1>2, <1>3, <1>4, <1>8
  <2>2. Exists(FifoOf(p))' /\ Exists(FifoOf("secondary"))'
    BY <1>2, <1>4, <1>5, <1>8, <2>1 DEF Exists
  <2>3. ~Creating'
    BY <1>1, <2>1 DEF Creating, Creation
  <2>4. \A r \in Partner : pipe'[r] = <<>>
    BY <1>2, <1>4, <1>5, <1>8, <2>1
  <2>5. QED
    BY <1>1, <1>4, <2>2, <2>3, <2>4 DEF FifoInv
<1>9. QED
  BY <1>3, <1>7, <1>8 DEF Creation

\* What is true of the place of a partner that does nothing.
LEMMA PlaceFrame ==
    ASSUME NEW r \in Partner, PlaceInv(r), script' = script,
           step'[r] = step[r], done'[r] = done[r], size'[r] = size[r],
           moved'[r] = moved[r], call'[r] = call[r], received'[r] = received[r],
           pc'[r] = pc[r], tag'[r] = tag[r]
    PROVE  PlaceInv(r)'
<1>1. Current(r)' = Current(r) /\ Chunk(r)' = Chunk(r)
  BY DEF Current, Chunk, Buffer
<1>2. QED
  BY <1>1 DEF PlaceInv, Pending, Disconnecting, In, FirstStep

\* What the steps that only move a partner on do to its place.
LEMMA MoveOnPlace ==
    ASSUME PipeInv, NEW p \in Partner, Transfer(p), TypeOK',
           MkFifo(p) \/ WaitFifo(p) \/ OpenWrite(p) \/ OpenRead(p) \/ CloseWrite(p)
    PROVE  /\ PipeTypeOK' /\ PlaceInv(p)'
           /\ UNCHANGED <<done, size, moved, call, received>>
           /\ MkFifo(p) \/ pipe' = pipe
<1>1. /\ PipeTypeOK /\ PlaceInv(p) /\ pc[p] = "connected" /\ tag[p] = "handshake"
      /\ UNCHANGED <<pc, tag, script>> /\ status[p] = "running"
  BY TransferFrame, InSession DEF PipeInv, At
<1>2. UNCHANGED <<done, size, moved, call, received>>
  BY OpenFacts DEF MkFifo, WaitFifo, CloseWrite
<1>3. MkFifo(p) \/ pipe' = pipe
  BY OpenFacts DEF WaitFifo, CloseWrite
<1>4. \E s \in PipeStep :
         /\ step' = [step EXCEPT ![p] = s]
         /\ IF CloseWrite(p) THEN step[p] = "ready" /\ s = "half_closed"
            ELSE /\ step[p] \notin Exchanging
                 /\ s \in {"mkfifo_read", "open_write", "open_read", "ready"}
         /\ p = "secondary" => s \notin Creation
  BY <1>1, MkFifoFacts, OpenFacts
     DEF WaitFifo, CloseWrite, PipeAt, PipeGoto, PipeStep, Exchanging, Creation
<1>5. PICK s \in PipeStep :
         /\ step' = [step EXCEPT ![p] = s]
         /\ IF CloseWrite(p) THEN step[p] = "ready" /\ s = "half_closed"
            ELSE /\ step[p] \notin Exchanging
                 /\ s \in {"mkfifo_read", "open_write", "open_read", "ready"}
         /\ p = "secondary" => s \notin Creation
  BY <1>4
<1>6. step'[p] = s /\ step' \in [Partner -> PipeStep]
  BY <1>1, <1>5 DEF PipeTypeOK
<1>7. Current(p)' = Current(p) /\ Chunk(p)' = Chunk(p)
  BY <1>1, <1>2 DEF Current, Chunk, Buffer
<1>8. CloseWrite(p) => done[p] = Len(script[p])
  BY DEF CloseWrite
<1>9. PlaceInv(p)'
  <2>1. /\ s \in (IF p = "primary" THEN PipeStep \ {"wait_fifo"} ELSE PipeStep \ Creation)
        /\ s \notin {"write", "read"}
    BY <1>5 DEF PipeStep, Creation, Partner
  <2>2. done[p] = IF CloseWrite(p) THEN Len(script[p]) ELSE 0
    BY <1>1, <1>5, <1>8 DEF PlaceInv
  <2>3. Len(received[p]) = done[p] /\ call[p] = 0
    BY <1>1, <1>5 DEF PlaceInv, Exchanging
  <2>4. ~Disconnecting(p)'
    BY <1>1 DEF Disconnecting, In
  <2>5. QED
    BY <1>1, <1>2, <1>5, <1>6, <1>8, <2>1, <2>2, <2>3, <2>4
       DEF PlaceInv, Exchanging
<1>10. PipeTypeOK'
  <2>1. pipe' \in [Partner -> Seq(Byte)] /\ \A r \in Partner : Len(pipe'[r]) <= Capacity
    <3>1. CASE MkFifo(p)
      <4>1. PICK q \in Partner : pipe' = [pipe EXCEPT ![q] = <<>>]
        BY <3>1, MkFifoFacts
      <4>2. pipe \in [Partner -> Seq(Byte)] /\ \A r \in Partner : Len(pipe[r]) <= Capacity
        BY <1>1 DEF PipeTypeOK
      <4>3. <<>> \in Seq(Byte) /\ Len(<<>>) <= Capacity
        BY PipeAssumption
      <4>4. QED
        BY <4>1, <4>2, <4>3
    <3>2. CASE pipe' = pipe
      BY <1>1, <3>2 DEF PipeTypeOK
    <3>3. QED
      BY <1>3, <3>1, <3>2
  <2>2. QED
    BY <1>1, <1>2, <1>6, <2>1 DEF PipeTypeOK
<1>11. QED
  BY <1>2, <1>3, <1>9, <1>10

\* A message is begun: SendSize().
LEMMA SendSizePlace ==
    ASSUME PipeInv, NEW p \in Partner, Transfer(p), TypeOK', SendSize(p)
    PROVE  /\ PipeTypeOK' /\ PlaceInv(p)'
           /\ UNCHANGED <<done, call, received>>
           /\ \/ pipe' = pipe
              \/ pipe' = [pipe EXCEPT ![p] = Append(pipe[p], Header(p))]
           /\ step'[p] = "write" /\ size'[p] = Current(p).size /\ moved'[p] = 0
<1>1. /\ PipeTypeOK /\ PlaceInv(p) /\ pc[p] = "connected" /\ tag[p] = "handshake"
      /\ UNCHANGED <<pc, tag, script>> /\ step[p] = "ready"
  BY TransferFrame, InSession DEF PipeInv, At, SendSize, PipeAt
<1>2. Pending(p, "export") /\ UNCHANGED <<done, call, received>>
  BY DEF SendSize
<1>3. Current(p).size \in 0..MaxSize /\ MaxSize \in Nat /\ done[p] \in Nat /\ session[p] \in Nat
  BY <1>1, <1>2, CurrentFacts, ScriptFacts, PipeAssumption DEF Pending, PipeTypeOK, TypeOK
<1>4. /\ step' = [step EXCEPT ![p] = "write"]
      /\ size' = [size EXCEPT ![p] = Current(p).size]
      /\ moved' = [moved EXCEPT ![p] = 0]
  BY DEF SendSize, PipeGoto
<1>5. /\ step'[p] = "write" /\ size'[p] = Current(p).size /\ moved'[p] = 0
      /\ step' \in [Partner -> PipeStep] /\ size' \in [Partner -> 0..MaxSize]
      /\ moved' \in [Partner -> 0..MaxSize]
  BY <1>1, <1>3, <1>4 DEF PipeTypeOK, PipeStep
<1>6. Current(p)' = Current(p)
  BY <1>1, <1>2 DEF Current
<1>7. /\ pipe' \in [Partner -> Seq(Byte)] /\ \A r \in Partner : Len(pipe'[r]) <= Capacity
      /\ \/ pipe' = pipe
         \/ pipe' = [pipe EXCEPT ![p] = Append(pipe[p], Header(p))]
  <2>1. CASE HasReader(Other(p))
    <3>1. Header(p) \in Byte
      BY <1>3 DEF Header, Byte
    <3>2. /\ pipe' = [pipe EXCEPT ![p] = Append(pipe[p], Header(p))]
          /\ Len(pipe[p]) < Capacity /\ pipe \in [Partner -> Seq(Byte)]
          /\ \A r \in Partner : Len(pipe[r]) <= Capacity
      BY <1>1, <2>1 DEF SendSize, PipeTypeOK
    <3>3. Append(pipe[p], Header(p)) \in Seq(Byte) /\ Len(Append(pipe[p], Header(p))) <= Capacity
      BY <3>1, <3>2, PipeAssumption
    <3>4. QED
      BY <3>2, <3>3
  <2>2. CASE ~HasReader(Other(p))
    BY <1>1, <2>2 DEF SendSize, PipeTypeOK
  <2>3. QED
    BY <2>1, <2>2
<1>8. PipeTypeOK'
  BY <1>1, <1>2, <1>5, <1>7 DEF PipeTypeOK
<1>9. PlaceInv(p)'
  <2>1. call[p] = 0 /\ Len(received[p]) = done[p] /\ done[p] <= Len(script[p])
    BY <1>1 DEF PlaceInv
  <2>2. ~Disconnecting(p)' /\ Pending(p, "export")'
    BY <1>1, <1>2, <1>6 DEF Disconnecting, In, Pending
  <2>3. step'[p] \in IF p = "primary" THEN PipeStep \ {"wait_fifo"} ELSE PipeStep \ Creation
    BY <1>5 DEF PipeStep, Creation
  <2>4. QED
    BY <1>1, <1>2, <1>3, <1>5, <1>6, <2>1, <2>2, <2>3 DEF PlaceInv, Exchanging
<1>10. QED
  BY <1>2, <1>5, <1>7, <1>8, <1>9

\* The loop of Write() calls write().
LEMMA WriteChunkPlace ==
    ASSUME PipeInv, NEW p \in Partner, Transfer(p), TypeOK', WriteChunk(p)
    PROVE  /\ PipeTypeOK' /\ PlaceInv(p)'
           /\ UNCHANGED <<status, done, step, pipe, size, moved, received>>
           /\ call'[p] = Chunk(p) * Current(p).width
<1>1. /\ PipeTypeOK /\ PlaceInv(p) /\ UNCHANGED <<pc, tag, script>>
      /\ step[p] = "write" /\ moved[p] < size[p]
      /\ UNCHANGED <<status, done, step, pipe, size, moved, received>>
      /\ call' = [call EXCEPT ![p] = Chunk(p) * Current(p).width]
  BY TransferFrame DEF PipeInv, WriteChunk, PipeAt
<1>2. done[p] < Len(script[p]) /\ moved[p] <= size[p]
  BY <1>1 DEF PlaceInv, Pending
<1>3. Chunk(p) * Current(p).width \in Nat
  BY <1>1, <1>2, ChunkFacts
<1>4. call' \in [Partner -> Nat] /\ call'[p] = Chunk(p) * Current(p).width
  BY <1>1, <1>3 DEF PipeTypeOK
<1>5. PipeTypeOK'
  BY <1>1, <1>4 DEF PipeTypeOK
<1>6. Current(p)' = Current(p) /\ Chunk(p)' = Chunk(p)
  BY <1>1 DEF Current, Chunk, Buffer
<1>7. call'[p] <= Chunk(p)' * Current(p)'.width
  BY <1>3, <1>4, <1>6
<1>8. PlaceInv(p)'
  BY <1>1, <1>6, <1>7 DEF PlaceInv, Pending, Disconnecting, In, FirstStep
<1>9. QED
  BY <1>1, <1>4, <1>5, <1>8

\* Bytes go into the pipe.
LEMMA KernelPlace ==
    ASSUME PipeInv, NEW p \in Partner, Transfer(p), TypeOK', KernelWrite(p)
    PROVE  PipeTypeOK' /\ PlaceInv(p)' /\ UNCHANGED <<done, received>>
<1>1. /\ PipeTypeOK /\ PlaceInv(p) /\ UNCHANGED <<pc, tag, script>>
      /\ UNCHANGED <<done, step, size, received>> /\ step[p] = "write" /\ call[p] > 0
  BY TransferFrame DEF PipeInv, KernelWrite, PipeAt
<1>2. CASE ~HasReader(Other(p))
  <2>1. UNCHANGED <<pipe, call, moved>>
    BY <1>2 DEF KernelWrite
  <2>2. QED
    BY <1>1, <2>1, PlaceFrame DEF PipeTypeOK
<1>3. CASE HasReader(Other(p))
  <2>1. PICK n \in 1..call[p], B \in Seq(Byte) :
           /\ Len(B) = n /\ Len(pipe[p]) + n <= Capacity
           /\ pipe' = [pipe EXCEPT ![p] = pipe[p] \o B]
           /\ call' = [call EXCEPT ![p] = call[p] - n]
           /\ moved' = [moved EXCEPT ![p] = IF n = call[p] THEN moved[p] + Chunk(p) ELSE moved[p]]
    BY <1>3, KernelFacts
  <2>2. /\ call[p] \in Nat /\ call[p] - n \in Nat /\ n \in Nat
        /\ done[p] < Len(script[p]) /\ moved[p] < size[p] /\ moved[p] <= size[p]
        /\ call[p] <= Chunk(p) * Current(p).width
    BY <1>1, <2>1 DEF PipeTypeOK, PlaceInv, Pending
  <2>3. /\ Chunk(p) \in Nat /\ Chunk(p) <= size[p] - moved[p] /\ moved[p] \in Nat
        /\ size[p] \in 0..MaxSize /\ MaxSize \in Nat /\ Chunk(p) * Current(p).width \in Nat
    BY <1>1, <2>2, ChunkFacts, PipeAssumption DEF PipeTypeOK
  <2>4. /\ pipe'[p] = pipe[p] \o B /\ \A r \in Partner : r # p => pipe'[r] = pipe[r]
        /\ pipe[p] \in Seq(Byte) /\ pipe[p] \o B \in Seq(Byte)
        /\ Len(pipe[p] \o B) <= Capacity
    <3>1. pipe[p] \in Seq(Byte) /\ pipe \in [Partner -> Seq(Byte)]
      BY <1>1 DEF PipeTypeOK
    <3>2. pipe[p] \o B \in Seq(Byte) /\ Len(pipe[p] \o B) = Len(pipe[p]) + Len(B)
      BY <3>1, ConcatProperties
    <3>3. QED
      BY <2>1, <3>1, <3>2
  <2>5. /\ pipe' \in [Partner -> Seq(Byte)]
        /\ \A r \in Partner : Len(pipe'[r]) <= Capacity
    BY <1>1, <2>1, <2>4 DEF PipeTypeOK
  <2>6. /\ call' \in [Partner -> Nat] /\ call'[p] = call[p] - n
        /\ moved' \in [Partner -> 0..MaxSize]
        /\ moved'[p] = (IF n = call[p] THEN moved[p] + Chunk(p) ELSE moved[p])
        /\ moved'[p] <= size[p]
    <3>1. call \in [Partner -> Nat] /\ moved \in [Partner -> 0..MaxSize]
      BY <1>1 DEF PipeTypeOK
    <3>2. /\ (IF n = call[p] THEN moved[p] + Chunk(p) ELSE moved[p]) \in 0..MaxSize
          /\ (IF n = call[p] THEN moved[p] + Chunk(p) ELSE moved[p]) <= size[p]
      BY <2>2, <2>3
    <3>3. QED
      BY <2>1, <2>2, <3>1, <3>2
  <2>7. PipeTypeOK'
    BY <1>1, <2>5, <2>6 DEF PipeTypeOK
  <2>8. Current(p)' = Current(p)
    BY <1>1 DEF Current
  <2>9. call'[p] # 0 =>
          /\ moved'[p] < size'[p]
          /\ call'[p] <= Chunk(p)' * Current(p)'.width
    <3>1. SUFFICES ASSUME call'[p] # 0 PROVE /\ moved'[p] < size'[p]
                                             /\ call'[p] <= Chunk(p)' * Current(p)'.width
      OBVIOUS
    <3>2. n # call[p] /\ moved'[p] = moved[p]
      BY <2>2, <2>6, <3>1
    <3>3. Chunk(p)' = Chunk(p)
      BY <1>1, <2>8, <3>2 DEF Chunk, Buffer
    <3> DEFINE total == Chunk(p) * Current(p).width
    <3>4. call[p] - n <= total
      <4> HIDE DEF total
      <4>1. total \in Nat /\ call[p] <= total
        BY <2>2, <2>3 DEF total
      <4>2. QED
        BY <2>2, <4>1
    <3>5. QED
      BY <1>1, <2>2, <2>6, <2>8, <3>2, <3>3, <3>4
  <2>10. PlaceInv(p)'
    BY <1>1, <2>6, <2>8, <2>9 DEF PlaceInv, Pending, Disconnecting, In, FirstStep
  <2>11. QED
    BY <1>1, <2>7, <2>10
<1>4. QED
  BY <1>2, <1>3

\* A message is written or read completely.
LEMMA DonePlace ==
    ASSUME PipeInv, NEW p \in Partner, Transfer(p), TypeOK', WriteDone(p) \/ ReadDone(p)
    PROVE  /\ PipeTypeOK' /\ PlaceInv(p)'
           /\ UNCHANGED <<status, pipe, size, moved, call>>
           /\ step[p] = IF WriteDone(p) THEN "write" ELSE "read"
           /\ call[p] = 0 /\ moved[p] = size[p] /\ done[p] < Len(script[p])
           /\ step'[p] = "ready" /\ done'[p] = done[p] + 1
           /\ received'[p] = IF WriteDone(p) THEN Append(received[p], <<>>) ELSE received[p]
<1>1. /\ PipeTypeOK /\ PlaceInv(p) /\ UNCHANGED <<pc, tag, script>>
      /\ pc[p] = "connected" /\ tag[p] = "handshake"
      /\ UNCHANGED <<status, pipe, size, moved, call>>
      /\ step[p] = (IF WriteDone(p) THEN "write" ELSE "read")
      /\ call[p] = 0 /\ moved[p] >= size[p]
      /\ step' = [step EXCEPT ![p] = "ready"] /\ done' = [done EXCEPT ![p] = @ + 1]
  BY TransferFrame, InSession
     DEF PipeInv, At, WriteDone, ReadDone, PipeAt, PipeGoto, PlaceInv
<1>2. /\ done[p] < Len(script[p]) /\ done[p] \in Nat /\ Len(script[p]) \in Nat
      /\ moved[p] = size[p]
  BY <1>1, ScriptFacts, PipeAssumption DEF PlaceInv, Pending, PipeTypeOK
<1>3. /\ step'[p] = "ready" /\ done'[p] = done[p] + 1
      /\ step' \in [Partner -> PipeStep] /\ done' \in [Partner -> Nat]
  BY <1>1, <1>2 DEF PipeTypeOK, PipeStep
<1>4. /\ received'[p] = (IF WriteDone(p) THEN Append(received[p], <<>>) ELSE received[p])
      /\ received' \in [Partner -> Seq(Seq(Byte))]
      /\ Len(received'[p]) = done[p] + 1
  <2>1. /\ received \in [Partner -> Seq(Seq(Byte))] /\ received[p] \in Seq(Seq(Byte))
        /\ <<>> \in Seq(Byte)
        /\ Len(received[p]) = IF WriteDone(p) THEN done[p] ELSE done[p] + 1
    BY <1>1 DEF PipeTypeOK, PlaceInv
  <2>2. /\ Append(received[p], <<>>) \in Seq(Seq(Byte))
        /\ Len(Append(received[p], <<>>)) = Len(received[p]) + 1
    BY <2>1
  <2>3. CASE WriteDone(p)
    BY <2>1, <2>2, <2>3 DEF WriteDone
  <2>4. CASE ~WriteDone(p)
    <3>1. received' = received
      BY <2>4 DEF ReadDone
    <3>2. QED
      BY <2>1, <2>4, <3>1
  <2>5. QED
    BY <2>3, <2>4
<1>5. PipeTypeOK'
  BY <1>1, <1>3, <1>4 DEF PipeTypeOK
<1>6. PlaceInv(p)'
  <2>1. ~Disconnecting(p)'
    BY <1>1 DEF Disconnecting, In
  <2>2. step'[p] \in IF p = "primary" THEN PipeStep \ {"wait_fifo"} ELSE PipeStep \ Creation
    BY <1>3 DEF PipeStep, Creation
  <2>3. done'[p] <= Len(script'[p]) /\ moved'[p] <= size'[p] /\ call'[p] = 0
    BY <1>1, <1>2, <1>3 DEF PlaceInv
  <2>4. QED
    BY <1>1, <1>3, <1>4, <2>1, <2>2, <2>3 DEF PlaceInv, Exchanging
<1>7. QED
  BY <1>1, <1>2, <1>3, <1>4, <1>5, <1>6

\* The header of a message is read: ReceiveSize().
LEMMA ReceiveSizePlace ==
    ASSUME PipeInv, NEW p \in Partner, Transfer(p), TypeOK', ReceiveSize(p)
    PROVE  /\ PipeTypeOK' /\ PlaceInv(p)'
           /\ UNCHANGED <<status, done, call>> /\ step[p] = "ready" /\ Pending(p, "import")
           /\ pipe' = [pipe EXCEPT ![Other(p)] = SubSeq(pipe[Other(p)], 2, Len(pipe[Other(p)]))]
           /\ received'[p] = Append(received[p], <<>>)
           /\ step'[p] = "read" /\ moved'[p] = 0 /\ size'[p] \in SizesRead(p)
<1> DEFINE q == Other(p)
           rest == SubSeq(pipe[q], 2, Len(pipe[q]))
<1>1. /\ PipeTypeOK /\ PlaceInv(p) /\ UNCHANGED <<pc, tag, script>>
      /\ pc[p] = "connected" /\ tag[p] = "handshake" /\ step[p] = "ready"
      /\ UNCHANGED <<status, done, call>> /\ Pending(p, "import")
      /\ received' = [received EXCEPT ![p] = Append(@, <<>>)]
      /\ moved' = [moved EXCEPT ![p] = 0] /\ step' = [step EXCEPT ![p] = "read"]
      /\ q \in Partner
  BY TransferFrame, InSession, OtherPartner
     DEF PipeInv, At, ReceiveSize, PipeAt, PipeGoto
<1>2. pipe' = [pipe EXCEPT ![q] = rest]
  BY DEF ReceiveSize
<1>3. /\ rest \in Seq(Byte) /\ Len(rest) <= Capacity /\ pipe[q] \in Seq(Byte)
  <2>1. pipe[q] \in Seq(Byte) /\ Len(pipe[q]) <= Capacity /\ Len(pipe[q]) \in Nat
    BY <1>1 DEF PipeTypeOK
  <2>2. CASE Len(pipe[q]) = 0
    <3>1. rest = <<>>
      BY <2>1, <2>2, SubSeqEmpty
    <3>2. QED
      BY <2>1, <3>1, PipeAssumption
  <2>3. CASE Len(pipe[q]) > 0
    <3>1. 1 \in 0..Len(pipe[q])
      BY <2>1, <2>3
    <3>2. rest \in Seq(Byte) /\ Len(rest) = Len(pipe[q]) - 1
      BY <2>1, <3>1, Rest
    <3>3. QED
      BY <2>1, <3>2, PipeAssumption
  <2>4. QED
    BY <2>1, <2>2, <2>3
<1>4. PICK n \in SizesRead(p) : size' = [size EXCEPT ![p] = n]
  BY DEF ReceiveSize
<1>5. n \in 0..MaxSize
  <2>1. CASE Len(pipe[q]) > 0 /\ Head(pipe[q]).index = 0
    <3>1. Live
      BY <1>1, PastCreation DEF Creation
    <3>2. 1 \in 1..Len(pipe[q]) /\ Head(pipe[q]) = pipe[q][1]
      BY <1>3, <2>1
    <3>3. pipe[q][1].no \in Exports(q)
      BY <1>1, <3>1, <3>2 DEF PipeInv, BytesInv
    <3>4. script[q][pipe[q][1].no].size \in 0..MaxSize
      BY <1>1, <3>3, ScriptFacts DEF Exports
    <3>5. QED
      BY <1>4, <2>1, <3>2, <3>4 DEF SizesRead
  <2>2. CASE ~(Len(pipe[q]) > 0 /\ Head(pipe[q]).index = 0)
    BY <1>4, <2>2 DEF SizesRead
  <2>3. QED
    BY <2>1, <2>2
<1>6. /\ step'[p] = "read" /\ moved'[p] = 0 /\ size'[p] = n
      /\ step' \in [Partner -> PipeStep] /\ size' \in [Partner -> 0..MaxSize]
      /\ moved' \in [Partner -> 0..MaxSize]
  BY <1>1, <1>4, <1>5, PipeAssumption, SMTT(30) DEF PipeTypeOK, PipeStep
<1>7. /\ received'[p] = Append(received[p], <<>>) /\ received' \in [Partner -> Seq(Seq(Byte))]
      /\ Len(received'[p]) = done[p] + 1
  <2>1. /\ received \in [Partner -> Seq(Seq(Byte))] /\ received[p] \in Seq(Seq(Byte))
        /\ <<>> \in Seq(Byte) /\ Len(received[p]) = done[p]
    BY <1>1 DEF PipeTypeOK, PlaceInv
  <2>2. /\ Append(received[p], <<>>) \in Seq(Seq(Byte))
        /\ Len(Append(received[p], <<>>)) = Len(received[p]) + 1
    BY <2>1
  <2>3. QED
    BY <1>1, <2>1, <2>2
<1>8. /\ pipe' \in [Partner -> Seq(Byte)] /\ \A r \in Partner : Len(pipe'[r]) <= Capacity
  <2> HIDE DEF rest
  <2>1. QED
    BY <1>1, <1>2, <1>3 DEF PipeTypeOK
<1>9. PipeTypeOK'
  BY <1>1, <1>6, <1>7, <1>8 DEF PipeTypeOK
<1>10. PlaceInv(p)'
  <2>1. ~Disconnecting(p)' /\ Pending(p, "import")'
    BY <1>1 DEF Disconnecting, In, Pending, Current
  <2>2. step'[p] \in IF p = "primary" THEN PipeStep \ {"wait_fifo"} ELSE PipeStep \ Creation
    BY <1>6 DEF PipeStep, Creation
  <2>3. done'[p] <= Len(script'[p]) /\ moved'[p] <= size'[p] /\ call'[p] = 0
    BY <1>1, <1>5, <1>6 DEF PlaceInv
  <2>4. QED
    BY <1>1, <1>6, <1>7, <2>1, <2>2, <2>3 DEF PlaceInv, Exchanging
<1>11. QED
  BY <1>1, <1>2, <1>4, <1>6, <1>7, <1>9, <1>10

\* A chunk is read.
LEMMA ReadChunkPlace ==
    ASSUME PipeInv, NEW p \in Partner, Transfer(p), TypeOK', ReadChunk(p)
    PROVE  PipeTypeOK' /\ PlaceInv(p)'
<1> DEFINE q == Other(p)
<1>1. /\ PipeTypeOK /\ PlaceInv(p) /\ UNCHANGED <<pc, tag, script>>
      /\ step[p] = "read" /\ moved[p] < size[p] /\ moved[p] <= size[p]
      /\ UNCHANGED <<status, done, step, size, call>>
      /\ moved' = [moved EXCEPT ![p] = moved[p] + Chunk(p)] /\ q \in Partner
  BY TransferFrame, ReadFacts, OtherPartner DEF PipeInv, PlaceInv
<1>2. /\ done[p] < Len(script[p]) /\ Len(received[p]) = done[p] + 1 /\ done[p] \in Nat
      /\ Pending(p, "import")
  BY <1>1, ScriptFacts DEF PlaceInv, Pending
<1>3. /\ Chunk(p) \in Nat /\ Chunk(p) <= size[p] - moved[p] /\ moved[p] \in Nat
      /\ size[p] \in 0..MaxSize /\ MaxSize \in Nat
  BY <1>1, <1>2, ChunkFacts, PipeAssumption DEF PipeTypeOK
<1>4. PICK n \in 0..Len(pipe[q]), got \in Seq(Byte) :
         /\ pipe' = [pipe EXCEPT ![q] = SubSeq(pipe[q], n + 1, Len(pipe[q]))]
         /\ received' = [received EXCEPT ![p] =
               [received[p] EXCEPT ![done[p] + 1] = received[p][done[p] + 1] \o got]]
  BY ReadFacts, SMTT(30)
<1>5. /\ pipe' \in [Partner -> Seq(Byte)] /\ \A r \in Partner : Len(pipe'[r]) <= Capacity
  <2>1. /\ pipe \in [Partner -> Seq(Byte)] /\ pipe[q] \in Seq(Byte)
        /\ \A r \in Partner : Len(pipe[r]) <= Capacity
    BY <1>1 DEF PipeTypeOK
  <2> DEFINE rest == SubSeq(pipe[q], n + 1, Len(pipe[q]))
  <2>2. rest \in Seq(Byte) /\ Len(rest) = Len(pipe[q]) - n
    BY <2>1, Rest
  <2>3. Len(rest) <= Capacity
    BY <1>1, <2>1, <2>2, PipeAssumption
  <2>4. pipe' = [pipe EXCEPT ![q] = rest]
    BY <1>4
  <2> HIDE DEF rest
  <2>5. QED
    BY <1>1, <2>1, <2>2, <2>3, <2>4
<1>6. received' \in [Partner -> Seq(Seq(Byte))] /\ Len(received'[p]) = done[p] + 1
  <2> DEFINE k == done[p] + 1
             more == received[p][k] \o got
  <2>1. /\ received \in [Partner -> Seq(Seq(Byte))] /\ received[p] \in Seq(Seq(Byte))
        /\ k \in 1..Len(received[p]) /\ received[p][k] \in Seq(Byte)
    BY <1>1, <1>2, SMTT(30) DEF PipeTypeOK
  <2>2. more \in Seq(Byte)
    BY <2>1, ConcatProperties
  <2>3. received' = [received EXCEPT ![p] = [received[p] EXCEPT ![k] = more]]
    BY <1>4
  <2> HIDE DEF k, more
  <2>4. /\ [received[p] EXCEPT ![k] = more] \in Seq(Seq(Byte))
        /\ Len([received[p] EXCEPT ![k] = more]) = Len(received[p])
    BY <2>1, <2>2, ExceptSeq
  <2>5. QED
    BY <1>2, <2>1, <2>3, <2>4
<1>7. /\ moved' \in [Partner -> 0..MaxSize] /\ moved'[p] <= size[p]
  <2>1. moved[p] + Chunk(p) \in 0..MaxSize /\ moved[p] + Chunk(p) <= size[p]
    BY <1>1, <1>3
  <2>2. QED
    BY <1>1, <2>1 DEF PipeTypeOK
<1>8. PipeTypeOK'
  BY <1>1, <1>5, <1>6, <1>7 DEF PipeTypeOK
<1>9. PlaceInv(p)'
  <2>1. Pending(p, "import")' /\ call'[p] = 0
    BY <1>1, <1>2 DEF Pending, Current, PlaceInv
  <2>2. QED
    BY <1>1, <1>6, <1>7, <2>1 DEF PlaceInv, Disconnecting, In, FirstStep
<1>10. QED
  BY <1>8, <1>9

\* A byte of this session in the pipe of q.
GoodByte(q, b) ==
    /\ b.from = q /\ b.session = session[q]
    /\ b.no \in Exports(q) /\ b.index <= Total(q, b.no)

\* Only the bytes of a message come into a pipe.
LEMMA TransferBytes ==
    ASSUME PipeInv, NEW p \in Partner, Transfer(p), TypeOK'
    PROVE  BytesInv'
<1> SUFFICES ASSUME Live', NEW r \in Partner, NEW i \in 1..Len(pipe'[r])
             PROVE  GoodByte(r, pipe'[r][i])
  <2>1. UNCHANGED <<session, script>>
    BY TransferFrame DEF memory
  <2>2. QED
    BY <2>1 DEF BytesInv, GoodByte, Exports, Total, Bytes
<1> DEFINE q == Other(p)
<1>1. /\ PipeTypeOK /\ q \in Partner /\ pipe \in [Partner -> Seq(Byte)] /\ pipe[r] \in Seq(Byte)
      /\ Len(pipe[r]) \in Nat
  BY OtherPartner, SMTT(30) DEF PipeInv, PipeTypeOK
<1>2. ~MkFifo(p)
  BY MkFifoPhase
<1>3. \A j \in 1..Len(pipe[r]) : GoodByte(r, pipe[r][j])
  BY <1>2, TransferLive DEF PipeInv, BytesInv, GoodByte
<1>4. CASE pipe' = pipe
  BY <1>3, <1>4
<1>5. CASE SendSize(p) /\ pipe' # pipe
  <2>1. pipe' = [pipe EXCEPT ![p] = Append(pipe[p], Header(p))] /\ Pending(p, "export")
    BY <1>5, SendSizePlace DEF SendSize
  <2>2. CASE r # p
    BY <1>1, <1>3, <2>1, <2>2
  <2>3. CASE r = p
    <3>1. GoodByte(p, Header(p))
      <4>1. done[p] + 1 \in 1..Len(script[p]) /\ Total(p, done[p] + 1) \in Nat
        BY <1>1, <2>1, CurrentFacts, ScriptFacts DEF Pending
      <4>2. QED
        BY <2>1, <4>1 DEF GoodByte, Header, Exports, Pending, Current
    <3>2. pipe'[r] = Append(pipe[r], Header(p))
      BY <1>1, <2>1, <2>3
    <3>3. /\ Len(pipe'[r]) = Len(pipe[r]) + 1
          /\ pipe'[r][i] = IF i = Len(pipe[r]) + 1 THEN Header(p) ELSE pipe[r][i]
      BY <1>1, <3>2
    <3>4. QED
      BY <1>1, <1>3, <2>3, <3>1, <3>3
  <2>4. QED
    BY <2>2, <2>3
<1>6. CASE KernelWrite(p) /\ pipe' # pipe
  <2> DEFINE first == moved[p] * Current(p).width + Chunk(p) * Current(p).width - call[p]
  <2>1. HasReader(q)
    BY <1>6 DEF KernelWrite
  <2>2. PICK n \in 1..call[p], B \in Seq(Byte) :
           /\ Len(B) = n
           /\ \A j \in 1..n : B[j] = [from |-> p, session |-> session[p],
                                      no |-> done[p] + 1, index |-> first + j]
           /\ first + n <= Total(p, done[p] + 1)
           /\ pipe' = [pipe EXCEPT ![p] = pipe[p] \o B]
    BY <1>6, <2>1, KernelFacts
  <2>3. first \in Nat /\ Pending(p, "export") /\ n \in Nat
    BY <1>1, <1>6, <2>1, KernelFacts DEF PipeTypeOK
  <2> HIDE DEF first
  <2>4. CASE r # p
    BY <1>1, <1>3, <2>2, <2>4
  <2>5. CASE r = p
    <3>1. done[p] + 1 \in Exports(p) /\ Total(p, done[p] + 1) \in Nat
      BY <1>1, <2>3, CurrentFacts, ScriptFacts DEF Pending, Exports, Current
    <3>2. \A j \in 1..n : GoodByte(p, B[j])
      <4>1. \A j \in 1..n : first + j <= Total(p, done[p] + 1)
        BY <2>2, <2>3, <3>1
      <4>2. QED
        BY <2>2, <3>1, <4>1 DEF GoodByte
    <3>3. pipe'[r] = pipe[r] \o B
      BY <1>1, <2>2, <2>5
    <3>4. /\ Len(pipe'[r]) = Len(pipe[r]) + n
          /\ pipe'[r][i] = IF i <= Len(pipe[r]) THEN pipe[r][i] ELSE B[i - Len(pipe[r])]
      <4>1. /\ Len(pipe[r] \o B) = Len(pipe[r]) + Len(B)
            /\ \A j \in 1..(Len(pipe[r]) + Len(B)) : (pipe[r] \o B)[j] =
                  IF j <= Len(pipe[r]) THEN pipe[r][j] ELSE B[j - Len(pipe[r])]
        BY <1>1, ConcatProperties
      <4>2. QED
        BY <2>2, <3>3, <4>1
    <3>5. ~(i <= Len(pipe[r])) => i - Len(pipe[r]) \in 1..n
      BY <1>1, <2>3, <3>4
    <3>6. i <= Len(pipe[r]) => i \in 1..Len(pipe[r])
      BY <1>1
    <3>7. QED
      BY <1>3, <2>5, <3>2, <3>4, <3>5, <3>6
  <2>6. QED
    BY <2>4, <2>5
<1>7. CASE /\ pipe' # pipe
           /\ \E n \in 0..Len(pipe[q]) :
                 pipe' = [pipe EXCEPT ![q] = SubSeq(pipe[q], n + 1, Len(pipe[q]))]
  <2>1. PICK n \in 0..Len(pipe[q]) :
           pipe' = [pipe EXCEPT ![q] = SubSeq(pipe[q], n + 1, Len(pipe[q]))]
    BY <1>7
  <2>2. CASE r # q
    BY <1>1, <1>3, <2>1, <2>2
  <2>3. CASE r = q
    <3> DEFINE rest == SubSeq(pipe[r], n + 1, Len(pipe[r]))
    <3>1. pipe'[r] = rest
      BY <1>1, <2>1, <2>3
    <3>2. /\ Len(rest) = Len(pipe[r]) - n
          /\ \A j \in 1..(Len(pipe[r]) - n) : rest[j] = pipe[r][j + n]
      BY <1>1, <2>1, <2>3, Rest
    <3> HIDE DEF rest
    <3>3. i \in 1..(Len(pipe[r]) - n) /\ i + n \in 1..Len(pipe[r])
      BY <1>1, <2>1, <2>3, <3>1, <3>2
    <3>4. QED
      BY <1>3, <3>1, <3>2, <3>3
  <2>4. QED
    BY <2>2, <2>3
<1>8. CASE ReceiveSize(p)
  <2>1. /\ pipe' = [pipe EXCEPT ![q] = SubSeq(pipe[q], 2, Len(pipe[q]))]
        /\ pipe[q] \in Seq(Byte) /\ Len(pipe[q]) \in Nat
    BY <1>1, <1>8, ReceiveSizePlace
  <2>2. CASE Len(pipe[q]) = 0
    <3>1. pipe[q] = <<>> /\ SubSeq(pipe[q], 2, Len(pipe[q])) = <<>>
      BY <2>1, <2>2, SubSeqEmpty
    <3>2. pipe' = pipe
      BY <1>1, <2>1, <3>1
    <3>3. QED
      BY <1>4, <3>2
  <2>3. CASE Len(pipe[q]) > 0
    <3>1. 1 \in 0..Len(pipe[q]) /\ 1 + 1 = 2
      BY <2>1, <2>3
    <3>2. QED
      BY <1>4, <1>7, <2>1, <3>1
  <2>4. QED
    BY <2>1, <2>2, <2>3
<1>9. CASE ReadChunk(p)
  BY <1>4, <1>7, <1>9, ReadFacts
<1>10. QED
  BY <1>2, <1>4, <1>5, <1>6, <1>8, <1>9, MoveOnPlace, WriteChunkPlace, DonePlace
     DEF Transfer

\* What a partner has read is of this session or was never written.
LEMMA TransferStale ==
    ASSUME PipeInv, NEW p \in Partner, Transfer(p), TypeOK'
    PROVE  NoStaleBytes'
<1> DEFINE fresh(r, b) == b = Garbage \/ (b.from = Other(r) /\ b.session = session[r])
<1>1. session' = session /\ PipeTypeOK /\ Others(p)
  BY TransferFrame DEF PipeInv, memory
<1> SUFFICES ASSUME NEW r \in Partner, NEW n \in 1..Len(received'[r]),
                    NEW i \in 1..Len(received'[r][n])
             PROVE  fresh(r, received'[r][n][i])
  BY <1>1 DEF NoStaleBytes
<1>2. \A m \in 1..Len(received[r]) : \A j \in 1..Len(received[r][m]) : fresh(r, received[r][m][j])
  BY DEF PipeInv, NoStaleBytes
<1>3. CASE received'[r] = received[r]
  BY <1>2, <1>3
<1>4. CASE r = p /\ received'[p] = Append(received[p], <<>>)
  <2>1. received[p] \in Seq(Seq(Byte)) /\ Len(received[p]) \in Nat
    BY <1>1 DEF PipeTypeOK
  <2>2. /\ Len(received'[p]) = Len(received[p]) + 1
        /\ received'[p][n] = IF n = Len(received[p]) + 1 THEN <<>> ELSE received[p][n]
    BY <1>4, <2>1
  <2>3. n # Len(received[p]) + 1
    BY <1>4, <2>2
  <2>4. QED
    BY <1>2, <1>4, <2>1, <2>2, <2>3
<1>5. CASE r = p /\ ReadChunk(p)
  <2> DEFINE q == Other(p)
             k == done[p] + 1
             want == Chunk(p) * Current(p).width
  <2>1. PICK c \in 0..Len(pipe[q]) : \E got \in Seq(Byte) :
           /\ c <= want /\ (c < want => c = Len(pipe[q]))
           /\ pipe' = [pipe EXCEPT ![q] = SubSeq(pipe[q], c + 1, Len(pipe[q]))]
           /\ Len(got) = want
           /\ \A j \in 1..want : got[j] = IF j <= c THEN pipe[q][j] ELSE Garbage
           /\ received' = [received EXCEPT ![p] =
                 [received[p] EXCEPT ![k] = received[p][k] \o got]]
    BY <1>5, ReadFacts
  <2>2. PICK got \in Seq(Byte) :
           /\ Len(got) = want
           /\ \A j \in 1..want : got[j] = IF j <= c THEN pipe[q][j] ELSE Garbage
           /\ received' = [received EXCEPT ![p] =
                 [received[p] EXCEPT ![k] = received[p][k] \o got]]
    BY <2>1
  <2>3. step[p] = "read" /\ want \in Nat
    BY <1>5, ReadFacts
  <2>4. /\ received \in [Partner -> Seq(Seq(Byte))] /\ received[p] \in Seq(Seq(Byte))
        /\ k \in 1..Len(received[p]) /\ received[p][k] \in Seq(Byte)
        /\ q \in Partner /\ Len(pipe[q]) \in Nat
    <3>1. Len(received[p]) = k /\ done[p] \in Nat /\ q \in Partner
      BY <1>1, <2>3, ScriptFacts, OtherPartner DEF PipeInv, PlaceInv
    <3>2. received \in [Partner -> Seq(Seq(Byte))] /\ pipe \in [Partner -> Seq(Byte)]
      BY <1>1 DEF PipeTypeOK
    <3>3. k \in 1..Len(received[p])
      BY <3>1
    <3> HIDE DEF k
    <3>4. QED
      BY <3>1, <3>2, <3>3, SMTT(30)
  <2>5. \A j \in 1..want : fresh(p, got[j])
    <3>1. Live /\ session[q] = session[p]
      BY <1>5, <2>3, PastCreation, InSession, TransferFrame DEF At, Creation
    <3>2. \A j \in 1..Len(pipe[q]) : fresh(p, pipe[q][j])
      BY <2>4, <3>1 DEF PipeInv, BytesInv
    <3>3. \A j \in 1..want : j <= c => j \in 1..Len(pipe[q])
      BY <2>2, <2>3, <2>4
    <3> HIDE DEF want
    <3>4. QED
      BY <2>2, <3>2, <3>3
  <2> HIDE DEF want, k
  <2>6. /\ received'[p] = [received[p] EXCEPT ![k] = received[p][k] \o got]
        /\ Len(received'[p]) = Len(received[p])
        /\ received'[p][n] = IF n = k THEN received[p][k] \o got ELSE received[p][n]
    <3>1. received[p][k] \o got \in Seq(Byte)
      BY <2>4, ConcatProperties
    <3>2. received'[p] = [received[p] EXCEPT ![k] = received[p][k] \o got]
      BY <2>2, <2>4
    <3>3. QED
      BY <1>5, <2>4, <3>1, <3>2, ExceptSeq
  <2>7. CASE n # k
    BY <1>2, <1>5, <2>6, <2>7
  <2>8. CASE n = k
    <3>1. received'[p][n] = received[p][k] \o got
      BY <2>6, <2>8
    <3>2. /\ Len(received[p][k] \o got) = Len(received[p][k]) + want
          /\ \A j \in 1..(Len(received[p][k]) + want) : (received[p][k] \o got)[j] =
                IF j <= Len(received[p][k]) THEN received[p][k][j]
                ELSE got[j - Len(received[p][k])]
      BY <2>2, <2>4, ConcatProperties, ZenonT(40)
    <3>3. Len(received[p][k]) \in Nat /\ i \in 1..(Len(received[p][k]) + want)
      BY <1>5, <2>4, <3>1, <3>2
    <3>4. CASE i <= Len(received[p][k])
      BY <1>2, <1>5, <2>4, <3>1, <3>2, <3>3, <3>4
    <3>5. CASE ~(i <= Len(received[p][k]))
      <4>1. i - Len(received[p][k]) \in 1..want
        BY <2>3, <3>3, <3>5
      <4>2. QED
        BY <1>5, <2>5, <3>1, <3>2, <3>3, <3>5, <4>1
    <3>6. QED
      BY <3>4, <3>5
  <2>9. QED
    BY <2>7, <2>8
<1>6. QED
  <2>1. r # p => received'[r] = received[r]
    BY <1>1 DEF Others
  <2>2. \/ received' = received \/ received'[p] = Append(received[p], <<>>)
        \/ received'[p] = received[p] \/ ReadChunk(p)
    BY MoveOnPlace, SendSizePlace, WriteChunkPlace, KernelPlace, DonePlace, ReceiveSizePlace
       DEF Transfer
  <2>3. QED
    BY <1>3, <1>4, <1>5, <2>1, <2>2

\* The exchange keeps the first layer of the invariant.
LEMMA TransferStep ==
    ASSUME PipeInv, NEW p \in Partner, Transfer(p)
    PROVE  PipeInv'
<1>1. IInv' /\ run' = 1 /\ TypeOK'
  BY TransferLifeCycle DEF IInv
<1>2. PipeTypeOK' /\ PlaceInv(p)'
  BY <1>1, MoveOnPlace, SendSizePlace, WriteChunkPlace, KernelPlace, DonePlace,
     ReceiveSizePlace, ReadChunkPlace DEF Transfer
<1>3. ASSUME NEW r \in Partner, r # p PROVE PlaceInv(r)'
  BY <1>3, TransferFrame, PlaceFrame DEF PipeInv, Others
<1>4. FifoInv'
  <2>1. CASE MkFifo(p)
    BY <2>1, MkFifoPhase
  <2>2. CASE ~MkFifo(p)
    BY <2>2, TransferLive DEF FifoInv, PipeInv, Exists
  <2>3. QED
    BY <2>1, <2>2
<1>5. QED
  BY <1>1, <1>2, <1>3, <1>4, TransferBytes, TransferStale DEF PipeInv

-----------------------------------------------------------------------------
(* Connect and Disconnect keep the first layer of the invariant.            *)

\* The life cycle keeps its own invariant.
LEMMA OperationLifeCycle ==
    ASSUME PipeInv, NEW p \in Partner, Operation(p)
    PROVE  /\ IInv' /\ run' = 1 /\ ~Dirty'
           /\ \A f \in DataFile : ~Exists(f) => ~Exists(f)'
<1>1. IInv /\ TypeOK /\ Shape /\ ~Dirty /\ [Next]_vars
  BY DEF PipeInv, IInv, Dirty, Next
<1>2. TypeOK' /\ run' = run
  BY <1>1, TypeStep, Counts
<1>3. ~Dirty' /\ Shape' /\ CleanInv'
  BY <1>1, CleanStep
<1>4. QED
  BY <1>1, <1>2, <1>3, NoDataWritten DEF IInv, PipeInv

\* What a step inside Connect() or Disconnect() leaves alone.
LEMMA ProtocolFacts ==
    ASSUME IInv, NEW p \in Partner, Protocol(p)
    PROVE  /\ pc[p] # "connected" /\ UNCHANGED <<run, session>>
           /\ \A r \in Partner : r # p => pc'[r] = pc[r] /\ tag'[r] = tag[r]
           /\ tag' = tag \/ (tag[p] = "conn" /\ pc[p] = "gone" /\ tag'[p] = "handshake")
           /\ Disconnecting(p)' => Disconnecting(p)
           /\ tag[p] \notin SyncTag \/ p # "primary" =>
                 \A f \in DataFile : dir'[f] = dir[f]
           /\ Disconnecting(p) => \A f \in DataFile : dir'[f] = dir[f]
           /\ \A r \in Partner : status[r] # "crashed" => status'[r] # "crashed"
<1>1. /\ TypeOK /\ Shape /\ tag[p] \in Tag /\ pc[p] \in Step
      /\ tag \in [Partner -> Tag] /\ pc \in [Partner -> Step]
      /\ status \in [Partner -> {"running", "failed", "crashed"}]
  BY DEF IInv, TypeOK
<1> USE DEF Protocol, Open, Perms, Avail, Wait, RmAvail, Load, RmData, Gone, Check,
            RemoveEntry, RemoveFolder, CreateFolder, Goto, Throw, RemovePath,
            StartRemoveAll, memory, At
<1>2. pc[p] # "connected" /\ UNCHANGED <<run, session>>
  BY <1>1
<1>3. /\ \A r \in Partner : r # p => pc'[r] = pc[r] /\ tag'[r] = tag[r]
      /\ tag' = tag \/ (tag[p] = "conn" /\ pc[p] = "gone" /\ tag'[p] = "handshake")
  BY <1>1
<1>4. Disconnecting(p)' => Disconnecting(p)
  BY <1>1 DEF Disconnecting, In, Shape, FileStep, SyncTag
<1>5. pc[p] # "remove_all" => \A f \in DataFile : dir'[f] = dir[f]
  <2>1. \A k \in {"data", "avail"} : Mine(p, k) \in ProtocolFile /\ Theirs(p, k) \in ProtocolFile
    BY <1>1, OtherPartner, FileNames DEF Mine, Theirs
  <2>2. \A f \in DataFile : f \in File /\ f \notin ProtocolFile
    BY ConstantAssumption DEF File
  <2>3. dir \in [File -> Info \cup DataContent \cup {Absent}]
    BY <1>1 DEF TypeOK
  <2>4. QED
    BY <2>1, <2>2, <2>3 DEF Create
<1>6. pc[p] = "remove_all" => p = "primary" /\ tag[p] \in SyncTag /\ ~Disconnecting(p)
  BY <1>1 DEF Shape, Disconnecting, In, FileStep
<1>7. \A r \in Partner : status[r] # "crashed" => status'[r] # "crashed"
  BY <1>1
<1>8. QED
  BY <1>2, <1>3, <1>4, <1>5, <1>6, <1>7

\* When the primary leaves the first synchronisation the secondary has not yet
\* left the connection.
LEMMA NotDisconnecting ==
    ASSUME IInv, ~Dirty, In("primary", "conn", {"gone"})
    PROVE  ~Disconnecting("secondary")
<1>1. /\ "primary" \in Partner /\ "secondary" \in Partner /\ TypeOK /\ CleanInv
      /\ session["primary"] \in Nat /\ session["secondary"] \in Nat
      /\ Other("secondary") = "primary"
  BY OtherPartner DEF Partner, IInv, TypeOK
<1>2. SUFFICES ASSUME Disconnecting("secondary") PROVE FALSE
  OBVIOUS
<1>3. /\ SyncsLeft("primary") = 2 * session["primary"] - 2
      /\ SyncsLeft("secondary") = 2 * session["secondary"] - 1
      /\ ~In("secondary", "conn", {"gone"})
  BY <1>2 DEF SyncsLeft, Disconnecting, In
<1>4. SyncsLeft("secondary") = SyncsLeft("primary") + 1
  BY <1>1, <1>3 DEF CleanInv, SyncOrder, SyncTag
<1>5. Found("secondary") /\ ~Announced("primary")
  BY <1>2 DEF Found, Announced, Disconnecting, In
<1>6. SyncsLeft("primary") = SyncsLeft("secondary") + 1
  BY <1>1, <1>5 DEF CleanInv, HandshakeOrder
<1>7. QED
  BY <1>1, <1>3, <1>4, <1>6

\* Nothing comes into the pipes outside the exchange of data.
LEMMA BytesFrame ==
    ASSUME BytesInv, UNCHANGED <<pipe, script, session>>, Live' => Live
    PROVE  BytesInv'
<1> SUFFICES ASSUME Live', NEW r \in Partner, NEW i \in 1..Len(pipe[r])
             PROVE  GoodByte(r, pipe[r][i])
  BY DEF BytesInv, GoodByte, Exports, Total, Bytes
<1> QED
  BY DEF BytesInv, GoodByte

\* Nothing is read there either.
LEMMA StaleFrame ==
    ASSUME NoStaleBytes,
           \A r \in Partner :
              received'[r] = <<>> \/ (received'[r] = received[r] /\ session'[r] = session[r])
    PROVE  NoStaleBytes'
<1> DEFINE fresh(r, b) == b = Garbage \/ (b.from = Other(r) /\ b.session = session[r])
<1> SUFFICES ASSUME NEW r \in Partner, NEW n \in 1..Len(received'[r]),
                    NEW i \in 1..Len(received'[r][n]), session'[r] = session[r] \/ received'[r] = <<>>
             PROVE  session'[r] = session[r] /\ fresh(r, received'[r][n][i])
  BY DEF NoStaleBytes
<1>1. received'[r] = received[r] /\ session'[r] = session[r]
  OBVIOUS
<1>2. \A m \in 1..Len(received[r]) : \A j \in 1..Len(received[r][m]) : fresh(r, received[r][m][j])
  BY DEF NoStaleBytes
<1>3. QED
  BY <1>1, <1>2

\* A step inside Connect or Disconnect.
LEMMA ProtocolStep ==
    ASSUME CommInFolder, PipeInv, NEW p \in Partner, Protocol(p), UNCHANGED pipeVars
    PROVE  PipeInv' /\ (Live' => Live)
<1>1. /\ IInv /\ TypeOK /\ Shape /\ PipeTypeOK /\ ~Dirty
      /\ UNCHANGED <<script, done, step, pipe, size, moved, call, received>>
  BY DEF PipeInv, IInv, Dirty, pipeVars
<1>2. /\ IInv' /\ run' = 1 /\ TypeOK' /\ Shape'
      /\ \A f \in DataFile : ~Exists(f) => ~Exists(f)'
  BY OperationLifeCycle DEF Operation, IInv
<1>3. /\ pc[p] # "connected" /\ session' = session
      /\ \A r \in Partner : r # p => pc'[r] = pc[r] /\ tag'[r] = tag[r]
      /\ tag' = tag \/ (tag[p] = "conn" /\ pc[p] = "gone" /\ tag'[p] = "handshake")
      /\ \A r \in Partner : Disconnecting(r)' => Disconnecting(r)
      /\ tag[p] \notin SyncTag \/ p # "primary" => \A f \in DataFile : dir'[f] = dir[f]
      /\ Disconnecting(p) => \A f \in DataFile : dir'[f] = dir[f]
  <2>1. ASSUME NEW r \in Partner, r # p PROVE Disconnecting(r)' => Disconnecting(r)
    BY <1>1, <2>1, ProtocolFacts DEF Disconnecting, In
  <2>2. QED
    BY <1>1, <2>1, ProtocolFacts
<1>4. "primary" \in Partner /\ "secondary" \in Partner /\ p \in {"primary", "secondary"}
  BY DEF Partner
<1>5. PlaceInv(p)'
  <2>1. PlaceInv(p) /\ step[p] = FirstStep(p)
    BY <1>3 DEF PipeInv, PlaceInv
  <2>2. step[p] \notin {"write", "read", "half_closed"} /\ call[p] = 0
    BY <2>1 DEF FirstStep, PlaceInv
  <2>3. tag'[p] # "disconn" => tag[p] # "disconn"
    BY <1>3
  <2>4. QED
    BY <1>1, <1>3, <2>1, <2>2, <2>3 DEF PlaceInv, FirstStep
<1>6. ASSUME NEW r \in Partner, r # p PROVE PlaceInv(r)'
  BY <1>1, <1>3, <1>6, PlaceFrame DEF PipeInv
<1>7. Made' => Made
  <2>1. SUFFICES ASSUME tag'["primary"] = "handshake", step["primary"] \notin Creation
                 PROVE  tag["primary"] = "handshake"
    BY <1>1, <1>3, <1>4 DEF Made
  <2>2. pc["primary"] = "connected"
    BY <1>4, <2>1 DEF PipeInv, PlaceInv, FirstStep, Creation
  <2>3. QED
    BY <1>1, <1>4, <2>2 DEF Shape
<1>8. Made => \A f \in DataFile : dir'[f] = dir[f]
  BY <1>3, <1>4 DEF Made, SyncTag, Disconnecting, In
<1>9. FifoInv'
  <2>1. Made' => \A r \in Partner : Exists(FifoOf(r))'
    BY <1>7, <1>8, FifoNames DEF PipeInv, FifoInv, Exists
  <2>2. ASSUME Creating', Creating
        PROVE  /\ ~Exists(FifoOf("secondary"))' /\ step'["secondary"] = "wait_fifo"
               /\ ~Disconnecting("secondary")'
               /\ step'["primary"] = "mkfifo_write" => ~Exists(FifoOf("primary"))'
               /\ step'["primary"] = "mkfifo_read" =>
                     Exists(FifoOf("primary"))' /\ pipe'["primary"] = <<>>
    <3>1. tag["primary"] = "handshake" /\ FifoInv
      BY <2>2 DEF Creating, PipeInv
    <3>2. Exists(FifoOf("primary")) => Exists(FifoOf("primary"))'
      BY <1>3, <1>4, <3>1, FifoNames DEF Exists, SyncTag
    <3>3. QED
      BY <1>1, <1>2, <1>3, <1>4, <2>2, <3>1, <3>2, FifoNames DEF FifoInv
  <2>3. ASSUME Creating', ~Creating
        PROVE  /\ ~Exists(FifoOf("secondary"))' /\ step'["secondary"] = "wait_fifo"
               /\ ~Disconnecting("secondary")'
               /\ ~Exists(FifoOf("primary"))' /\ step'["primary"] = "mkfifo_write"
    <3>1. p = "primary" /\ tag[p] = "conn" /\ pc[p] = "gone"
      BY <1>1, <1>3, <1>4, <2>3 DEF Creating
    <3>2. \A f \in DataFile : ~Exists(f)
      BY <1>1, <3>1 DEF IInv, CleanInv, DataInv
    <3>3. ~Disconnecting("secondary")
      BY <1>1, <3>1, NotDisconnecting DEF In
    <3>4. step["primary"] = "mkfifo_write"
      BY <1>3, <3>1 DEF PipeInv, PlaceInv, FirstStep
    <3>5. step["secondary"] = "wait_fifo"
      <4>1. pc["secondary"] # "connected"
        BY <1>4, <3>1, InSession
      <4>2. QED
        BY <1>4, <4>1 DEF PipeInv, PlaceInv, FirstStep
    <3>6. QED
      BY <1>1, <1>2, <1>3, <1>4, <3>2, <3>3, <3>4, <3>5, FifoNames
  <2>4. QED
    BY <2>1, <2>2, <2>3 DEF FifoInv
<1>10. Live' => Live
  BY <1>3, <1>7 DEF Live
<1>11. BytesInv' /\ NoStaleBytes'
  BY <1>1, <1>3, <1>10, BytesFrame, StaleFrame DEF PipeInv
<1>12. PipeTypeOK'
  BY <1>1, <1>2 DEF PipeTypeOK
<1>13. QED
  BY <1>2, <1>5, <1>6, <1>9, <1>10, <1>11, <1>12 DEF PipeInv

\* Close() and Disconnect(): the pipes stay until both partners have left.
LEMMA PipeDisconnectStep ==
    ASSUME PipeInv, NEW p \in Partner, PipeDisconnect(p)
    PROVE  /\ PipeInv' /\ Live /\ Disconnecting(p)'
           /\ step'[p] = FirstStep(p) /\ step[p] = "half_closed"
           /\ UNCHANGED <<script, done, pipe, size, moved, call, received, session, status>>
           /\ \A r \in Partner : r # p => step'[r] = step[r] /\ pc'[r] = pc[r] /\ tag'[r] = tag[r]
<1>1. /\ IInv /\ TypeOK /\ PipeTypeOK /\ ~Dirty /\ PlaceInv(p)
      /\ pc[p] = "connected" /\ step[p] = "half_closed"
      /\ UNCHANGED <<script, done, pipe, size, moved, call, received>>
  BY DEF PipeInv, IInv, Dirty, PipeDisconnect, PipeAt, At
<1>2. /\ tag' = [tag EXCEPT ![p] = "disconn"] /\ pc' = [pc EXCEPT ![p] = SyncStart(p)]
      /\ step' = [step EXCEPT ![p] = FirstStep(p)]
      /\ session' = session /\ dir' = dir /\ status' = status
  BY DEF PipeDisconnect, Disconnect, Goto, PipeGoto, memory
<1>3. /\ tag'[p] = "disconn" /\ pc'[p] \in {"open", "wait"} /\ step'[p] = FirstStep(p)
      /\ \A r \in Partner : r # p => step'[r] = step[r] /\ pc'[r] = pc[r] /\ tag'[r] = tag[r]
  BY <1>1, <1>2 DEF TypeOK, PipeTypeOK, SyncStart
<1>4. IInv' /\ run' = 1 /\ TypeOK'
  BY OperationLifeCycle DEF Operation, PipeDisconnect, IInv
<1>5. Disconnecting(p)'
  BY <1>3 DEF Disconnecting, In, FileStep
<1>6. Live /\ \A r \in Partner : Exists(FifoOf(r))
  BY <1>1, PastCreation DEF Creation
<1>7. ~Creating'
  <2>1. CASE p = "primary"
    BY <1>3, <2>1 DEF Creating
  <2>2. CASE p = "secondary"
    <3>1. step'["primary"] = step["primary"] /\ tag'["primary"] = tag["primary"]
      BY <1>3, <2>2 DEF Partner
    <3>2. QED
      BY <1>6, <3>1 DEF Live, Made, Creating, Disconnecting, In
  <2>3. QED
    BY <2>1, <2>2 DEF Partner
<1>8. FifoInv'
  BY <1>2, <1>6, <1>7 DEF FifoInv, Exists
<1>9. PlaceInv(p)'
  <2>1. call[p] = 0 /\ done[p] = Len(script[p]) /\ Len(received[p]) = done[p]
    BY <1>1 DEF PlaceInv
  <2>2. step'[p] = IF p = "primary" THEN "mkfifo_write" ELSE "wait_fifo"
    BY <1>3 DEF FirstStep
  <2>3. done[p] \in Nat /\ moved[p] <= size[p]
    BY <1>1, ScriptFacts DEF PlaceInv
  <2>4. QED
    BY <1>1, <1>3, <2>1, <2>2, <2>3
       DEF PlaceInv, FirstStep, PipeStep, Creation, Exchanging
<1>10. ASSUME NEW r \in Partner, r # p PROVE PlaceInv(r)'
  BY <1>1, <1>3, <1>10, PlaceFrame DEF PipeInv
<1>11. BytesInv' /\ NoStaleBytes'
  BY <1>1, <1>2, <1>6, BytesFrame, StaleFrame DEF PipeInv
<1>12. PipeTypeOK'
  <2>1. step' \in [Partner -> PipeStep]
    BY <1>1, <1>2 DEF PipeTypeOK, FirstStep, PipeStep
  <2>2. QED
    BY <1>1, <1>4, <2>1 DEF PipeTypeOK
<1>13. QED
  BY <1>1, <1>2, <1>3, <1>4, <1>5, <1>6, <1>8, <1>9, <1>10, <1>11, <1>12 DEF PipeInv

\* Connect(): the next session has no pipes yet.
LEMMA PipeConnectStep ==
    ASSUME PipeInv, NEW p \in Partner, PipeConnect(p)
    PROVE  /\ PipeInv' /\ ~Live' /\ ~Disconnecting(p)'
           /\ step[p] = FirstStep(p) /\ call[p] = 0 /\ received'[p] = <<>>
           /\ UNCHANGED <<script, step, pipe, size, moved, call, status>>
           /\ \A r \in Partner : r # p =>
                 /\ done'[r] = done[r] /\ received'[r] = received[r] /\ session'[r] = session[r]
                 /\ pc'[r] = pc[r] /\ tag'[r] = tag[r]
<1>1. /\ IInv /\ TypeOK /\ PipeTypeOK /\ ~Dirty /\ PlaceInv(p) /\ pc[p] = "idle"
      /\ UNCHANGED <<script, step, pipe, size, moved, call, status, dir>>
  BY DEF PipeInv, IInv, Dirty, PipeConnect, Connect, At, StartRemoveAll, Goto
<1>2. /\ tag' = [tag EXCEPT ![p] = "conn"] /\ session' = [session EXCEPT ![p] = @ + 1]
      /\ pc' = [pc EXCEPT ![p] = IF p = "primary" /\ CommInFolder THEN "remove_all"
                                 ELSE SyncStart(p)]
      /\ done' = [done EXCEPT ![p] = 0] /\ received' = [received EXCEPT ![p] = <<>>]
  BY DEF PipeConnect, Connect, StartRemoveAll, Goto
<1>3. /\ tag'[p] = "conn" /\ session'[p] = session[p] + 1 /\ session[p] \in Nat
      /\ pc'[p] # "connected" /\ (p = "secondary" => pc'[p] = "wait")
      /\ done'[p] = 0 /\ received'[p] = <<>>
      /\ \A r \in Partner : r # p =>
            /\ pc'[r] = pc[r] /\ tag'[r] = tag[r] /\ session'[r] = session[r]
            /\ done'[r] = done[r] /\ received'[r] = received[r]
  BY <1>1, <1>2 DEF TypeOK, PipeTypeOK, SyncStart
<1>4. IInv' /\ run' = 1 /\ TypeOK' /\ ~Dirty'
  BY OperationLifeCycle DEF Operation, PipeConnect, IInv
<1>5. step[p] = FirstStep(p) /\ call[p] = 0
  <2>1. step[p] = FirstStep(p)
    BY <1>1 DEF PlaceInv
  <2>2. QED
    BY <1>1, <2>1 DEF PlaceInv, FirstStep
<1>6. "primary" \in Partner /\ "secondary" \in Partner /\ p \in {"primary", "secondary"}
  BY DEF Partner
<1>7. ~Live'
  <2>1. CASE p = "primary"
    BY <1>3, <2>1 DEF Live, Made, Disconnecting, In
  <2>2. CASE p = "secondary"
    <3>1. SUFFICES ASSUME Made', session'["primary"] = session'["secondary"] PROVE FALSE
      BY DEF Live
    <3>2. /\ SyncsLeft("primary")' = 2 * session'["primary"] - 1
          /\ SyncsLeft("secondary")' = 2 * session'["secondary"] - 2
      BY <1>3, <2>2, <3>1 DEF SyncsLeft, Made, Disconnecting, In
    <3>3. SyncsLeft("primary")' > SyncsLeft("secondary")' => pc'["secondary"] = "gone"
      BY <1>4, <1>6, OtherPartner DEF IInv, CleanInv, BarrierInv
    <3>4. QED
      BY <1>3, <2>2, <3>1, <3>2, <3>3
  <2>3. QED
    BY <1>6, <2>1, <2>2
<1>8. FifoInv'
  <2>1. CASE p = "primary"
    BY <1>3, <2>1 DEF FifoInv, Creating, Made, Disconnecting, In
  <2>2. CASE p = "secondary"
    <3>1. tag'["primary"] = tag["primary"] /\ pc'["primary"] = pc["primary"]
      BY <1>3, <1>6, <2>2
    <3>2. ~Disconnecting("secondary")' /\ FifoInv
      BY <1>3, <2>2 DEF Disconnecting, In, PipeInv
    <3>3. QED
      BY <1>1, <3>1, <3>2 DEF FifoInv, Creating, Made, Disconnecting, In, Exists
  <2>3. QED
    BY <1>6, <2>1, <2>2
<1>9. PlaceInv(p)'
  <2>1. step'[p] = IF p = "primary" THEN "mkfifo_write" ELSE "wait_fifo"
    BY <1>1, <1>5 DEF FirstStep
  <2>2. moved[p] <= size[p] /\ Len(script[p]) \in Nat /\ Len(<<>>) = 0
    BY <1>1, ScriptFacts DEF PlaceInv
  <2>3. ~Disconnecting(p)'
    BY <1>3 DEF Disconnecting, In
  <2>4. QED
    BY <1>1, <1>3, <1>5, <2>1, <2>2, <2>3
       DEF PlaceInv, FirstStep, PipeStep, Creation, Exchanging
<1>10. ASSUME NEW r \in Partner, r # p PROVE PlaceInv(r)'
  BY <1>1, <1>3, <1>10, PlaceFrame DEF PipeInv
<1>11. BytesInv' /\ NoStaleBytes'
  <2>1. \A r \in Partner :
           received'[r] = <<>> \/ (received'[r] = received[r] /\ session'[r] = session[r])
    BY <1>3
  <2>2. NoStaleBytes'
    BY <2>1, StaleFrame DEF PipeInv
  <2>3. BytesInv'
    BY <1>7 DEF BytesInv
  <2>4. QED
    BY <2>2, <2>3
<1>12. PipeTypeOK'
  <2>1. done' \in [Partner -> Nat] /\ received' \in [Partner -> Seq(Seq(Byte))]
    BY <1>1, <1>2 DEF PipeTypeOK
  <2>2. QED
    BY <1>1, <1>4, <2>1 DEF PipeTypeOK
<1>13. ~Disconnecting(p)'
  BY <1>3 DEF Disconnecting, In
<1>14. QED
  BY <1>1, <1>3, <1>4, <1>5, <1>7, <1>8, <1>9, <1>10, <1>11, <1>12, <1>13 DEF PipeInv

\* The programs begin with no pipes.
LEMMA PipeInitInv ==
    ASSUME PipeInit
    PROVE  PipeInv /\ ~Live /\ \A p \in Partner : step[p] = FirstStep(p)
<1>1. /\ Init /\ script \in PipeScripts
      /\ \A p \in Partner : /\ done[p] = 0 /\ step[p] = FirstStep(p) /\ pipe[p] = <<>>
                            /\ size[p] = 0 /\ moved[p] = 0 /\ call[p] = 0 /\ received[p] = <<>>
      /\ \A p \in Partner : tag[p] = "disconn" /\ pc[p] = "idle"
  BY DEF PipeInit, Init
<1>2. IInv /\ run = 1 /\ TypeOK
  <2>1. TypeOK
    BY <1>1, ConstantAssumption DEF Init, TypeOK, Partner, Tag, SyncTag, Step, File
  <2>2. QED
    BY <1>1, <2>1, InitInv DEF Init, IInv
<1>3. PipeTypeOK
  <2>1. 0 \in 0..MaxSize /\ Capacity \in Nat /\ Len(<<>>) = 0
    BY PipeAssumption
  <2>2. step \in [Partner -> PipeStep]
    BY DEF PipeInit, FirstStep, PipeStep
  <2>3. /\ pipe \in [Partner -> Seq(Byte)] /\ received \in [Partner -> Seq(Seq(Byte))]
        /\ done \in [Partner -> Nat] /\ call \in [Partner -> Nat]
    BY DEF PipeInit
  <2>4. size \in [Partner -> 0..MaxSize] /\ moved \in [Partner -> 0..MaxSize]
    BY <2>1 DEF PipeInit
  <2>5. QED
    BY <1>1, <1>2, <2>1, <2>2, <2>3, <2>4 DEF PipeTypeOK
<1>4. "primary" \in Partner /\ ~Creating /\ ~Made /\ ~Live
  <2>1. "primary" \in Partner
    BY DEF Partner
  <2>2. QED
    BY <1>1, <2>1 DEF Creating, Made, Live, Disconnecting, In, FileStep
<1>5. ASSUME NEW p \in Partner PROVE PlaceInv(p)
  <2>1. step[p] = IF p = "primary" THEN "mkfifo_write" ELSE "wait_fifo"
    BY <1>1 DEF FirstStep
  <2>2. ~Disconnecting(p) /\ Len(received[p]) = 0 /\ Len(script[p]) \in Nat
    BY <1>1, <1>3, ScriptFacts DEF Disconnecting, In, FileStep
  <2>3. QED
    BY <1>1, <2>1, <2>2 DEF PlaceInv, FirstStep, PipeStep, Creation, Exchanging
<1>6. NoStaleBytes
  BY <1>1 DEF NoStaleBytes
<1>7. QED
  BY <1>1, <1>2, <1>3, <1>4, <1>5, <1>6 DEF PipeInv, FifoInv, BytesInv

\* Every step keeps the first layer of the invariant.
LEMMA PipeInvStep ==
    ASSUME CommInFolder, PipeInv, [PipeNext]_allVars
    PROVE  PipeInv'
<1>1. CASE \E p \in Partner : PipeOp(p)
  BY <1>1, TransferStep, PipeConnectStep, PipeDisconnectStep, ProtocolStep DEF PipeOp
<1>2. CASE UNCHANGED allVars
  <2>1. UNCHANGED <<run, status, pc, tag, session, setting, trace, partnerInfo, folder, dir, listing>>
    BY <1>2 DEF allVars, vars
  <2>2. UNCHANGED <<script, done, step, pipe, size, moved, call, received>>
    BY <1>2 DEF allVars, pipeVars
  <2>3. Creating' = Creating /\ Made' = Made /\ Live' = Live
    BY <2>1, <2>2 DEF Creating, Made, Live, Disconnecting, In
  <2>4. IInv' /\ run' = 1
    <3>1. ~Dirty /\ DataInv' /\ IInv /\ TypeOK'
      BY <2>1 DEF PipeInv, IInv, Dirty, CleanInv, DataInv, Exists, TypeOK
    <3>2. ~Dirty' /\ Shape' /\ CleanInv'
      BY <2>1, <3>1, StatusFrame DEF memory
    <3>3. QED
      BY <2>1, <3>1, <3>2 DEF IInv, PipeInv
  <2>5. FifoInv' /\ PipeTypeOK'
    BY <2>1, <2>2, <2>3, <2>4 DEF PipeInv, FifoInv, PipeTypeOK, Exists, Disconnecting, In, IInv
  <2>6. \A p \in Partner : PlaceInv(p)'
    BY <2>1, <2>2, PlaceFrame DEF PipeInv
  <2>7. BytesInv' /\ NoStaleBytes'
    BY <2>1, <2>2, <2>3, BytesFrame, StaleFrame DEF PipeInv
  <2>8. QED
    BY <2>4, <2>5, <2>6, <2>7 DEF PipeInv
<1>3. QED
  BY <1>1, <1>2 DEF PipeNext, Terminated, allVars

\* The first layer of the invariant holds when the pipes are in the folder that the
\* primary removes.
THEOREM PipeInductive ==
    ASSUME CommInFolder
    PROVE  PipeSpec => []PipeInv
<1>1. PipeInit => PipeInv
  BY PipeInitInv
<1>2. PipeInv /\ [PipeNext]_allVars => PipeInv'
  BY PipeInvStep
<1>3. QED
  BY <1>1, <1>2, PTL DEF PipeSpec

\* Every variable has its type and a pipe never holds more than its capacity,
\* whatever the two programs write and read and however write() is split.
THEOREM PipeTypeCorrect ==
    ASSUME CommInFolder
    PROVE  PipeSpec => []PipeTypeOK
<1>1. PipeInv => PipeTypeOK
  BY DEF PipeInv
<1>2. QED
  BY <1>1, PipeInductive, PTL

\* Read() never returns bytes of an earlier session, or of the reader itself, also
\* to programs that do not fit together: Disconnect() throws away what was not read.
THEOREM NoStaleBytesAlways ==
    ASSUME CommInFolder
    PROVE  PipeSpec => []NoStaleBytes
<1>1. PipeInv => NoStaleBytes
  BY DEF PipeInv
<1>2. QED
  BY <1>1, PipeInductive, PTL

-----------------------------------------------------------------------------
(* Lemmas about the messages of a program and the bytes in a pipe.          *)

\* Counting the exports or imports of a program.
LEMMA NthFacts ==
    ASSUME NEW ops \in Seq(PipeOperation), NEW op
    PROVE  /\ \A n \in Nat : Nth(ops, op, n) \in Nat
           /\ Nth(ops, op, 0) = 0
           /\ \A n \in Nat : n < Len(ops) =>
                 Nth(ops, op, n + 1) =
                     IF ops[n + 1].op = op THEN Nth(ops, op, n) + 1 ELSE Nth(ops, op, n)
           /\ \A m, n \in Nat : m <= n => Nth(ops, op, m) <= Nth(ops, op, n)
           /\ \A m, n \in Nat : m < n /\ n <= Len(ops) /\ ops[n].op = op =>
                 Nth(ops, op, m) < Nth(ops, op, n)
<1> DEFINE upTo(n) == {j \in 1..Len(ops) : ops[j].op = op /\ j <= n}
<1>1. Len(ops) \in Nat /\ IsFiniteSet(1..Len(ops))
  BY FS_Interval
<1>2. ASSUME NEW n \in Nat
      PROVE  /\ IsFiniteSet(upTo(n)) /\ Cardinality(upTo(n)) \in Nat
             /\ Nth(ops, op, n) = Cardinality(upTo(n))
  <2>1. upTo(n) \subseteq 1..Len(ops)
    OBVIOUS
  <2>2. IsFiniteSet(upTo(n))
    BY <1>1, <2>1, FS_Subset
  <2>3. QED
    BY <2>2, FS_CardinalityType DEF Nth
<1>3. Nth(ops, op, 0) = 0
  <2>1. upTo(0) = {}
    BY <1>1
  <2>2. QED
    BY <1>2, <2>1, FS_EmptySet
<1>4. ASSUME NEW m \in Nat, NEW n \in Nat, m <= n PROVE Nth(ops, op, m) <= Nth(ops, op, n)
  <2>1. upTo(m) \subseteq upTo(n)
    BY <1>1, <1>4
  <2>2. Cardinality(upTo(m)) <= Cardinality(upTo(n))
    BY <1>2, <2>1, FS_Subset
  <2>3. QED
    BY <1>2, <2>2
<1>5. ASSUME NEW n \in Nat, n < Len(ops)
      PROVE  Nth(ops, op, n + 1) =
                 IF ops[n + 1].op = op THEN Nth(ops, op, n) + 1 ELSE Nth(ops, op, n)
  <2>1. CASE ops[n + 1].op = op
    <3>1. upTo(n + 1) = upTo(n) \cup {n + 1} /\ n + 1 \notin upTo(n)
      BY <1>1, <1>5, <2>1
    <3>2. Cardinality(upTo(n + 1)) = Cardinality(upTo(n)) + 1
      BY <1>2, <3>1, FS_AddElement
    <3>3. Nth(ops, op, n + 1) = Cardinality(upTo(n + 1)) /\ Nth(ops, op, n) = Cardinality(upTo(n))
      BY DEF Nth
    <3>4. QED
      BY <2>1, <3>2, <3>3
  <2>2. CASE ops[n + 1].op # op
    <3>1. upTo(n + 1) = upTo(n)
      BY <1>1, <1>5, <2>2
    <3>2. Nth(ops, op, n + 1) = Cardinality(upTo(n + 1)) /\ Nth(ops, op, n) = Cardinality(upTo(n))
      BY DEF Nth
    <3>3. QED
      BY <2>2, <3>1, <3>2
  <2>3. QED
    BY <2>1, <2>2
<1>6. ASSUME NEW m \in Nat, NEW n \in Nat, m < n, n <= Len(ops), ops[n].op = op
      PROVE  Nth(ops, op, m) < Nth(ops, op, n)
  <2>1. n - 1 \in Nat /\ n - 1 < Len(ops) /\ m <= n - 1 /\ (n - 1) + 1 = n
    BY <1>1, <1>6
  <2>2. Nth(ops, op, n) = Nth(ops, op, n - 1) + 1
    BY <1>5, <1>6, <2>1
  <2>3. Nth(ops, op, m) <= Nth(ops, op, n - 1)
    BY <1>4, <2>1
  <2>4. Nth(ops, op, m) \in Nat /\ Nth(ops, op, n - 1) \in Nat
    <3>1. /\ Nth(ops, op, m) = Cardinality(upTo(m))
          /\ Nth(ops, op, n - 1) = Cardinality(upTo(n - 1))
      BY DEF Nth
    <3> HIDE DEF upTo
    <3>2. QED
      BY <1>2, <2>1, <3>1
  <2>5. QED
    BY <2>2, <2>3, <2>4
<1>7. QED
  BY <1>2, <1>3, <1>4, <1>5, <1>6

\* An export has its number for itself.
LEMMA NthInjective ==
    ASSUME NEW ops \in Seq(PipeOperation), NEW op,
           NEW m \in 1..Len(ops), NEW n \in 1..Len(ops), ops[m].op = op, ops[n].op = op,
           Nth(ops, op, m) = Nth(ops, op, n)
    PROVE  m = n
<1>1. m \in Nat /\ n \in Nat /\ m <= Len(ops) /\ n <= Len(ops)
  OBVIOUS
<1>2. /\ \A k \in Nat : Nth(ops, op, k) \in Nat
      /\ \A j, k \in Nat : j < k /\ k <= Len(ops) /\ ops[k].op = op =>
            Nth(ops, op, j) < Nth(ops, op, k)
  BY NthFacts
<1>3. m < n => Nth(ops, op, m) < Nth(ops, op, n)
  BY <1>1, <1>2
<1>4. n < m => Nth(ops, op, n) < Nth(ops, op, m)
  BY <1>1, <1>2
<1>5. ~(Nth(ops, op, m) < Nth(ops, op, n)) /\ ~(Nth(ops, op, n) < Nth(ops, op, m))
  <2>1. Nth(ops, op, m) \in Nat /\ Nth(ops, op, n) \in Nat
    BY <1>1, <1>2
  <2>2. QED
    BY <2>1
<1>6. QED
  BY <1>1, <1>3, <1>4, <1>5

\* The bytes that a program writes.
Written(ops, b) ==
    /\ b \in Byte /\ b.no \in 1..Len(ops) /\ ops[b.no].op = "export"
    /\ b.index <= Bytes(ops, b.no)

\* write() puts the bytes that come next behind the ones in the pipe.
LEMMA StreamWrite ==
    ASSUME NEW ops \in Seq(PipeOperation), NEW B \in Seq(Byte), NEW C \in Seq(Byte),
           NEW rm, NEW ri, NEW wm, NEW wi \in Nat, NEW m, NEW i, NEW d \in Nat,
           Stream(ops, B, rm, ri, wm, wi),
           \A j \in 1..Len(B) : Written(ops, B[j]),
           Len(C) > 0,
           \A j \in 1..Len(C) :
              Written(ops, C[j]) /\ C[j].no = d /\ C[j].index = wi + (j - 1),
           Nth(ops, "export", d) = wm,
           After(ops, C[Len(C)], m, i)
    PROVE  Stream(ops, B \o C, rm, ri, m, i)
<1> DEFINE D == B \o C
           l == Len(B)
           n == Len(C)
<1>1. l \in Nat /\ n \in Nat /\ n > 0
  OBVIOUS
<1>2. /\ D \in Seq(Byte) /\ Len(D) = l + n
      /\ \A j \in 1..l : D[j] = B[j]
      /\ \A j \in 1..n : D[l + j] = C[j]
  <2>1. /\ D \in Seq(Byte) /\ Len(D) = Len(B) + Len(C)
        /\ \A j \in 1..(Len(B) + Len(C)) : D[j] = IF j <= Len(B) THEN B[j] ELSE C[j - Len(B)]
    BY ConcatProperties
  <2>2. \A j \in 1..l : j \in 1..(l + n) /\ j <= l
    BY <1>1
  <2>3. \A j \in 1..n : l + j \in 1..(l + n) /\ ~(l + j <= l) /\ (l + j) - l = j
    BY <1>1
  <2> HIDE DEF D
  <2>4. QED
    BY <2>1, <2>2, <2>3
<1>3. /\ \A j \in 1..l : B[j].index \in Nat /\ Bytes(ops, B[j].no) \in Nat
      /\ \A j \in 1..n : C[j].index \in Nat /\ Bytes(ops, C[j].no) \in Nat
  <2>1. \A k \in 1..Len(ops) : ops[k].size \in Nat /\ ops[k].width \in Nat
    <3>1. \A k \in 1..Len(ops) : ops[k] \in PipeOperation
      OBVIOUS
    <3>2. QED
      BY <3>1, PipeAssumption DEF PipeOperation
  <2>2. \A k \in 1..Len(ops) : Bytes(ops, k) \in Nat
    BY <2>1, Product DEF Bytes
  <2>3. QED
    BY <2>2 DEF Written, Byte
<1>4. D # <<>> /\ D[Len(D)] = C[n] /\ D[l + 1] = C[1]
  BY <1>1, <1>2
<1>5. l = 0 \/ (l > 0 /\ B # <<>>)
  BY <1>1
<1>6. Number(ops, D[1]) = rm /\ D[1].index = ri
  <2>1. CASE l = 0
    <3>1. B = <<>> /\ 1 \in 1..n
      BY <1>1, <2>1
    <3>2. D[1] = C[1]
      BY <1>4, <2>1
    <3>3. rm = wm /\ ri = wi /\ C[1].no = d /\ C[1].index = wi + (1 - 1)
      BY <3>1 DEF Stream
    <3>4. QED
      BY <3>2, <3>3 DEF Number
  <2>2. CASE l > 0
    <3>1. D[1] = B[1]
      BY <1>1, <1>2, <2>2
    <3>2. QED
      BY <1>1, <1>5, <2>2, <3>1 DEF Stream
  <2>3. QED
    BY <1>5, <2>1, <2>2
<1>7. l > 0 => After(ops, B[l], wm, wi)
  BY <1>1, <1>5 DEF Stream
<1>8. ASSUME l > 0, B[l].index < Bytes(ops, B[l].no)
      PROVE  d = B[l].no /\ wi = B[l].index + 1
  <2>1. wm = Number(ops, B[l]) /\ wi = B[l].index + 1
    BY <1>7, <1>8 DEF After
  <2>2. Written(ops, B[l]) /\ Written(ops, C[1]) /\ C[1].no = d
    BY <1>1, <1>8
  <2>3. /\ B[l].no \in 1..Len(ops) /\ ops[B[l].no].op = "export"
        /\ d \in 1..Len(ops) /\ ops[d].op = "export"
        /\ Nth(ops, "export", d) = Nth(ops, "export", B[l].no)
    BY <2>1, <2>2 DEF Written, Number
  <2>4. d = B[l].no
    BY <2>3, NthInjective
  <2>5. QED
    BY <2>1, <2>4
<1>9. ASSUME l > 0, ~(B[l].index < Bytes(ops, B[l].no))
      PROVE  wm = Number(ops, B[l]) + 1 /\ wi = 0
  BY <1>7, <1>9 DEF After
<1>10. \A h, j \in 1..l :
          h <= j /\ B[h].index + (j - h) <= Bytes(ops, B[h].no) =>
              B[j].no = B[h].no /\ B[j].index = B[h].index + (j - h)
  BY DEF Stream
<1>11. \A j \in 1..(l - 1) : B[j].index >= Bytes(ops, B[j].no) =>
              B[j + 1].index = 0 /\ Number(ops, B[j + 1]) = Number(ops, B[j]) + 1
  BY DEF Stream
<1>12. \A j \in 1..(l + n) : j \in 1..l \/ (j - l \in 1..n /\ l + (j - l) = j)
  BY <1>1
<1>13. After(ops, D[Len(D)], m, i)
  BY <1>4
<1> HIDE DEF D, l, n
<1>14. ASSUME NEW h \in 1..Len(D), NEW j \in 1..Len(D), h <= j,
              D[h].index + (j - h) <= Bytes(ops, D[h].no)
       PROVE  D[j].no = D[h].no /\ D[j].index = D[h].index + (j - h)
  <2>1. CASE j \in 1..l
    <3>1. h \in 1..l
      BY <1>1, <1>2, <1>14, <2>1
    <3>2. QED
      BY <1>2, <1>10, <1>14, <2>1, <3>1, SMTT(30)
  <2>2. CASE j - l \in 1..n /\ h - l \in 1..n
    <3>1. D[j] = C[j - l] /\ D[h] = C[h - l]
      <4>1. l + (j - l) = j /\ l + (h - l) = h
        BY <1>1, <1>2
      <4>2. QED
        BY <1>2, <2>2, <4>1
    <3>2. /\ C[j - l].no = d /\ C[j - l].index = wi + ((j - l) - 1)
          /\ C[h - l].no = d /\ C[h - l].index = wi + ((h - l) - 1)
      BY <2>2 DEF n
    <3>3. QED
      BY <1>1, <1>2, <3>1, <3>2
  <2>3. CASE j - l \in 1..n /\ h \in 1..l
    <3>1. h \in Int /\ j \in Int
      BY <1>1, <1>2
    <3>2. l > 0 /\ l \in 1..l /\ h <= l /\ l - h < j - h /\ l + (j - l) = j
      BY <1>1, <2>3, <3>1
    <3>3. D[h] = B[h] /\ D[j] = C[j - l]
      BY <1>2, <2>3, <3>2
    <3>4. B[h].index \in Nat /\ Bytes(ops, B[h].no) \in Nat
      BY <1>3, <2>3
    <3>5. B[h].index + (l - h) < Bytes(ops, B[h].no)
      <4> DEFINE x == B[h].index
                 y == Bytes(ops, B[h].no)
      <4> HIDE DEF x, y
      <4>1. x \in Nat /\ y \in Nat /\ x + (j - h) <= y
        BY <1>14, <3>3, <3>4 DEF x, y
      <4>2. x + (l - h) < y
        BY <1>1, <3>1, <3>2, <4>1
      <4>3. QED
        BY <4>2 DEF x, y
    <3>6. B[l].no = B[h].no /\ B[l].index = B[h].index + (l - h)
      <4>1. B[h].index + (l - h) <= Bytes(ops, B[h].no)
        <5> DEFINE x == B[h].index
                   y == Bytes(ops, B[h].no)
        <5> HIDE DEF x, y
        <5>1. x \in Nat /\ y \in Nat /\ x + (l - h) < y
          BY <3>4, <3>5 DEF x, y
        <5>2. x + (l - h) <= y
          BY <1>1, <3>1, <5>1
        <5>3. QED
          BY <5>2 DEF x, y
      <4>2. QED
        BY <1>10, <2>3, <3>2, <4>1
    <3>7. d = B[l].no /\ wi = B[l].index + 1
      BY <1>8, <3>2, <3>5, <3>6
    <3>8. C[j - l].no = d /\ C[j - l].index = wi + ((j - l) - 1)
      BY <2>3 DEF n
    <3>9. D[j].index = ((B[h].index + (l - h)) + 1) + ((j - l) - 1)
      BY <3>3, <3>6, <3>7, <3>8
    <3>10. D[j].index = B[h].index + (j - h)
      <4> DEFINE x == B[h].index
                 y == D[j].index
      <4>1. x \in Nat /\ y = ((x + (l - h)) + 1) + ((j - l) - 1)
        BY <3>4, <3>9
      <4> HIDE DEF x, y
      <4>2. y = x + (j - h)
        BY <1>1, <3>1, <4>1
      <4>3. QED
        BY <4>2 DEF x, y
    <3>11. QED
      BY <3>3, <3>6, <3>7, <3>8, <3>10
  <2>4. QED
    <3>1. h - l \in 1..n => ~(j \in 1..l)
      BY <1>1, <1>2, <1>14
    <3>2. QED
      BY <1>2, <1>12, <2>1, <2>2, <2>3, <3>1
<1>15. ASSUME NEW j \in 1..(Len(D) - 1), D[j].index >= Bytes(ops, D[j].no)
       PROVE  D[j + 1].index = 0 /\ Number(ops, D[j + 1]) = Number(ops, D[j]) + 1
  <2>1. CASE j \in 1..(l - 1)
    <3>1. j \in 1..l /\ j + 1 \in 1..l
      BY <1>1, <2>1
    <3>2. D[j] = B[j] /\ D[j + 1] = B[j + 1]
      BY <1>2, <3>1
    <3>3. QED
      BY <1>11, <1>15, <2>1, <3>2
  <2>2. CASE j = l
    <3>1. l > 0 /\ l \in 1..l /\ 1 \in 1..n
      BY <1>1, <1>2, <2>2
    <3>2. D[j] = B[l] /\ D[j + 1] = C[1]
      BY <1>2, <1>4, <2>2, <3>1
    <3>3. ~(B[l].index < Bytes(ops, B[l].no))
      <4>1. B[l].index \in Nat /\ Bytes(ops, B[l].no) \in Nat
        BY <1>3, <3>1
      <4>2. QED
        BY <1>15, <3>2, <4>1
    <3>4. wm = Number(ops, B[l]) + 1 /\ wi = 0
      BY <1>9, <3>1, <3>3
    <3>5. C[1].no = d /\ C[1].index = wi + (1 - 1)
      BY <3>1 DEF n
    <3>6. QED
      BY <3>2, <3>4, <3>5 DEF Number
  <2>3. CASE j - l \in 1..n /\ j # l + n
    <3>1. /\ j - l \in Nat /\ j - l < n /\ n \in 1..n /\ l + (j - l) = j
      BY <1>1, <1>2, <2>3
    <3>2. D[j] = C[j - l]
      BY <1>2, <2>3, <3>1
    <3>3. /\ C[j - l].no = d /\ C[j - l].index = wi + ((j - l) - 1)
          /\ C[n].no = d /\ C[n].index = wi + (n - 1) /\ C[n].index <= Bytes(ops, d)
      BY <2>3, <3>1 DEF n, Written
    <3>4. Bytes(ops, d) \in Nat
      BY <1>3, <3>1, <3>3
    <3>5. wi + ((j - l) - 1) >= Bytes(ops, d) /\ wi + (n - 1) <= Bytes(ops, d)
      BY <1>15, <3>2, <3>3
    <3>6. FALSE
      <4> DEFINE k == j - l
      <4>1. k \in Nat /\ k < n
        BY <3>1
      <4>2. wi + (k - 1) >= Bytes(ops, d)
        BY <3>5
      <4> HIDE DEF k
      <4>3. QED
        BY <1>1, <3>4, <3>5, <4>1, <4>2
    <3>7. QED
      BY <3>6
  <2>4. QED
    <3>1. j \in 1..(l + n) /\ j # l + n
      BY <1>1, <1>2
    <3>2. j \in 1..l => j = l \/ j \in 1..(l - 1)
      BY <1>1
    <3>3. QED
      BY <1>12, <2>1, <2>2, <2>3, <3>1, <3>2
<1>16. QED
  <2>1. Stream(ops, D, rm, ri, m, i)
    BY <1>4, <1>6, <1>13, <1>14, <1>15 DEF Stream
  <2>2. QED
    BY <2>1 DEF D

\* read() takes bytes of one message from the front of the pipe.
LEMMA StreamRead ==
    ASSUME NEW ops \in Seq(PipeOperation), NEW B \in Seq(Byte), NEW n \in 1..Len(B),
           NEW rm, NEW ri, NEW wm, NEW wi, NEW m, NEW i,
           Stream(ops, B, rm, ri, wm, wi),
           \A j \in 1..Len(B) : Written(ops, B[j]),
           ri + (n - 1) <= Bytes(ops, B[1].no),
           IF ri + n <= Bytes(ops, B[1].no) THEN m = rm /\ i = ri + n ELSE m = rm + 1 /\ i = 0
    PROVE  /\ Stream(ops, SubSeq(B, n + 1, Len(B)), m, i, wm, wi)
           /\ \A j \in 1..n : B[j].no = B[1].no /\ B[j].index = ri + (j - 1)
<1> DEFINE R == SubSeq(B, n + 1, Len(B))
           l == Len(B)
           T == Bytes(ops, B[1].no)
<1>1. l \in Nat /\ n \in Nat /\ n > 0 /\ n <= l /\ 1 \in 1..l /\ n \in 1..l /\ B # <<>>
  OBVIOUS
<1>2. /\ R \in Seq(Byte) /\ Len(R) = l - n
      /\ \A j \in 1..(l - n) : R[j] = B[j + n]
  BY <1>1, Rest
<1>3. /\ \A j \in 1..l : B[j].index \in Nat /\ Bytes(ops, B[j].no) \in Nat
      /\ \A j \in 1..l : B[j].index <= Bytes(ops, B[j].no)
  <2>1. \A k \in 1..Len(ops) : ops[k].size \in Nat /\ ops[k].width \in Nat
    <3>1. \A k \in 1..Len(ops) : ops[k] \in PipeOperation
      OBVIOUS
    <3>2. QED
      BY <3>1, PipeAssumption DEF PipeOperation
  <2>2. \A k \in 1..Len(ops) : Bytes(ops, k) \in Nat
    BY <2>1, Product DEF Bytes
  <2>3. QED
    BY <2>2 DEF Written, Byte
<1>4. B[1].index = ri /\ Number(ops, B[1]) = rm /\ ri \in Nat /\ T \in Nat
  BY <1>1, <1>3 DEF Stream
<1>5. \A h, j \in 1..l :
          h <= j /\ B[h].index + (j - h) <= Bytes(ops, B[h].no) =>
              B[j].no = B[h].no /\ B[j].index = B[h].index + (j - h)
  BY DEF Stream
<1>6. \A j \in 1..(l - 1) : B[j].index >= Bytes(ops, B[j].no) =>
              B[j + 1].index = 0 /\ Number(ops, B[j + 1]) = Number(ops, B[j]) + 1
  BY DEF Stream
<1>7. After(ops, B[l], wm, wi)
  BY <1>1 DEF Stream
<1>8. ri + (n - 1) <= T /\ IF ri + n <= T THEN m = rm /\ i = ri + n ELSE m = rm + 1 /\ i = 0
  OBVIOUS
<1> HIDE DEF R, l, T
<1>9. ASSUME NEW j \in 1..n PROVE B[j].no = B[1].no /\ B[j].index = ri + (j - 1)
  <2>1. j \in 1..l /\ 1 <= j /\ j \in Nat
    BY <1>1
  <2>2. ri + (j - 1) <= T
    BY <1>1, <1>4, <1>8, <2>1
  <2>3. QED
    BY <1>1, <1>4, <1>5, <2>1, <2>2 DEF T
<1>10. B[n].no = B[1].no /\ B[n].index = ri + (n - 1)
  BY <1>1, <1>9
<1>11. Number(ops, B[n]) = rm /\ Bytes(ops, B[n].no) = T
  BY <1>4, <1>10 DEF Number, T
<1>12. ri + n <= T <=> B[n].index < Bytes(ops, B[n].no)
  BY <1>1, <1>4, <1>10, <1>11
<1>13. (ri + (n - 1)) + 1 = ri + n
  BY <1>1, <1>4
<1>14. After(ops, B[n], m, i)
  BY <1>8, <1>10, <1>11, <1>12, <1>13 DEF After
<1>15. CASE l = n
  <2>1. Len(R) = 0
    BY <1>1, <1>2, <1>15
  <2>2. R = <<>>
    BY <1>2, <2>1
  <2>3. m = wm /\ i = wi
    BY <1>7, <1>14, <1>15 DEF After
  <2>4. Stream(ops, R, m, i, wm, wi)
    BY <2>1, <2>2, <2>3 DEF Stream
  <2>5. QED
    BY <1>9, <2>4 DEF R, l
<1>16. CASE n < l
  <2>1. R # <<>> /\ R[1] = B[n + 1] /\ R[Len(R)] = B[l]
    <3>1. l - n \in 1..(l - n) /\ 1 \in 1..(l - n) /\ (l - n) + n = l /\ 1 + n = n + 1
      BY <1>1, <1>16
    <3>2. R # <<>>
      BY <1>1, <1>2, <1>16
    <3>3. QED
      BY <1>2, <3>1, <3>2
  <2>2. Number(ops, R[1]) = m /\ R[1].index = i
    <3>1. CASE ri + n <= T
      <4>1. /\ n \in 1..l /\ n + 1 \in 1..l /\ n <= n + 1 /\ (n + 1) - n = 1
        BY <1>1, <1>16
      <4>2. B[n].index + 1 <= Bytes(ops, B[n].no)
        BY <1>10, <1>11, <1>13, <3>1
      <4>3. B[n + 1].no = B[n].no /\ B[n + 1].index = B[n].index + 1
        BY <1>5, <4>1, <4>2
      <4>4. QED
        BY <1>8, <1>10, <1>11, <1>13, <2>1, <3>1, <4>3 DEF Number
    <3>2. CASE ~(ri + n <= T)
      <4>1. n \in 1..(l - 1) /\ B[n].index >= Bytes(ops, B[n].no)
        <5>1. n \in 1..(l - 1)
          BY <1>1, <1>16
        <5>2. B[n].index \in Nat /\ Bytes(ops, B[n].no) \in Nat
          BY <1>1, <1>3
        <5>3. QED
          BY <1>12, <3>2, <5>1, <5>2
      <4>2. QED
        BY <1>6, <1>8, <1>11, <2>1, <3>2, <4>1
    <3>3. QED
      BY <3>1, <3>2
  <2>3. ASSUME NEW h \in 1..Len(R), NEW j \in 1..Len(R), h <= j,
               R[h].index + (j - h) <= Bytes(ops, R[h].no)
        PROVE  R[j].no = R[h].no /\ R[j].index = R[h].index + (j - h)
    <3>1. /\ h \in 1..(l - n) /\ j \in 1..(l - n)
          /\ h + n \in 1..l /\ j + n \in 1..l /\ h + n <= j + n /\ (j + n) - (h + n) = j - h
      BY <1>1, <1>2, <2>3
    <3>2. R[h] = B[h + n] /\ R[j] = B[j + n]
      BY <1>2, <3>1
    <3>3. B[h + n].index + ((j + n) - (h + n)) <= Bytes(ops, B[h + n].no)
      BY <2>3, <3>1, <3>2
    <3>4. B[j + n].no = B[h + n].no /\ B[j + n].index = B[h + n].index + ((j + n) - (h + n))
      BY <1>5, <3>1, <3>3
    <3>5. QED
      BY <3>1, <3>2, <3>4
  <2>4. ASSUME NEW j \in 1..(Len(R) - 1), R[j].index >= Bytes(ops, R[j].no)
        PROVE  R[j + 1].index = 0 /\ Number(ops, R[j + 1]) = Number(ops, R[j]) + 1
    <3>1. /\ j \in 1..(l - n) /\ j + 1 \in 1..(l - n) /\ j + n \in 1..(l - 1)
          /\ (j + 1) + n = (j + n) + 1
      BY <1>1, <1>2, <2>4, SMTT(30)
    <3>2. R[j] = B[j + n] /\ R[j + 1] = B[(j + n) + 1]
      BY <1>2, <3>1
    <3>3. QED
      BY <1>6, <2>4, <3>1, <3>2
  <2>5. Stream(ops, R, m, i, wm, wi)
    BY <1>7, <2>1, <2>2, <2>3, <2>4 DEF Stream
  <2>6. QED
    BY <1>9, <2>5 DEF R, l
<1>17. QED
  BY <1>1, <1>15, <1>16

-----------------------------------------------------------------------------
(* Programs that fit together find their partner at the pipe.               *)

\* What fitting together means for a reader and its writer.
LEMMA CoupledFacts ==
    ASSUME PipeTypeOK, script \in Coupled, NEW p \in Partner
    PROVE  LET q == Other(p)
           IN  /\ q \in Partner /\ q # p /\ Other(q) = p
               /\ script[p] \in Seq(PipeOperation) /\ script[q] \in Seq(PipeOperation)
               /\ Nth(script[p], "import", Len(script[p])) =
                     Nth(script[q], "export", Len(script[q]))
               /\ \A n \in 1..Len(script[p]), m \in Exports(q) :
                     /\ script[p][n].op = "import"
                     /\ Nth(script[p], "import", n) = Nth(script[q], "export", m)
                     => script[p][n].width = script[q][m].width
<1>1. Other(p) \in Partner /\ Other(p) # p /\ Other(Other(p)) = p
  BY OtherPartner
<1>2. script[p] \in Seq(PipeOperation) /\ script[Other(p)] \in Seq(PipeOperation)
  BY <1>1, ScriptFacts
<1>3. FitTogether(script)
  BY PipeAssumption
<1>4. QED
  BY <1>1, <1>2, <1>3 DEF FitTogether, Exports

\* The operation in progress is one more of its kind.
LEMMA PendingCount ==
    ASSUME PipeTypeOK, NEW p \in Partner, NEW op, Pending(p, op)
    PROVE  /\ Nth(script[p], op, done[p]) \in Nat
           /\ Nth(script[p], op, done[p] + 1) = Nth(script[p], op, done[p]) + 1
           /\ Nth(script[p], op, done[p] + 1) <= Nth(script[p], op, Len(script[p]))
           /\ \A other : other # op =>
                 Nth(script[p], other, done[p] + 1) = Nth(script[p], other, done[p])
<1>1. /\ script[p] \in Seq(PipeOperation) /\ Len(script[p]) \in Nat /\ done[p] \in Nat
      /\ done[p] < Len(script[p]) /\ script[p][done[p] + 1].op = op
      /\ done[p] + 1 \in Nat /\ done[p] + 1 <= Len(script[p])
  BY ScriptFacts DEF Pending, Current
<1>2. /\ \A n \in Nat : Nth(script[p], op, n) \in Nat
      /\ \A n \in Nat : n < Len(script[p]) =>
            Nth(script[p], op, n + 1) =
                IF script[p][n + 1].op = op THEN Nth(script[p], op, n) + 1
                ELSE Nth(script[p], op, n)
      /\ \A m, n \in Nat : m <= n => Nth(script[p], op, m) <= Nth(script[p], op, n)
  <2>1. script[p] \in Seq(PipeOperation)
    BY <1>1
  <2>2. QED
    BY <2>1, NthFacts, ZenonT(40)
<1>3. ASSUME NEW other, other # op
      PROVE  Nth(script[p], other, done[p] + 1) = Nth(script[p], other, done[p])
  <2>1. \A n \in Nat : n < Len(script[p]) =>
           Nth(script[p], other, n + 1) =
               IF script[p][n + 1].op = other THEN Nth(script[p], other, n) + 1
               ELSE Nth(script[p], other, n)
    BY <1>1, NthFacts, ZenonT(40)
  <2>2. QED
    BY <1>1, <1>3, <2>1
<1>4. QED
  BY <1>1, <1>2, <1>3

\* The bytes in the pipes, as a part of the writer's program.
LEMMA PipeWritten ==
    ASSUME PipeInv, Live, NEW q \in Partner
    PROVE  /\ pipe[q] \in Seq(Byte) /\ Len(pipe[q]) \in Nat
           /\ \A i \in 1..Len(pipe[q]) :
                 /\ Written(script[q], pipe[q][i]) /\ pipe[q][i] \in Byte
                 /\ pipe[q][i].from = q /\ pipe[q][i].session = session[q]
                 /\ pipe[q][i].no \in Exports(q) /\ pipe[q][i].index \in Nat
<1>1. pipe[q] \in Seq(Byte) /\ Len(pipe[q]) \in Nat
  BY DEF PipeInv, PipeTypeOK
<1>2. ASSUME NEW i \in 1..Len(pipe[q])
      PROVE  /\ Written(script[q], pipe[q][i]) /\ pipe[q][i] \in Byte
             /\ pipe[q][i].from = q /\ pipe[q][i].session = session[q]
             /\ pipe[q][i].no \in Exports(q) /\ pipe[q][i].index \in Nat
  <2>1. pipe[q][i] \in Byte
    BY <1>1
  <2>2. /\ pipe[q][i].from = q /\ pipe[q][i].session = session[q]
        /\ pipe[q][i].no \in Exports(q) /\ pipe[q][i].index <= Total(q, pipe[q][i].no)
    BY DEF PipeInv, BytesInv
  <2>3. QED
    BY <2>1, <2>2 DEF Written, Exports, Total, Byte
<1>3. QED
  BY <1>1, <1>2

\* A partner that has left the exchange has written and read everything.
LEMMA ProgramDone ==
    ASSUME PipeInv, NEW p \in Partner, step[p] = "half_closed" \/ Disconnecting(p)
    PROVE  /\ NextMessage(p, "import", "read") = Nth(script[p], "import", Len(script[p])) + 1
           /\ NextMessage(p, "export", "write") = Nth(script[p], "export", Len(script[p])) + 1
           /\ NextIndex(p, "read") = 0 /\ NextIndex(p, "write") = 0
<1>1. PlaceInv(p) /\ done[p] = Len(script[p])
  BY DEF PipeInv, PlaceInv
<1>2. step[p] # "read" /\ step[p] # "write"
  BY <1>1 DEF PlaceInv, Disconnecting, In, FileStep, FirstStep
<1>3. QED
  BY <1>1, <1>2 DEF NextMessage, NextIndex

\* A partner that has a message to write has a reader.
LEMMA WillBeRead ==
    ASSUME PipeInv, FlowInv, script \in Coupled, NEW p \in Partner, pc[p] = "connected",
           \/ step[p] = "ready" /\ Pending(p, "export")
           \/ step[p] = "write" /\ moved[p] < size[p]
    PROVE  HasReader(Other(p))
<1> DEFINE q == Other(p)
<1>1. PipeTypeOK /\ PlaceInv(p) /\ PlaceInv(q) /\ q \in Partner /\ Other(q) = p
  BY OtherPartner DEF PipeInv
<1>2. /\ step[p] \in Exchanging /\ Pending(p, "export")
      /\ ~(step[p] = "write" /\ moved[p] = size[p])
  <2>1. moved[p] < size[p] => moved[p] # size[p]
    BY <1>1, PipeAssumption DEF PipeTypeOK
  <2>2. QED
    BY <1>1, <2>1 DEF PlaceInv, Exchanging
<1>3. Opened(q) \/ Disconnecting(q)
  BY <1>2 DEF FlowInv, OpenInv
<1>4. Live /\ StreamInv(p)
  BY <1>2, PastCreation DEF Exchanging, Creation, FlowInv
<1>5. ~Disconnecting(q)
  <2>1. SUFFICES ASSUME Disconnecting(q) PROVE FALSE
    OBVIOUS
  <2>2. NextMessage(q, "import", "read") = Nth(script[q], "import", Len(script[q])) + 1
    BY <1>1, <2>1, ProgramDone
  <2>3. NextMessage(p, "export", "write") = Nth(script[p], "export", done[p]) + 1
    BY <1>2 DEF NextMessage
  <2>4. Nth(script[p], "export", done[p]) + 1 <= Nth(script[p], "export", Len(script[p]))
    BY <1>1, <1>2, PendingCount
  <2>5. Nth(script[q], "import", Len(script[q])) = Nth(script[p], "export", Len(script[p]))
    BY <1>1, CoupledFacts
  <2>6. /\ script[p] \in Seq(PipeOperation) /\ Len(script[p]) \in Nat /\ done[p] \in Nat
        /\ \A n \in Nat : Nth(script[p], "export", n) \in Nat
        /\ Nth(script[p], "export", done[p]) \in Nat
        /\ Nth(script[p], "export", Len(script[p])) \in Nat
        /\ \A n \in Nat : n <= Len(script[p]) =>
              Nth(script[p], "export", n) <= Nth(script[p], "export", Len(script[p]))
    BY <1>1, ScriptFacts, NthFacts
  <2>7. CASE pipe[p] = <<>>
    <3>1. NextMessage(q, "import", "read") = NextMessage(p, "export", "write")
      BY <1>4, <2>7 DEF StreamInv, Stream
    <3>2. Nth(script[p], "export", done[p]) + 1 = Nth(script[p], "export", Len(script[p])) + 1
      BY <2>2, <2>3, <2>5, <3>1
    <3>3. QED
      BY <2>4, <2>6, <3>2
  <2>8. CASE pipe[p] # <<>>
    <3>1. 1 \in 1..Len(pipe[p])
      BY <1>1, <2>8 DEF PipeTypeOK
    <3>2. pipe[p][1].no \in 1..Len(script[p])
      BY <1>4, <3>1, PipeWritten DEF Exports
    <3>3. Nth(script[p], "export", pipe[p][1].no) = NextMessage(q, "import", "read")
      BY <1>4, <2>8 DEF StreamInv, Stream, Number
    <3>4. /\ Nth(script[p], "export", pipe[p][1].no) \in Nat
          /\ Nth(script[p], "export", pipe[p][1].no) <= Nth(script[p], "export", Len(script[p]))
      <4>1. pipe[p][1].no \in Nat /\ pipe[p][1].no <= Len(script[p])
        <5> DEFINE k == pipe[p][1].no
                   l == Len(script[p])
        <5>1. k \in 1..l /\ l \in Nat
          BY <2>6, <3>2
        <5> HIDE DEF k, l
        <5>2. k \in Nat /\ k <= l
          BY <5>1
        <5>3. QED
          BY <5>2 DEF k, l
      <4>2. QED
        BY <2>6, <4>1
    <3>5. Nth(script[p], "export", pipe[p][1].no) = Nth(script[p], "export", Len(script[p])) + 1
      BY <2>2, <2>5, <3>3
    <3>6. QED
      BY <2>6, <3>4, <3>5
  <2>9. QED
    BY <2>7, <2>8
<1>6. Opened(q) /\ status[q] # "crashed" /\ pc[q] = "connected"
  BY <1>1, <1>3, <1>5 DEF FlowInv, PlaceInv, Opened, Exchanging, FirstStep
<1>7. QED
  BY <1>6 DEF HasReader, Alive, Opened, Exchanging

\* A partner that waits for bytes has a writer.
LEMMA WillBeWritten ==
    ASSUME PipeInv, FlowInv, script \in Coupled, NEW p \in Partner, pc[p] = "connected",
           pipe[Other(p)] = <<>>,
           \/ step[p] = "ready" /\ Pending(p, "import")
           \/ step[p] = "read" /\ moved[p] < size[p]
    PROVE  HasWriter(Other(p))
<1> DEFINE q == Other(p)
<1>1. PipeTypeOK /\ PlaceInv(p) /\ PlaceInv(q) /\ q \in Partner /\ Other(q) = p
  BY OtherPartner DEF PipeInv
<1>2. /\ step[p] \in Exchanging /\ Pending(p, "import")
      /\ ~(step[p] = "read" /\ moved[p] = size[p])
  <2>1. moved[p] < size[p] => moved[p] # size[p]
    BY <1>1, PipeAssumption DEF PipeTypeOK
  <2>2. QED
    BY <1>1, <2>1 DEF PlaceInv, Exchanging
<1>3. Opened(q) \/ Disconnecting(q)
  BY <1>2 DEF FlowInv, OpenInv
<1>4. Live /\ StreamInv(q)
  BY <1>1, <1>2, PastCreation DEF Exchanging, Creation, FlowInv
<1>5. ~Disconnecting(q) /\ step[q] # "half_closed"
  <2>1. SUFFICES ASSUME Disconnecting(q) \/ step[q] = "half_closed" PROVE FALSE
    OBVIOUS
  <2>2. NextMessage(q, "export", "write") = Nth(script[q], "export", Len(script[q])) + 1
    BY <1>1, <2>1, ProgramDone
  <2>3. NextMessage(p, "import", "read") = Nth(script[p], "import", done[p]) + 1
    BY <1>2 DEF NextMessage
  <2>4. Nth(script[p], "import", done[p]) + 1 <= Nth(script[p], "import", Len(script[p]))
    BY <1>1, <1>2, PendingCount
  <2>5. Nth(script[p], "import", Len(script[p])) = Nth(script[q], "export", Len(script[q]))
    BY <1>1, CoupledFacts
  <2>6. Nth(script[p], "import", Len(script[p])) \in Nat /\ Nth(script[p], "import", done[p]) \in Nat
    BY <1>1, ScriptFacts, NthFacts
  <2>7. NextMessage(p, "import", "read") = NextMessage(q, "export", "write")
    BY <1>1, <1>4 DEF StreamInv, Stream
  <2>8. QED
    BY <2>2, <2>3, <2>4, <2>5, <2>6, <2>7
<1>6. Opened(q) /\ status[q] # "crashed" /\ pc[q] = "connected"
  BY <1>1, <1>3, <1>5 DEF FlowInv, PlaceInv, Opened, Exchanging, FirstStep
<1>7. QED
  BY <1>5, <1>6 DEF HasWriter, Alive, Opened, Exchanging

-----------------------------------------------------------------------------
(* The exchange keeps the second layer of the invariant.                    *)

\* What is true of a partner that does nothing.
LEMMA FlowFrame ==
    ASSUME NEW r \in Partner, script' = script, session'[r] = session[r],
           step'[r] = step[r], done'[r] = done[r], size'[r] = size[r],
           moved'[r] = moved[r], call'[r] = call[r], received'[r] = received[r]
    PROVE  /\ ChunkInv(r) => ChunkInv(r)'
           /\ ReadInv(r) => ReadInv(r)'
           /\ Delivers(r) => Delivers(r)'
           /\ NextMessage(r, "import", "read")' = NextMessage(r, "import", "read")
           /\ NextMessage(r, "export", "write")' = NextMessage(r, "export", "write")
           /\ NextIndex(r, "read")' = NextIndex(r, "read")
           /\ NextIndex(r, "write")' = NextIndex(r, "write")
<1>1. /\ Current(r)' = Current(r) /\ Chunk(r)' = Chunk(r) /\ Exports(Other(r))' = Exports(Other(r))
      /\ \A n : Total(Other(r), n)' = Total(Other(r), n)
  BY DEF Current, Chunk, Buffer, Exports, Total
<1>2. ChunkInv(r) => ChunkInv(r)'
  BY <1>1 DEF ChunkInv, Buffer
<1>3. ReadInv(r) => ReadInv(r)'
  BY <1>1 DEF ReadInv
<1>4. Delivers(r) => Delivers(r)'
  BY <1>1 DEF Delivers, Total
<1>5. QED
  BY <1>1, <1>2, <1>3, <1>4 DEF NextMessage, NextIndex

\* Both partners open their ends before either of them exchanges data.
LEMMA TransferOpen ==
    ASSUME PipeInv, FlowInv, script \in Coupled, NEW p \in Partner, Transfer(p)
    PROVE  \A r \in Partner : OpenInv(r)'
<1> DEFINE q == Other(p)
<1>1. /\ PipeTypeOK /\ PlaceInv(p) /\ PlaceInv(q) /\ q \in Partner /\ q # p /\ Other(q) = p
      /\ \A r \in Partner : r = p \/ r = q
  BY OtherPartner DEF PipeInv, Partner, Other
<1>2. /\ OpenInv(p) /\ OpenInv(q) /\ step'[q] = step[q] /\ pc[p] = "connected"
      /\ UNCHANGED <<pc, tag>> /\ tag[p] = "handshake"
  BY <1>1, TransferFrame, InSession DEF FlowInv, Others, At
<1>3. ~Disconnecting(p) /\ (Disconnecting(q)' <=> Disconnecting(q))
  BY <1>2 DEF Disconnecting, In
<1>4. Opened(q)' <=> Opened(q)
  BY <1>1, <1>2 DEF Opened
<1>5. SUFFICES /\ step'[p] \in Exchanging => Opened(q) \/ Disconnecting(q)
               /\ step[q] \in Exchanging => Opened(p)'
  BY <1>1, <1>2, <1>3, <1>4 DEF OpenInv
<1>6. step[q] \in Exchanging => Opened(p)
  BY <1>1, <1>2, <1>3 DEF OpenInv
<1>7. CASE MkFifo(p)
  <2>1. step[p] \in Creation /\ step'[p] \in {"mkfifo_read", "open_write"} /\ p = "primary"
    BY <1>1, <1>7, MkFifoFacts DEF PipeTypeOK
  <2>2. QED
    BY <1>6, <2>1 DEF Opened, Exchanging, Creation
<1>8. CASE WaitFifo(p)
  <2>1. step[p] = "wait_fifo" /\ step'[p] = "open_read" /\ p # "primary"
    BY <1>1, <1>8 DEF WaitFifo, PipeAt, PipeGoto, PipeTypeOK, PlaceInv
  <2>2. QED
    BY <1>6, <2>1 DEF Opened, Exchanging
<1>9. CASE OpenWrite(p)
  <2>1. /\ step'[p] = IF p = "primary" THEN "open_read" ELSE "ready"
        /\ HasReader(q)
    BY <1>1, <1>9, OpenFacts DEF PipeTypeOK
  <2>2. p # "primary" => q = "primary"
    BY <1>1 DEF Other
  <2>3. QED
    BY <2>1, <2>2 DEF Opened, Exchanging, HasReader
<1>10. CASE OpenRead(p)
  <2>1. /\ step'[p] = IF p = "primary" THEN "ready" ELSE "open_write"
        /\ HasWriter(q)
    BY <1>1, <1>10, OpenFacts DEF PipeTypeOK
  <2>2. p = "primary" => q # "primary"
    BY <1>1
  <2>3. QED
    BY <2>1, <2>2 DEF Opened, Exchanging, HasWriter
<1>11. CASE step[p] \in Exchanging /\ step'[p] \in Exchanging
  BY <1>2, <1>11 DEF OpenInv, Opened
<1>12. QED
  <2>1. SendSize(p) \/ WriteChunk(p) \/ KernelWrite(p) \/ WriteDone(p) \/ ReceiveSize(p)
           \/ ReadChunk(p) \/ ReadDone(p) \/ CloseWrite(p)
        => step[p] \in Exchanging /\ step'[p] \in Exchanging
    BY <1>1 DEF SendSize, WriteChunk, KernelWrite, WriteDone, ReceiveSize, ReadChunk, ReadDone,
                CloseWrite, PipeAt, PipeGoto, PipeTypeOK, Exchanging
  <2>2. QED
    BY <1>7, <1>8, <1>9, <1>10, <1>11, <2>1, SMTT(30) DEF Transfer

\* What a step that writes and reads nothing does to the bytes in flight.
LEMMA MoveOnFlow ==
    ASSUME PipeInv, FlowInv, script \in Coupled, NEW p \in Partner, Transfer(p), TypeOK',
           MkFifo(p) \/ WaitFifo(p) \/ OpenWrite(p) \/ OpenRead(p) \/ CloseWrite(p)
    PROVE  /\ ChunkInv(p)' /\ ReadInv(p)' /\ Delivers(p)'
           /\ Live' => StreamInv(p)' /\ StreamInv(Other(p))'
<1> DEFINE q == Other(p)
<1>1. /\ PipeTypeOK /\ PlaceInv(p) /\ PlaceInv(q) /\ q \in Partner /\ q # p /\ Other(q) = p
      /\ UNCHANGED <<done, size, moved, call, received, script, session>>
      /\ step'[q] = step[q]
  BY OtherPartner, MoveOnPlace, TransferFrame DEF PipeInv, memory, Others
<1>2. step[p] \notin {"write", "read"} /\ step'[p] \notin {"write", "read"} /\ call[p] = 0
  <2>1. step[p] \notin {"write", "read"}
    BY DEF MkFifo, WaitFifo, OpenWrite, OpenRead, CloseWrite, PipeAt
  <2>2. step'[p] \notin {"write", "read"}
    BY <1>1, MkFifoFacts, OpenFacts DEF WaitFifo, CloseWrite, PipeGoto, PipeTypeOK
  <2>3. QED
    BY <1>1, <2>1, <2>2 DEF PlaceInv
<1>3. ChunkInv(p)' /\ ReadInv(p)' /\ Delivers(p)'
  <2>1. ChunkInv(p)' /\ ReadInv(p)'
    BY <1>1, <1>2 DEF ChunkInv, ReadInv
  <2>2. Delivers(p)' = Delivers(p)
    BY <1>1 DEF Delivers, Exports, Total
  <2>3. QED
    BY <2>1, <2>2 DEF FlowInv
<1>4. /\ NextMessage(p, "import", "read")' = NextMessage(p, "import", "read")
      /\ NextMessage(p, "export", "write")' = NextMessage(p, "export", "write")
      /\ NextIndex(p, "read")' = NextIndex(p, "read")
      /\ NextIndex(p, "write")' = NextIndex(p, "write")
  BY <1>1, <1>2 DEF NextMessage, NextIndex
<1>5. /\ NextMessage(q, "import", "read")' = NextMessage(q, "import", "read")
      /\ NextMessage(q, "export", "write")' = NextMessage(q, "export", "write")
      /\ NextIndex(q, "read")' = NextIndex(q, "read")
      /\ NextIndex(q, "write")' = NextIndex(q, "write")
  BY <1>1, FlowFrame
<1>6. CASE ~MkFifo(p)
  <2>1. pipe' = pipe /\ StreamInv(p) /\ StreamInv(q)
    BY <1>1, <1>6, TransferLive, MoveOnPlace DEF FlowInv
  <2>2. StreamInv(p)' /\ StreamInv(q)'
    BY <1>1, <1>4, <1>5, <2>1 DEF StreamInv
  <2>3. QED
    BY <1>3, <2>2
<1>7. CASE MkFifo(p)
  <2>1. SUFFICES ASSUME Live' PROVE StreamInv(p)' /\ StreamInv(q)'
    BY <1>3
  <2>2. pipe'[p] = <<>> /\ pipe'[q] = <<>>
    BY <1>1, <1>7, <2>1, MkFifoPhase
  <2>3. /\ p = "primary" /\ step[p] \in Creation /\ pc[p] = "connected"
        /\ q = "secondary"
    BY <1>7, MkFifoFacts, TransferFrame, OtherPartner DEF At
  <2>4. step[q] = "wait_fifo" /\ ~Disconnecting(q) /\ tag[p] = "handshake"
    BY <2>3, InSession DEF PipeInv, FifoInv, Creating
  <2>5. tag[q] = "handshake"
    BY <2>3, <2>4, InSession
  <2>6. done[p] = 0 /\ done[q] = 0
    BY <1>1, <2>3, <2>4, <2>5 DEF PlaceInv, Exchanging, Creation
  <2>7. \A op : Nth(script[p], op, 0) = 0 /\ Nth(script[q], op, 0) = 0
    BY <1>1, ScriptFacts, NthFacts
  <2>8. /\ NextMessage(p, "import", "read") = 1 /\ NextMessage(p, "export", "write") = 1
        /\ NextIndex(p, "read") = 0 /\ NextIndex(p, "write") = 0
    BY <1>2, <2>6, <2>7 DEF NextMessage, NextIndex
  <2>9. /\ NextMessage(q, "import", "read") = 1 /\ NextMessage(q, "export", "write") = 1
        /\ NextIndex(q, "read") = 0 /\ NextIndex(q, "write") = 0
    BY <2>4, <2>6, <2>7 DEF NextMessage, NextIndex
  <2>10. \A ops : Stream(ops, <<>>, 1, 0, 1, 0)
    BY DEF Stream
  <2>11. QED
    BY <1>1, <1>4, <1>5, <2>2, <2>8, <2>9, <2>10 DEF StreamInv
<1>8. QED
  BY <1>6, <1>7

\* The loop of Write() decides on the next chunk.
LEMMA WriteChunkFlow ==
    ASSUME PipeInv, FlowInv, script \in Coupled, NEW p \in Partner, Transfer(p), TypeOK',
           WriteChunk(p)
    PROVE  /\ ChunkInv(p)' /\ ReadInv(p)' /\ Delivers(p)'
           /\ StreamInv(p)' /\ StreamInv(Other(p))'
<1> DEFINE q == Other(p)
<1>1. /\ q \in Partner /\ q # p /\ Other(q) = p /\ ChunkInv(p) /\ ReadInv(p) /\ Delivers(p)
      /\ UNCHANGED <<done, step, pipe, size, moved, received, script, session>>
      /\ call'[p] = Chunk(p) * Current(p).width
  BY OtherPartner, WriteChunkPlace, TransferFrame DEF FlowInv, memory
<1>2. Live /\ StreamInv(p) /\ StreamInv(q) /\ ~MkFifo(p)
  <2>1. ~MkFifo(p)
    BY DEF MkFifo, WriteChunk, PipeAt
  <2>2. QED
    BY <1>1, <2>1, TransferLive DEF FlowInv
<1>3. Current(p)' = Current(p) /\ Chunk(p)' = Chunk(p)
  BY <1>1 DEF Current, Chunk, Buffer
<1>4. ChunkInv(p)'
  BY <1>1, <1>3 DEF ChunkInv, Buffer
<1>5. ReadInv(p)'
  BY <1>1, <1>3 DEF ReadInv, Exports
<1>6. Delivers(p)'
  BY <1>1 DEF Delivers, Exports, Total
<1>7. StreamInv(p)' /\ StreamInv(q)'
  BY <1>1, <1>2 DEF StreamInv, NextMessage, NextIndex, Current
<1>8. QED
  BY <1>4, <1>5, <1>6, <1>7

\* The end of Write() and Read(): the message counts as sent or received.
LEMMA DoneFlow ==
    ASSUME PipeInv, FlowInv, script \in Coupled, NEW p \in Partner, Transfer(p), TypeOK',
           WriteDone(p) \/ ReadDone(p)
    PROVE  /\ ChunkInv(p)' /\ ReadInv(p)' /\ Delivers(p)'
           /\ StreamInv(p)' /\ StreamInv(Other(p))'
<1> DEFINE q == Other(p)
<1>1. /\ q \in Partner /\ q # p /\ Other(q) = p /\ ReadInv(p) /\ Delivers(p) /\ PlaceInv(p)
      /\ PipeTypeOK /\ UNCHANGED <<pipe, script, session>> /\ Others(p)
  BY OtherPartner, DonePlace, TransferFrame DEF FlowInv, PipeInv, memory
<1>2. /\ step[p] = (IF WriteDone(p) THEN "write" ELSE "read")
      /\ call[p] = 0 /\ call'[p] = 0 /\ moved[p] = size[p] /\ done[p] < Len(script[p])
      /\ moved'[p] = size'[p] /\ step'[p] = "ready" /\ done'[p] = done[p] + 1
      /\ received'[p] = IF WriteDone(p) THEN Append(received[p], <<>>) ELSE received[p]
  BY <1>1, DonePlace
<1>3. Live /\ StreamInv(p) /\ StreamInv(q)
  <2>1. ~MkFifo(p)
    BY DEF MkFifo, WriteDone, ReadDone, PipeAt
  <2>2. QED
    BY <1>1, <2>1, TransferLive DEF FlowInv
<1>4. ChunkInv(p)' /\ ReadInv(p)'
  BY <1>2 DEF ChunkInv, ReadInv
<1>5. Pending(p, IF WriteDone(p) THEN "export" ELSE "import") /\ done[p] \in Nat
  BY <1>1, <1>2, ScriptFacts DEF PlaceInv
<1>6. ~(moved[p] < size[p])
  BY <1>1, <1>2, PipeAssumption DEF PipeTypeOK
<1>7. /\ NextMessage(p, "import", "read")' = NextMessage(p, "import", "read")
      /\ NextMessage(p, "export", "write")' = NextMessage(p, "export", "write")
      /\ NextIndex(p, "read")' = NextIndex(p, "read")
      /\ NextIndex(p, "write")' = NextIndex(p, "write")
  <2>1. /\ NextMessage(p, "import", "read")' = Nth(script[p], "import", done[p] + 1) + 1
        /\ NextMessage(p, "export", "write")' = Nth(script[p], "export", done[p] + 1) + 1
        /\ NextIndex(p, "read")' = 0 /\ NextIndex(p, "write")' = 0
    BY <1>1, <1>2 DEF NextMessage, NextIndex
  <2>2. NextIndex(p, "read") = 0 /\ NextIndex(p, "write") = 0
    BY <1>6 DEF NextIndex
  <2>3. CASE WriteDone(p)
    <3>1. /\ Nth(script[p], "export", done[p]) \in Nat
          /\ Nth(script[p], "export", done[p] + 1) = Nth(script[p], "export", done[p]) + 1
          /\ Nth(script[p], "import", done[p] + 1) = Nth(script[p], "import", done[p])
      BY <1>1, <1>5, <2>3, PendingCount
    <3>2. /\ NextMessage(p, "export", "write") = Nth(script[p], "export", done[p]) + 2
          /\ NextMessage(p, "import", "read") = Nth(script[p], "import", done[p]) + 1
      BY <1>2, <2>3 DEF NextMessage
    <3>3. (Nth(script[p], "export", done[p]) + 1) + 1 = Nth(script[p], "export", done[p]) + 2
      BY <3>1
    <3>4. QED
      BY <2>1, <2>2, <3>1, <3>2, <3>3
  <2>4. CASE ~WriteDone(p)
    <3>1. /\ Nth(script[p], "import", done[p]) \in Nat
          /\ Nth(script[p], "import", done[p] + 1) = Nth(script[p], "import", done[p]) + 1
          /\ Nth(script[p], "export", done[p] + 1) = Nth(script[p], "export", done[p])
      BY <1>1, <1>5, <2>4, PendingCount
    <3>2. /\ NextMessage(p, "import", "read") = Nth(script[p], "import", done[p]) + 2
          /\ NextMessage(p, "export", "write") = Nth(script[p], "export", done[p]) + 1
      BY <1>2, <2>4 DEF NextMessage
    <3>3. (Nth(script[p], "import", done[p]) + 1) + 1 = Nth(script[p], "import", done[p]) + 2
      BY <3>1
    <3>4. QED
      BY <2>1, <2>2, <3>1, <3>2, <3>3
  <2>5. QED
    BY <2>3, <2>4
<1>8. StreamInv(p)' /\ StreamInv(q)'
  <2>1. /\ NextMessage(q, "import", "read")' = NextMessage(q, "import", "read")
        /\ NextMessage(q, "export", "write")' = NextMessage(q, "export", "write")
        /\ NextIndex(q, "read")' = NextIndex(q, "read")
        /\ NextIndex(q, "write")' = NextIndex(q, "write")
    BY <1>1, FlowFrame DEF Others
  <2>2. QED
    BY <1>1, <1>3, <1>7, <2>1 DEF StreamInv
<1>9. Delivers(p)'
  <2>1. SUFFICES ASSUME NEW n \in 1..Len(received'[p]), n <= done[p] + 1,
                        script[p][n].op = "import"
                 PROVE  \E m \in Exports(q) :
                           /\ Nth(script[q], "export", m) = Nth(script[p], "import", n)
                           /\ received'[p][n] = Elements(q, m, session[p], Total(q, m))
    BY <1>1, <1>2 DEF Delivers, Exports, Total
  <2>2. received[p] \in Seq(Seq(Byte)) /\ Len(received[p]) \in Nat /\ n \in Nat
    BY <1>1 DEF PipeTypeOK
  <2>3. CASE n <= done[p]
    <3>1. n \in 1..Len(received[p]) /\ received'[p][n] = received[p][n]
      BY <1>1, <1>2, <1>5, <2>2, <2>3 DEF PlaceInv
    <3>2. QED
      BY <1>1, <2>1, <2>3, <3>1 DEF Delivers
  <2>4. CASE n = done[p] + 1
    <3>1. step[p] = "read" /\ received'[p] = received[p]
      BY <1>2, <1>5, <2>1, <2>4 DEF Pending, Current
    <3>2. PICK m \in Exports(q) :
             /\ Nth(script[q], "export", m) = Nth(script[p], "import", done[p] + 1)
             /\ size[p] = script[q][m].size
             /\ received[p][done[p] + 1] =
                   Elements(q, m, session[p], moved[p] * Current(p).width)
      BY <1>1, <3>1 DEF ReadInv
    <3>3. Current(p).width = script[q][m].width
      <4>1. done[p] + 1 \in 1..Len(script[p])
        BY <1>1, <1>2, CurrentFacts
      <4>2. QED
        BY <1>1, <2>1, <2>4, <3>2, <4>1, CoupledFacts DEF Current
    <3>4. moved[p] * Current(p).width = Total(q, m)
      BY <1>2, <3>2, <3>3 DEF Total, Bytes
    <3>5. QED
      BY <2>4, <3>1, <3>2, <3>4
  <2>5. QED
    BY <1>5, <2>1, <2>2, <2>3, <2>4
<1>10. QED
  BY <1>4, <1>8, <1>9

\* SendSize(): the header is the next byte of the stream.
LEMMA SendSizeFlow ==
    ASSUME PipeInv, FlowInv, script \in Coupled, NEW p \in Partner, Transfer(p), TypeOK',
           SendSize(p)
    PROVE  /\ ChunkInv(p)' /\ ReadInv(p)' /\ Delivers(p)' /\ status' = status
           /\ StreamInv(p)' /\ StreamInv(Other(p))'
<1> DEFINE q == Other(p)
           d == done[p] + 1
           size1 == Current(p).size
           w == Current(p).width
<1>1. /\ q \in Partner /\ q # p /\ Other(q) = p /\ Delivers(p) /\ PlaceInv(p) /\ PipeTypeOK
      /\ UNCHANGED <<done, call, received, script, session>> /\ Others(p)
      /\ step[p] = "ready" /\ Pending(p, "export") /\ pc[p] = "connected"
      /\ step'[p] = "write" /\ size'[p] = size1 /\ moved'[p] = 0
  BY OtherPartner, SendSizePlace, TransferFrame
     DEF FlowInv, PipeInv, memory, SendSize, PipeAt, At
<1>2. HasReader(q)
  BY <1>1, WillBeRead
<1>3. pipe' = [pipe EXCEPT ![p] = Append(@, Header(p))] /\ status' = status
  BY <1>2 DEF SendSize
<1>4. Live /\ StreamInv(p) /\ StreamInv(q)
  <2>1. ~MkFifo(p)
    BY <1>1 DEF MkFifo, PipeAt
  <2>2. QED
    BY <1>1, <2>1, TransferLive DEF FlowInv
<1>5. ChunkInv(p)' /\ ReadInv(p)'
  <2>1. call'[p] = 0
    BY <1>1 DEF PlaceInv
  <2>2. 0 \in 0..0 /\ Buffer \div Current(p)'.width \in Nat /\ Current(p)' = Current(p)
    BY <1>1, ChunkFacts DEF PlaceInv, Pending, Current
  <2>3. \E k \in 0..moved'[p] : moved'[p] = k * (Buffer \div Current(p)'.width)
    BY <1>1, <2>2
  <2>4. QED
    BY <1>1, <2>1, <2>3 DEF ChunkInv, ReadInv, Buffer
<1>6. Delivers(p)'
  BY <1>1 DEF Delivers, Exports, Total
<1>7. /\ done[p] < Len(script[p]) /\ d \in 1..Len(script[p]) /\ w \in Nat \ {0}
      /\ size1 \in Nat /\ done[p] \in Nat /\ d \in Nat /\ Bytes(script[p], d) = size1 * w
      /\ script[p][d].op = "export"
  BY <1>1, CurrentFacts, ScriptFacts, PipeAssumption DEF Pending, Current, Bytes
<1>8. /\ NextMessage(p, "import", "read")' = NextMessage(p, "import", "read")
      /\ NextIndex(p, "read")' = NextIndex(p, "read")
  BY <1>1 DEF NextMessage, NextIndex
<1>9. /\ NextMessage(q, "import", "read")' = NextMessage(q, "import", "read")
      /\ NextMessage(q, "export", "write")' = NextMessage(q, "export", "write")
      /\ NextIndex(q, "read")' = NextIndex(q, "read")
      /\ NextIndex(q, "write")' = NextIndex(q, "write")
  BY <1>1, FlowFrame DEF Others
<1>10. StreamInv(q)'
  <2>1. pipe'[q] = pipe[q]
    BY <1>1, <1>3 DEF PipeTypeOK
  <2>2. QED
    BY <1>1, <1>4, <1>8, <1>9, <2>1 DEF StreamInv
<1>11. /\ NextMessage(p, "export", "write") = Nth(script[p], "export", d)
       /\ NextIndex(p, "write") = 0
  BY <1>1, PendingCount DEF NextMessage, NextIndex
<1>12. /\ NextMessage(p, "export", "write")' =
             IF size1 = 0 THEN Nth(script[p], "export", d) + 1 ELSE Nth(script[p], "export", d)
       /\ NextIndex(p, "write")' = IF size1 = 0 THEN 0 ELSE 1
  <2>1. /\ Nth(script[p], "export", done[p]) \in Nat
        /\ Nth(script[p], "export", d) = Nth(script[p], "export", done[p]) + 1
    BY <1>1, PendingCount
  <2>2. /\ NextMessage(p, "export", "write")' =
             Nth(script[p], "export", done[p]) + (IF 0 = size1 THEN 2 ELSE 1)
        /\ NextIndex(p, "write")' = IF 0 < size1 THEN 0 * w + 1 ELSE 0
    BY <1>1 DEF NextMessage, NextIndex, Current
  <2>3. 0 * w + 1 = 1 /\ (0 < size1 <=> size1 # 0)
    BY <1>7
  <2> HIDE DEF size1, w, d
  <2>4. QED
    BY <2>1, <2>2, <2>3
<1>13. StreamInv(p)'
  <2> DEFINE C == <<Header(p)>>
  <2>1. /\ Header(p) = [from |-> p, session |-> session[p], no |-> d, index |-> 0]
        /\ session[p] \in Nat
    BY <1>1 DEF Header, PipeTypeOK, TypeOK
  <2>2. Header(p) \in Byte /\ Header(p).no = d /\ Header(p).index = 0
    BY <1>7, <2>1 DEF Byte
  <2>3. size1 * w \in Nat /\ (size1 = 0 <=> ~(0 < size1 * w))
    <3>1. size1 \in Nat /\ w \in Nat /\ w > 0
      BY <1>7
    <3> HIDE DEF size1, w
    <3>2. size1 * w \in Nat /\ size1 <= size1 * w
      BY <3>1, Product
    <3>3. size1 = 0 => size1 * w = 0
      BY <3>1
    <3>4. QED
      BY <3>1, <3>2, <3>3
  <2>4. Written(script[p], Header(p))
    BY <1>7, <2>2, <2>3 DEF Written
  <2>5. C \in Seq(Byte) /\ Len(C) = 1 /\ C[1] = Header(p)
    BY <2>2
  <2>6. After(script[p], C[Len(C)], NextMessage(p, "export", "write")',
              NextIndex(p, "write")')
    <3> HIDE DEF C, size1, w, d
    <3>1. 0 + 1 = 1
      OBVIOUS
    <3>2. QED
      BY <1>7, <1>12, <2>2, <2>3, <2>5, <3>1 DEF After, Number
  <2>7. pipe[p] \in Seq(Byte) /\ \A j \in 1..Len(pipe[p]) : Written(script[p], pipe[p][j])
    BY <1>4, PipeWritten
  <2>8. Stream(script[p], pipe[p], NextMessage(q, "import", "read"), NextIndex(q, "read"),
               NextMessage(p, "export", "write"), 0)
    BY <1>4, <1>11 DEF StreamInv
  <2>9. script[p] \in Seq(PipeOperation)
    BY <1>1, ScriptFacts
  <2>10. \A j \in 1..Len(C) :
            Written(script[p], C[j]) /\ C[j].no = d /\ C[j].index = 0 + (j - 1)
    <3> HIDE DEF C, d
    <3>1. QED
      BY <2>2, <2>4, <2>5
  <2>11. Stream(script[p], pipe[p] \o C, NextMessage(q, "import", "read"),
                NextIndex(q, "read"), NextMessage(p, "export", "write")',
                NextIndex(p, "write")')
    <3> HIDE DEF C, d
    <3>1. Len(C) > 0 /\ 0 \in Nat
      BY <2>5
    <3>2. Nth(script[p], "export", d) = NextMessage(p, "export", "write")
      BY <1>11
    <3>3. QED
      BY <1>7, <2>5, <2>6, <2>7, <2>8, <2>9, <2>10, <3>1, <3>2, StreamWrite
  <2>12. pipe'[p] = pipe[p] \o C
    <3>1. pipe'[p] = Append(pipe[p], Header(p))
      BY <1>1, <1>3 DEF PipeTypeOK
    <3>2. QED
      BY <2>2, <2>7, <3>1, AppendIsConcat
  <2>13. QED
    BY <1>1, <1>9, <2>11, <2>12 DEF StreamInv
<1>14. QED
  BY <1>3, <1>5, <1>6, <1>10, <1>13

\* A chunk is counted in whole buffers until the message ends.
LEMMA NextChunk ==
    ASSUME PipeTypeOK, NEW p \in Partner, done[p] < Len(script[p]), moved[p] < size[p],
           step[p] \in {"write", "read"}, ChunkInv(p)
    PROVE  /\ moved[p] + Chunk(p) \in Nat
           /\ \/ moved[p] + Chunk(p) = size[p]
              \/ \E k \in 0..(moved[p] + Chunk(p)) :
                    moved[p] + Chunk(p) = k * (Buffer \div Current(p).width)
<1> DEFINE c == Buffer \div Current(p).width
<1>1. /\ moved[p] \in Nat /\ size[p] \in Nat /\ moved[p] <= size[p] /\ moved[p] # size[p]
  BY PipeAssumption DEF PipeTypeOK
<1>2. c \in Nat /\ Chunk(p) \in {c, size[p] - moved[p]} /\ Chunk(p) \in Nat
  BY <1>1, ChunkFacts
<1>3. PICK k \in 0..moved[p] : moved[p] = k * c
  BY <1>1 DEF ChunkInv
<1>4. k \in Nat
  BY <1>1
<1> HIDE DEF c
<1>5. CASE Chunk(p) = size[p] - moved[p]
  BY <1>1, <1>5
<1>6. CASE Chunk(p) = c /\ c > 0
  <2>1. moved[p] + c = (k + 1) * c
    BY <1>2, <1>3, <1>4
  <2>2. k + 1 \in 0..(moved[p] + c)
    BY <1>1, <1>2, <1>3, <1>4, <1>6
  <2>3. QED
    BY <1>1, <1>2, <1>6, <2>1, <2>2 DEF c
<1>7. CASE Chunk(p) = c /\ c = 0
  <2>1. moved[p] + c = moved[p]
    BY <1>1, <1>7
  <2>2. QED
    BY <1>1, <1>3, <1>7, <2>1 DEF c
<1>8. QED
  BY <1>2, <1>5, <1>6, <1>7

\* The place in a message after the next chunk.
LEMMA ChunkPlace ==
    ASSUME PipeTypeOK, NEW p \in Partner, done[p] < Len(script[p]), moved[p] < size[p]
    PROVE  LET w == Current(p).width
               n == Chunk(p) * w
           IN  /\ moved[p] * w \in Nat /\ n \in Nat /\ size[p] * w \in Nat /\ w \in Nat \ {0}
               /\ moved[p] * w + n = (moved[p] + Chunk(p)) * w
               /\ moved[p] * w + n <= size[p] * w
               /\ moved[p] + Chunk(p) <= size[p]
               /\ moved[p] + Chunk(p) = size[p] <=> moved[p] * w + n = size[p] * w
<1> DEFINE w == Current(p).width
           n == Chunk(p) * w
           m == moved[p] + Chunk(p)
<1>1. moved[p] \in Nat /\ size[p] \in Nat /\ moved[p] <= size[p]
  BY PipeAssumption DEF PipeTypeOK
<1>2. Chunk(p) \in Nat /\ Chunk(p) <= size[p] - moved[p] /\ w \in Nat \ {0}
  BY <1>1, ChunkFacts, CurrentFacts
<1>3. m \in Nat /\ m <= size[p]
  BY <1>1, <1>2
<1>4. /\ moved[p] * w \in Nat /\ n \in Nat /\ size[p] * w \in Nat
      /\ m * w = moved[p] * w + n
  BY <1>1, <1>2, Product, SMTT(30)
<1>5. m * w <= size[p] * w /\ (m < size[p] => m * w < size[p] * w) /\ m * w \in Nat
  <2>1. m \in Nat /\ w \in Nat /\ w > 0 /\ size[p] \in Nat /\ m <= size[p]
    BY <1>1, <1>2, <1>3
  <2> HIDE DEF m, w
  <2>2. QED
    BY <2>1, Product
<1>6. m = size[p] <=> m * w = size[p] * w
  <2>1. m < size[p] \/ m = size[p]
    BY <1>1, <1>3
  <2>2. m * w < size[p] * w => m * w # size[p] * w
    BY <1>4, <1>5
  <2>3. m < size[p] => m # size[p]
    BY <1>1, <1>3
  <2> HIDE DEF m
  <2>4. QED
    BY <1>5, <2>1, <2>2, <2>3
<1>7. QED
  BY <1>1, <1>2, <1>3, <1>4, <1>5, <1>6

\* The kernel takes a chunk as a whole: the next bytes of the stream.
LEMMA KernelFlow ==
    ASSUME PipeInv, FlowInv, script \in Coupled, Buffer <= PipeBuf, NEW p \in Partner,
           Transfer(p), TypeOK', KernelWrite(p)
    PROVE  /\ ChunkInv(p)' /\ ReadInv(p)' /\ Delivers(p)' /\ status' = status
           /\ StreamInv(p)' /\ StreamInv(Other(p))'
<1> DEFINE q == Other(p)
           d == done[p] + 1
           w == Current(p).width
           n == Chunk(p) * w
           past == moved[p] * w
           T == size[p] * w
<1>1. /\ q \in Partner /\ q # p /\ Other(q) = p /\ Delivers(p) /\ PlaceInv(p) /\ PipeTypeOK
      /\ ChunkInv(p) /\ UNCHANGED <<done, received, script, session>> /\ Others(p)
      /\ step[p] = "write" /\ pc[p] = "connected" /\ call[p] > 0 /\ call[p] \in Nat
  BY OtherPartner, KernelPlace, TransferFrame
     DEF FlowInv, PipeInv, PipeTypeOK, memory, KernelWrite, PipeAt, At
<1>2. /\ call[p] # 0 /\ moved[p] < size[p] /\ Pending(p, "export") /\ size[p] = Current(p).size
      /\ done[p] < Len(script[p]) /\ moved[p] <= size[p] /\ call[p] = n
  BY <1>1 DEF PlaceInv, ChunkInv, Pending
<1>3. HasReader(q)
  BY <1>1, <1>2, WillBeRead
<1>4. /\ past \in Nat /\ n \in Nat /\ T \in Nat /\ w \in Nat \ {0}
      /\ past + n = (moved[p] + Chunk(p)) * w /\ past + n <= T
      /\ moved[p] + Chunk(p) <= size[p] /\ moved[p] + Chunk(p) \in Nat
      /\ moved[p] + Chunk(p) = size[p] <=> past + n = T
  BY <1>1, <1>2, ChunkPlace, NextChunk
<1>5. n <= PipeBuf /\ n > 0
  <2>1. n <= Buffer /\ Buffer \in Nat /\ PipeBuf \in Nat
    BY <1>1, <1>2, ChunkFacts, PipeAssumption
  <2>2. n > 0
    BY <1>1, <1>2
  <2> HIDE DEF n
  <2>3. QED
    BY <1>4, <2>1, <2>2
<1>6. past + n - call[p] = past
  <2> HIDE DEF past, n
  <2>1. QED
    BY <1>2, <1>4
<1>7. PICK k \in 1..call[p], B \in Seq(Byte) :
         /\ n <= PipeBuf => k = n
         /\ Len(B) = k /\ Len(pipe[p]) + k <= Capacity
         /\ \A i \in 1..k : B[i] = [from |-> p, session |-> session[p],
                                    no |-> d, index |-> (past + n - call[p]) + i]
         /\ (past + n - call[p]) + k <= Total(p, done[p] + 1)
         /\ pipe' = [pipe EXCEPT ![p] = pipe[p] \o B]
         /\ call' = [call EXCEPT ![p] = call[p] - k]
         /\ moved' = [moved EXCEPT ![p] = IF k = call[p] THEN moved[p] + Chunk(p) ELSE moved[p]]
  BY <1>3, KernelFacts
<1>8. /\ Len(B) = n /\ pipe' = [pipe EXCEPT ![p] = pipe[p] \o B]
      /\ \A i \in 1..n : B[i] = [from |-> p, session |-> session[p], no |-> d, index |-> past + i]
      /\ k = n
  BY <1>5, <1>6, <1>7
<1>9. UNCHANGED <<status, step, size>>
  BY <1>3, KernelFacts
<1>10. call'[p] = 0 /\ moved'[p] = moved[p] + Chunk(p)
  <2>1. call'[p] = call[p] - n /\ moved'[p] = moved[p] + Chunk(p)
    BY <1>1, <1>2, <1>7, <1>8 DEF PipeTypeOK
  <2> HIDE DEF n
  <2>2. QED
    BY <1>2, <1>4, <2>1
<1> HIDE DEF n, past, T
<1>11. Live /\ StreamInv(p) /\ StreamInv(q)
  <2>1. ~MkFifo(p)
    BY <1>1 DEF MkFifo, PipeAt
  <2>2. QED
    BY <1>1, <2>1, TransferLive DEF FlowInv
<1>12. Current(p)' = Current(p)
  BY <1>1 DEF Current
<1>13. ChunkInv(p)' /\ ReadInv(p)'
  <2>1. \/ moved[p] + Chunk(p) = size[p]
        \/ \E j \in 0..(moved[p] + Chunk(p)) : moved[p] + Chunk(p) = j * (Buffer \div w)
    BY <1>1, <1>2, NextChunk
  <2>2. QED
    BY <1>1, <1>9, <1>10, <1>12, <2>1 DEF ChunkInv, ReadInv, Buffer
<1>14. Delivers(p)'
  BY <1>1 DEF Delivers, Exports, Total
<1>15. /\ NextMessage(p, "import", "read")' = NextMessage(p, "import", "read")
       /\ NextIndex(p, "read")' = NextIndex(p, "read")
  BY <1>1, <1>9 DEF NextMessage, NextIndex
<1>16. /\ NextMessage(q, "import", "read")' = NextMessage(q, "import", "read")
       /\ NextMessage(q, "export", "write")' = NextMessage(q, "export", "write")
       /\ NextIndex(q, "read")' = NextIndex(q, "read")
       /\ NextIndex(q, "write")' = NextIndex(q, "write")
  BY <1>1, FlowFrame DEF Others
<1>17. StreamInv(q)'
  <2>1. pipe'[q] = pipe[q]
    BY <1>1, <1>8 DEF PipeTypeOK
  <2>2. QED
    BY <1>1, <1>11, <1>15, <1>16, <2>1 DEF StreamInv
<1>18. /\ d \in 1..Len(script[p]) /\ d \in Nat /\ done[p] \in Nat /\ script[p][d].op = "export"
       /\ Bytes(script[p], d) = T /\ script[p] \in Seq(PipeOperation)
  BY <1>1, <1>2, CurrentFacts, ScriptFacts DEF Pending, Current, Bytes, T
<1>19. /\ Nth(script[p], "export", done[p]) \in Nat
       /\ Nth(script[p], "export", d) = Nth(script[p], "export", done[p]) + 1
  BY <1>1, <1>2, PendingCount
<1>20. moved[p] # size[p] /\ moved[p] \in Nat /\ size[p] \in Nat
  <2>1. moved[p] \in Nat /\ size[p] \in Nat
    BY <1>1, PipeAssumption DEF PipeTypeOK
  <2>2. QED
    BY <1>2, <2>1
<1>21. /\ NextMessage(p, "export", "write") = Nth(script[p], "export", d)
       /\ NextIndex(p, "write") = past + 1
  BY <1>1, <1>2, <1>19, <1>20 DEF NextMessage, NextIndex, past
<1>22. /\ NextMessage(p, "export", "write")' =
             IF past + n = T THEN Nth(script[p], "export", d) + 1 ELSE Nth(script[p], "export", d)
       /\ NextIndex(p, "write")' = IF past + n = T THEN 0 ELSE (past + n) + 1
  <2> DEFINE mm == moved[p] + Chunk(p)
  <2>1. /\ NextMessage(p, "export", "write")' =
             Nth(script[p], "export", done[p]) + (IF mm = size[p] THEN 2 ELSE 1)
        /\ NextIndex(p, "write")' = IF mm < size[p] THEN mm * w + 1 ELSE 0
    BY <1>1, <1>9, <1>10, <1>12 DEF NextMessage, NextIndex
  <2>2. mm < size[p] <=> mm # size[p]
    BY <1>4, <1>20
  <2>3. mm * w = past + n /\ (mm = size[p] <=> past + n = T)
    BY <1>4
  <2> HIDE DEF mm, w, d
  <2>4. QED
    BY <1>19, <2>1, <2>2, <2>3
<1>23. StreamInv(p)'
  <2>1. \A j \in 1..Len(B) : /\ Written(script[p], B[j]) /\ B[j].no = d
                             /\ B[j].index = (past + 1) + (j - 1)
    <3> SUFFICES ASSUME NEW j \in 1..n
                 PROVE  /\ Written(script[p], B[j]) /\ B[j].no = d
                        /\ B[j].index = (past + 1) + (j - 1)
      BY <1>8
    <3>1. B[j] \in Byte
      BY <1>8
    <3>2. B[j].no = d /\ B[j].index = past + j
      BY <1>8
    <3>3. j \in Nat /\ past + j = (past + 1) + (j - 1) /\ past + j <= T
      BY <1>4
    <3>4. QED
      BY <1>18, <3>1, <3>2, <3>3 DEF Written
  <2>2. B[Len(B)].no = d /\ B[Len(B)].index = past + n
    <3>1. n \in 1..n
      BY <1>4, <1>5
    <3>2. QED
      BY <1>8, <3>1
  <2>3. After(script[p], B[Len(B)], NextMessage(p, "export", "write")',
              NextIndex(p, "write")')
    <3>1. past + n < T <=> past + n # T
      BY <1>4
    <3> HIDE DEF d
    <3>2. QED
      BY <1>18, <1>22, <2>2, <3>1 DEF After, Number
  <2>4. pipe[p] \in Seq(Byte) /\ \A j \in 1..Len(pipe[p]) : Written(script[p], pipe[p][j])
    BY <1>11, PipeWritten
  <2>5. Stream(script[p], pipe[p], NextMessage(q, "import", "read"), NextIndex(q, "read"),
               NextMessage(p, "export", "write"), past + 1)
    BY <1>11, <1>21 DEF StreamInv
  <2>6. Stream(script[p], pipe[p] \o B, NextMessage(q, "import", "read"),
                NextIndex(q, "read"), NextMessage(p, "export", "write")',
                NextIndex(p, "write")')
    <3>1. Len(B) > 0 /\ past + 1 \in Nat /\ d \in Nat
      BY <1>4, <1>5, <1>8, <1>18
    <3> HIDE DEF d
    <3>2. Nth(script[p], "export", d) = NextMessage(p, "export", "write")
      BY <1>21
    <3>3. QED
      BY <1>18, <2>1, <2>3, <2>4, <2>5, <3>1, <3>2, StreamWrite
  <2>7. pipe'[p] = pipe[p] \o B
    BY <1>1, <1>8 DEF PipeTypeOK
  <2>8. QED
    BY <1>1, <1>16, <2>6, <2>7 DEF StreamInv
<1>24. QED
  BY <1>9, <1>13, <1>14, <1>17, <1>23

\* ReceiveSize(): the reader gets the size of the message it will read.
LEMMA ReceiveSizeFlow ==
    ASSUME PipeInv, FlowInv, script \in Coupled, NEW p \in Partner, Transfer(p), TypeOK',
           ReceiveSize(p)
    PROVE  /\ ChunkInv(p)' /\ ReadInv(p)' /\ Delivers(p)'
           /\ StreamInv(p)' /\ StreamInv(Other(p))'
<1> DEFINE q == Other(p)
           d == done[p] + 1
           w == Current(p).width
           B == pipe[q]
           m == B[1].no
           s == script[q][m].size
<1>1. /\ q \in Partner /\ q # p /\ Other(q) = p /\ Delivers(p) /\ PlaceInv(p) /\ PipeTypeOK
      /\ UNCHANGED <<done, call, script, session>> /\ Others(p)
      /\ step[p] = "ready" /\ pc[p] = "connected" /\ Pending(p, "import")
      /\ step'[p] = "read" /\ moved'[p] = 0 /\ size'[p] \in SizesRead(p)
      /\ received'[p] = Append(received[p], <<>>)
      /\ pipe' = [pipe EXCEPT ![q] = SubSeq(B, 2, Len(B))]
  BY OtherPartner, ReceiveSizePlace, TransferFrame DEF FlowInv, PipeInv, memory, At
<1>2. Live /\ StreamInv(p) /\ StreamInv(q)
  <2>1. ~MkFifo(p)
    BY <1>1 DEF MkFifo, PipeAt
  <2>2. QED
    BY <1>1, <2>1, TransferLive DEF FlowInv
<1>3. /\ B \in Seq(Byte) /\ Len(B) \in Nat
      /\ \A j \in 1..Len(B) : Written(script[q], B[j]) /\ B[j].no \in Exports(q)
  BY <1>1, <1>2, PipeWritten
<1>4. B # <<>> /\ Len(B) > 0 /\ 1 \in 1..Len(B)
  <2>1. ASSUME B = <<>> PROVE FALSE
    <3>1. HasWriter(q)
      BY <1>1, <2>1, WillBeWritten
    <3>2. Len(B) = 0
      BY <2>1
    <3>3. QED
      BY <3>1, <3>2 DEF ReceiveSize, Readable
  <2>2. QED
    BY <1>3, <2>1
<1>5. /\ d \in 1..Len(script[p]) /\ script[p][d].op = "import" /\ w \in Nat \ {0}
      /\ done[p] \in Nat /\ Current(p) = script[p][d] /\ Current(p)' = Current(p)
      /\ done[p] < Len(script[p])
  BY <1>1, CurrentFacts, ScriptFacts DEF Pending, Current
<1>6. /\ Nth(script[p], "import", done[p]) \in Nat
      /\ Nth(script[p], "import", d) = Nth(script[p], "import", done[p]) + 1
  BY <1>1, PendingCount
<1>7. NextMessage(p, "import", "read") = Nth(script[p], "import", d) /\ NextIndex(p, "read") = 0
  BY <1>1, <1>6 DEF NextMessage, NextIndex
<1>8. /\ B[1].index = 0 /\ Nth(script[q], "export", m) = Nth(script[p], "import", d)
      /\ m \in Exports(q) /\ Written(script[q], B[1])
  BY <1>1, <1>2, <1>3, <1>4, <1>7 DEF StreamInv, Stream, Number
<1>9. size'[p] = s
  BY <1>1, <1>3, <1>4, <1>8 DEF SizesRead
<1>10. w = script[q][m].width /\ Bytes(script[q], m) = s * w /\ s \in Nat
  <2>1. script[p][d].width = script[q][m].width
    BY <1>1, <1>5, <1>8, CoupledFacts, ZenonT(40)
  <2>2. s \in Nat
    BY <1>1, <1>8, ScriptFacts, PipeAssumption, SMTT(30) DEF Exports
  <2>3. QED
    BY <1>5, <2>1, <2>2 DEF Bytes
<1>11. s * w \in Nat /\ (s = 0 <=> ~(1 <= s * w))
  <2>1. s \in Nat /\ w \in Nat /\ w > 0
    BY <1>5, <1>10
  <2> HIDE DEF s, w
  <2>2. s * w \in Nat /\ s <= s * w
    BY <2>1, Product
  <2>3. s = 0 => s * w = 0
    BY <2>1
  <2>4. QED
    BY <2>1, <2>2, <2>3
<1>12. /\ NextMessage(p, "import", "read")' =
             IF s = 0 THEN Nth(script[p], "import", d) + 1 ELSE Nth(script[p], "import", d)
       /\ NextIndex(p, "read")' = IF s = 0 THEN 0 ELSE 1
  <2>1. /\ NextMessage(p, "import", "read")' =
             Nth(script[p], "import", done[p]) + (IF 0 = s THEN 2 ELSE 1)
        /\ NextIndex(p, "read")' = IF 0 < s THEN 0 * w + 1 ELSE 0
    BY <1>1, <1>5, <1>9 DEF NextMessage, NextIndex
  <2> HIDE DEF s, w, d
  <2>2. w \in Nat /\ s \in Nat
    BY <1>5, <1>10
  <2>3. 0 * w + 1 = 1 /\ (0 < s <=> s # 0)
    BY <2>2
  <2>4. QED
    BY <1>6, <2>1, <2>3
<1>13. /\ NextMessage(p, "export", "write")' = NextMessage(p, "export", "write")
       /\ NextIndex(p, "write")' = NextIndex(p, "write")
  BY <1>1 DEF NextMessage, NextIndex
<1>14. /\ NextMessage(q, "import", "read")' = NextMessage(q, "import", "read")
       /\ NextMessage(q, "export", "write")' = NextMessage(q, "export", "write")
       /\ NextIndex(q, "read")' = NextIndex(q, "read")
       /\ NextIndex(q, "write")' = NextIndex(q, "write")
  BY <1>1, FlowFrame DEF Others
<1>15. StreamInv(p)'
  <2>1. pipe'[p] = pipe[p]
    BY <1>1 DEF PipeTypeOK
  <2>2. QED
    BY <1>1, <1>2, <1>13, <1>14, <2>1 DEF StreamInv
<1>16. StreamInv(q)'
  <2> HIDE DEF s, w, d
  <2>1. Stream(script[q], B, Nth(script[p], "import", d), 0, NextMessage(q, "export", "write"),
               NextIndex(q, "write"))
    BY <1>1, <1>2, <1>7 DEF StreamInv
  <2>2. script[q] \in Seq(PipeOperation)
    BY <1>1, ScriptFacts
  <2>3. /\ 0 + (1 - 1) <= Bytes(script[q], B[1].no)
        /\ IF 0 + 1 <= Bytes(script[q], B[1].no)
           THEN /\ NextMessage(p, "import", "read")' = Nth(script[p], "import", d)
                /\ NextIndex(p, "read")' = 0 + 1
           ELSE /\ NextMessage(p, "import", "read")' = Nth(script[p], "import", d) + 1
                /\ NextIndex(p, "read")' = 0
    BY <1>10, <1>11, <1>12
  <2>4. Stream(script[q], SubSeq(B, 1 + 1, Len(B)), NextMessage(p, "import", "read")',
               NextIndex(p, "read")', NextMessage(q, "export", "write"), NextIndex(q, "write"))
    <3> HIDE DEF B
    <3>1. QED
      BY <1>3, <1>4, <2>1, <2>2, <2>3, StreamRead
  <2>5. pipe'[q] = SubSeq(B, 1 + 1, Len(B))
    BY <1>1 DEF PipeTypeOK
  <2>6. QED
    BY <1>1, <1>14, <2>4, <2>5 DEF StreamInv
<1>17. ChunkInv(p)'
  <2>1. call'[p] = 0
    BY <1>1 DEF PlaceInv
  <2>2. 0 \in 0..0 /\ Buffer \div w \in Nat
    BY <1>1, <1>5, ChunkFacts, SMTT(30) DEF PlaceInv
  <2>3. \E k \in 0..moved'[p] : moved'[p] = k * (Buffer \div Current(p)'.width)
    BY <1>1, <1>5, <2>2
  <2>4. QED
    BY <1>1, <2>1, <2>3 DEF ChunkInv, Buffer
<1>18. received[p] \in Seq(Seq(Byte)) /\ Len(received[p]) = done[p]
  BY <1>1 DEF PipeTypeOK, PlaceInv
<1>19. ReadInv(p)'
  <2>1. received'[p][d] = <<>>
    BY <1>1, <1>18
  <2>2. Elements(q, m, session[p], 0 * w) = <<>>
    <3>1. 0 * w = 0
      BY <1>5
    <3>2. Elements(q, m, session[p], 0) = <<>>
      BY DEF Elements
    <3>3. QED
      BY <3>1, <3>2
  <2>3. /\ Nth(script[q], "export", m) = Nth(script[p], "import", d)
        /\ size'[p] = s
        /\ received'[p][d] = Elements(q, m, session[p], 0 * w)
    BY <1>8, <1>9, <2>1, <2>2
  <2>4. QED
    BY <1>1, <1>5, <1>8, <2>3 DEF ReadInv, Exports
<1>20. Delivers(p)'
  <2>1. SUFFICES ASSUME NEW n \in 1..Len(received'[p]), n <= done[p],
                        script[p][n].op = "import"
                 PROVE  \E k \in Exports(q) :
                           /\ Nth(script[q], "export", k) = Nth(script[p], "import", n)
                           /\ received'[p][n] = Elements(q, k, session[p], Total(q, k))
    BY <1>1 DEF Delivers, Exports, Total
  <2>2. n \in 1..Len(received[p]) /\ received'[p][n] = received[p][n]
    BY <1>1, <1>5, <1>18, <2>1
  <2>3. QED
    BY <1>1, <2>1, <2>2 DEF Delivers
<1>21. QED
  BY <1>15, <1>16, <1>17, <1>19, <1>20

\* Multiples of c lie at least c apart, and elements can be compared by their bytes.
LEMMA Multiples ==
    ASSUME NEW a \in Nat, NEW b \in Nat, NEW c \in Nat, a * c < b * c
    PROVE  a < b /\ a * c + c <= b * c
<1>1. a * c \in Nat /\ b * c \in Nat /\ (b <= a => b * c <= a * c)
  BY Product
<1>2. a < b /\ a + 1 <= b /\ a + 1 \in Nat
  BY <1>1
<1>3. (a + 1) * c <= b * c
  BY <1>2, Product
<1>4. (a + 1) * c = a * c + c
  OBVIOUS
<1>5. QED
  BY <1>1, <1>2, <1>3, <1>4

(***************************************************************************)
(* A reader never has to take less than it asks for: the writer puts whole *)
(* chunks of the same size into the pipe, so the next one is there as a    *)
(* whole, or nothing of it.                                                *)
(***************************************************************************)
LEMMA WholeChunk ==
    ASSUME PipeInv, FlowInv, script \in Coupled, NEW p \in Partner, pc[p] = "connected",
           step[p] = "read", moved[p] < size[p], pipe[Other(p)] # <<>>
    PROVE  LET q == Other(p)
               m == pipe[q][1].no
               w == Current(p).width
           IN  /\ m \in Exports(q) /\ pipe[q][1].index = moved[p] * w + 1
               /\ Nth(script[q], "export", m) = Nth(script[p], "import", done[p] + 1)
               /\ NextMessage(p, "import", "read") = Nth(script[p], "import", done[p] + 1)
               /\ NextIndex(p, "read") = moved[p] * w + 1
               /\ size[p] = script[q][m].size /\ Bytes(script[q], m) = size[p] * w
               /\ received[p][done[p] + 1] = Elements(q, m, session[p], moved[p] * w)
               /\ Chunk(p) * w <= Len(pipe[q])
<1> DEFINE q == Other(p)
           d == done[p] + 1
           B == pipe[q]
           m == B[1].no
           w == Current(p).width
           past == moved[p] * w
           want == Chunk(p) * w
           T == size[p] * w
           L == Len(B)
<1>1. /\ PipeTypeOK /\ PlaceInv(p) /\ PlaceInv(q) /\ q \in Partner /\ Other(q) = p
      /\ Live /\ StreamInv(q) /\ ChunkInv(p) /\ ChunkInv(q) /\ ReadInv(p)
  BY OtherPartner, PastCreation DEF PipeInv, FlowInv, Creation
<1>2. /\ B \in Seq(Byte) /\ L \in Nat /\ L > 0 /\ 1 \in 1..L /\ L \in 1..L
      /\ \A j \in 1..L : B[j].no \in Exports(q) /\ B[j].index \in Nat
  <2>1. B \in Seq(Byte) /\ \A j \in 1..L : B[j].no \in Exports(q) /\ B[j].index \in Nat
    BY <1>1, PipeWritten
  <2>2. L \in Nat /\ L > 0
    BY <2>1
  <2>3. QED
    BY <2>1, <2>2
<1>3. /\ Pending(p, "import") /\ done[p] < Len(script[p]) /\ moved[p] \in Nat
      /\ size[p] \in Nat /\ moved[p] # size[p] /\ moved[p] <= size[p]
  BY <1>1, PipeAssumption DEF PlaceInv, Pending, PipeTypeOK
<1>4. /\ d \in 1..Len(script[p]) /\ script[p][d].op = "import" /\ Current(p) = script[p][d]
      /\ done[p] \in Nat
  BY <1>1, <1>3, CurrentFacts, ScriptFacts DEF Pending, Current
<1>5. /\ past \in Nat /\ want \in Nat /\ T \in Nat /\ w \in Nat /\ w > 0
      /\ past + want = (moved[p] + Chunk(p)) * w /\ past + want <= T
  BY <1>1, <1>3, ChunkPlace
<1>6. /\ Nth(script[p], "import", done[p]) \in Nat
      /\ Nth(script[p], "import", d) = Nth(script[p], "import", done[p]) + 1
  BY <1>1, <1>3, PendingCount
<1>7. /\ NextMessage(p, "import", "read") = Nth(script[p], "import", d)
      /\ NextIndex(p, "read") = past + 1
  BY <1>3, <1>6 DEF NextMessage, NextIndex
<1>8. PICK k \in Exports(q) :
         /\ Nth(script[q], "export", k) = Nth(script[p], "import", d)
         /\ size[p] = script[q][k].size
         /\ received[p][d] = Elements(q, k, session[p], past)
  BY <1>1 DEF ReadInv
<1>9. /\ m \in Exports(q) /\ Nth(script[q], "export", m) = Nth(script[p], "import", d)
      /\ B[1].index = past + 1
  BY <1>1, <1>2, <1>7 DEF StreamInv, Stream, Number
<1>10. script[q] \in Seq(PipeOperation)
  BY <1>1, ScriptFacts
<1>11. k = m
  BY <1>8, <1>9, <1>10, NthInjective DEF Exports
<1>12. w = script[q][m].width /\ Bytes(script[q], m) = T
  <2>1. script[p][d].width = script[q][m].width
    BY <1>1, <1>4, <1>9, CoupledFacts
  <2>2. w = script[q][m].width /\ size[p] = script[q][m].size
    BY <1>4, <1>8, <1>11, <2>1
  <2>3. QED
    BY <2>2 DEF Bytes
<1>13. want <= L
  <2>1. SUFFICES ASSUME L < want PROVE FALSE
    BY <1>2, <1>5
  <2> HIDE DEF past, want, T, L
  <2>2. past + L < T /\ past + L \in Nat /\ (past + 1) + (L - 1) = past + L
    BY <1>2, <1>5, <2>1
  <2>3. B[L].no = m /\ B[L].index = past + L
    <3>1. \A h, i \in 1..L : h <= i /\ B[h].index + (i - h) <= Bytes(script[q], B[h].no) =>
              B[i].no = B[h].no /\ B[i].index = B[h].index + (i - h)
      BY <1>1 DEF StreamInv, Stream, L
    <3>2. 1 <= L /\ B[1].index + (L - 1) <= Bytes(script[q], B[1].no)
      <4>1. 1 <= L /\ (past + 1) + (L - 1) <= T
        BY <1>2, <1>5, <2>2
      <4>2. QED
        BY <1>9, <1>12, <4>1
    <3>3. B[L].no = B[1].no /\ B[L].index = B[1].index + (L - 1)
      BY <1>2, <3>1, <3>2
    <3>4. QED
      BY <1>9, <2>2, <3>3
  <2>4. /\ NextMessage(q, "export", "write") = Nth(script[q], "export", m)
        /\ NextIndex(q, "write") = (past + L) + 1
    <3>1. After(script[q], B[L], NextMessage(q, "export", "write"), NextIndex(q, "write"))
      BY <1>1 DEF StreamInv, Stream, L
    <3>2. QED
      BY <1>12, <2>2, <2>3, <3>1 DEF After, Number
  <2>5. step[q] = "write" /\ moved[q] < size[q] /\ moved[q] * Current(q).width + 1 = (past + L) + 1
    BY <2>2, <2>4 DEF NextIndex
  <2>6. /\ Pending(q, "export") /\ moved[q] # size[q] /\ moved[q] \in Nat
        /\ done[q] + 1 \in 1..Len(script[q]) /\ script[q][done[q] + 1].op = "export"
    <3>1. moved[q] \in Nat /\ size[q] \in Nat /\ Pending(q, "export")
      BY <1>1, <2>5, PipeAssumption DEF PipeTypeOK, PlaceInv
    <3>2. QED
      BY <1>1, <2>5, <3>1, CurrentFacts DEF Pending, Current
  <2>7. Nth(script[q], "export", done[q] + 1) = Nth(script[q], "export", m)
    <3>1. /\ Nth(script[q], "export", done[q]) \in Nat
          /\ Nth(script[q], "export", done[q] + 1) = Nth(script[q], "export", done[q]) + 1
      BY <1>1, <2>6, PendingCount
    <3>2. NextMessage(q, "export", "write") = Nth(script[q], "export", done[q]) + 1
      BY <2>5, <2>6 DEF NextMessage
    <3>3. QED
      BY <2>4, <3>1, <3>2
  <2>8. done[q] + 1 = m
    BY <1>9, <1>10, <2>6, <2>7, NthInjective DEF Exports
  <2>9. Current(q).width = w
    BY <1>12, <2>8 DEF Current
  <2> DEFINE c == Buffer \div w
  <2>10. c \in Nat /\ Chunk(p) \in Nat /\ Chunk(p) <= c
    BY <1>1, <1>3, ChunkFacts
  <2>11. PICK k1 \in 0..moved[p] : moved[p] = k1 * c
    BY <1>1, <1>3 DEF ChunkInv
  <2>12. PICK k2 \in 0..moved[q] : moved[q] = k2 * c
    BY <1>1, <2>5, <2>6, <2>9 DEF ChunkInv
  <2>13. moved[q] * w = past + L
    <3>1. moved[q] * w \in Nat
      BY <1>5, <2>6, Product
    <3>2. moved[q] * w + 1 = (past + L) + 1
      BY <2>5, <2>9
    <3> DEFINE x == moved[q] * w
    <3> HIDE DEF x
    <3>3. x \in Nat /\ x + 1 = (past + L) + 1
      BY <3>1, <3>2 DEF x
    <3>4. x = past + L
      BY <2>2, <3>3
    <3>5. QED
      BY <3>4 DEF x
  <2>14. moved[p] < moved[q]
    <3>1. past < past + L
      BY <1>2, <1>5
    <3>2. moved[p] * w < moved[q] * w
      BY <2>13, <3>1 DEF past
    <3>3. QED
      BY <1>3, <1>5, <2>6, <3>2, Multiples
  <2>15. moved[p] + c <= moved[q]
    <3>1. k1 \in Nat /\ k2 \in Nat
      BY <1>3, <2>6
    <3> HIDE DEF c
    <3>2. k1 * c + c <= k2 * c
      BY <2>10, <2>11, <2>12, <2>14, <3>1, Multiples
    <3>3. QED
      BY <2>11, <2>12, <3>2
  <2>16. moved[p] + Chunk(p) <= moved[q] /\ moved[p] + Chunk(p) \in Nat
    <3> HIDE DEF c
    <3>1. QED
      BY <1>3, <2>6, <2>10, <2>15, SMTT(30)
  <2>17. (moved[p] + Chunk(p)) * w <= moved[q] * w
    <3> DEFINE x == moved[p] + Chunk(p)
    <3> HIDE DEF x, w
    <3>1. x * w <= moved[q] * w
      BY <1>5, <2>6, <2>16, Product DEF x
    <3>2. QED
      BY <3>1 DEF x
  <2>18. past + want <= past + L
    BY <1>5, <2>13, <2>17
  <2>19. QED
    BY <1>2, <1>5, <2>1, <2>18
<1>14. QED
  BY <1>7, <1>8, <1>9, <1>11, <1>12, <1>13
\* The bytes C are elements of message m of partner q, those after the first k.
NextElements(C, q, m, s, k) ==
    \A i \in 1..Len(C) : /\ C[i].from = q /\ C[i].session = s
                         /\ C[i].no = m /\ C[i].index = k + i

\* The elements of a message, put together from two parts.
LEMMA ElementsConcat ==
    ASSUME NEW q \in Partner, NEW m \in Nat, NEW s \in Nat, NEW k \in Nat,
           NEW C \in Seq(Byte), NextElements(C, q, m, s, k)
    PROVE  Elements(q, m, s, k) \o C = Elements(q, m, s, k + Len(C))
<1> DEFINE n == Len(C)
           A == Elements(q, m, s, k)
           D == Elements(q, m, s, k + n)
           elem(i) == [from |-> q, session |-> s, no |-> m, index |-> i]
<1>0. n \in Nat
  OBVIOUS
<1> HIDE DEF n
<1>1. \A i \in Nat : elem(i) \in Byte
  BY DEF Byte
<1>2. k + n \in Nat
  BY <1>0
<1>3. A \in Seq(Byte) /\ Len(A) = k /\ \A i \in 1..k : A[i] = elem(i)
  BY <1>1 DEF Elements
<1>4. D \in Seq(Byte) /\ Len(D) = k + n /\ \A i \in 1..(k + n) : D[i] = elem(i)
  BY <1>1, <1>2 DEF Elements
<1> HIDE DEF A, D
<1>5. /\ A \o C \in Seq(Byte) /\ Len(A \o C) = k + n
      /\ \A i \in 1..(k + n) : (A \o C)[i] = IF i <= k THEN A[i] ELSE C[i - k]
  <2>1. /\ A \o C \in Seq(Byte) /\ Len(A \o C) = Len(A) + Len(C)
        /\ \A i \in 1..(Len(A) + Len(C)) :
              (A \o C)[i] = IF i <= Len(A) THEN A[i] ELSE C[i - Len(A)]
    BY <1>3, ConcatProperties
  <2>2. QED
    BY <1>3, <2>1 DEF n
<1>6. ASSUME NEW i \in 1..(k + n) PROVE (A \o C)[i] = D[i]
  <2>1. D[i] = elem(i)
    BY <1>4
  <2>2. CASE i <= k
    <3>1. i \in 1..k
      BY <1>0, <2>2
    <3>2. QED
      BY <1>3, <1>5, <2>1, <2>2, <3>1
  <2>3. CASE ~(i <= k)
    <3>1. i - k \in 1..n /\ k + (i - k) = i
      BY <1>0, <2>3
    <3>2. C[i - k] = elem(k + (i - k))
      <4>1. C[i - k] \in Byte
        BY <3>1 DEF n
      <4>2. QED
        BY <3>1, <4>1 DEF Byte, n, NextElements
    <3>3. (A \o C)[i] = C[i - k]
      BY <1>5, <2>3
    <3>4. QED
      BY <2>1, <3>1, <3>2, <3>3
  <2>4. QED
    BY <2>2, <2>3
<1>7. A \o C = D
  BY <1>4, <1>5, <1>6, SeqEqual
<1>8. QED
  BY <1>7 DEF A, D, n

\* A chunk is read: the next elements of the message in progress.
LEMMA ReadChunkFlow ==
    ASSUME PipeInv, FlowInv, script \in Coupled, NEW p \in Partner, Transfer(p), TypeOK',
           ReadChunk(p)
    PROVE  /\ ChunkInv(p)' /\ ReadInv(p)' /\ Delivers(p)'
           /\ StreamInv(p)' /\ StreamInv(Other(p))'
<1> DEFINE q == Other(p)
           d == done[p] + 1
           B == pipe[q]
           m == B[1].no
           w == Current(p).width
           past == moved[p] * w
           want == Chunk(p) * w
           T == size[p] * w
<1>1. /\ q \in Partner /\ q # p /\ Other(q) = p /\ PlaceInv(p) /\ PipeTypeOK
      /\ ChunkInv(p) /\ ReadInv(p) /\ Delivers(p)
      /\ UNCHANGED <<done, script, session>> /\ Others(p) /\ pc[p] = "connected"
      /\ UNCHANGED <<step, size, call>>
      /\ step[p] = "read" /\ moved[p] < size[p] /\ moved'[p] = moved[p] + Chunk(p)
      /\ Readable(p) \/ want = 0
  <2>1. /\ q \in Partner /\ q # p /\ Other(q) = p /\ PlaceInv(p) /\ PipeTypeOK
        /\ ChunkInv(p) /\ ReadInv(p) /\ Delivers(p)
    BY OtherPartner DEF FlowInv, PipeInv
  <2>2. UNCHANGED <<script, session>> /\ Others(p) /\ pc[p] = "connected"
    BY TransferFrame DEF memory, At
  <2>3. /\ UNCHANGED <<done, step, size, call>> /\ step[p] = "read" /\ moved[p] < size[p]
        /\ moved' = [moved EXCEPT ![p] = moved[p] + Chunk(p)]
        /\ Readable(p) \/ want = 0
    BY ReadFacts
  <2>4. QED
    BY <2>1, <2>2, <2>3 DEF PipeTypeOK
<1>2. Live /\ StreamInv(p) /\ StreamInv(q)
  <2>1. ~MkFifo(p)
    BY <1>1 DEF MkFifo, PipeAt
  <2>2. QED
    BY <1>1, <2>1, TransferLive DEF FlowInv
<1>3. /\ B \in Seq(Byte) /\ Len(B) \in Nat
      /\ \A j \in 1..Len(B) :
            /\ Written(script[q], B[j]) /\ B[j] \in Byte
            /\ B[j].from = q /\ B[j].session = session[q]
  BY <1>1, <1>2, PipeWritten
<1>4. /\ Pending(p, "import") /\ done[p] < Len(script[p]) /\ moved[p] \in Nat
      /\ size[p] \in Nat /\ moved[p] # size[p] /\ moved[p] <= size[p] /\ call[p] = 0
  BY <1>1, PipeAssumption DEF PlaceInv, Pending, PipeTypeOK
<1>5. /\ d \in 1..Len(script[p]) /\ d \in Nat /\ done[p] \in Nat /\ Current(p)' = Current(p)
      /\ received[p] \in Seq(Seq(Byte)) /\ Len(received[p]) = d
      /\ received[p][d] \in Seq(Byte)
  <2>1. /\ d \in 1..Len(script[p]) /\ d \in Nat /\ done[p] \in Nat /\ Current(p)' = Current(p)
    BY <1>1, <1>4, CurrentFacts, ScriptFacts DEF Current
  <2>2. received[p] \in Seq(Seq(Byte)) /\ Len(received[p]) = d
    BY <1>1 DEF PipeTypeOK, PlaceInv
  <2>3. QED
    BY <2>1, <2>2
<1>6. /\ past \in Nat /\ want \in Nat /\ T \in Nat /\ w \in Nat \ {0}
      /\ past + want = (moved[p] + Chunk(p)) * w /\ past + want <= T
      /\ moved[p] + Chunk(p) <= size[p] /\ moved[p] + Chunk(p) \in Nat
      /\ moved[p] + Chunk(p) = size[p] <=> past + want = T
  BY <1>1, <1>4, ChunkPlace, NextChunk
<1>7. PICK n \in 0..Len(B), got \in Seq(Byte) :
         /\ n <= want /\ (n < want => n = Len(B))
         /\ pipe' = [pipe EXCEPT ![q] = SubSeq(B, n + 1, Len(B))]
         /\ Len(got) = want
         /\ \A i \in 1..want : got[i] = IF i <= n THEN B[i] ELSE Garbage
         /\ received' = [received EXCEPT ![p] =
               [received[p] EXCEPT ![done[p] + 1] = received[p][done[p] + 1] \o got]]
  BY ReadFacts
<1>8. pipe'[p] = pipe[p] /\ pipe'[q] = SubSeq(B, n + 1, Len(B))
  BY <1>1, <1>7 DEF PipeTypeOK
<1>9. received'[p] = [received[p] EXCEPT ![d] = received[p][d] \o got]
  BY <1>1, <1>7 DEF PipeTypeOK
<1>10. /\ NextMessage(q, "import", "read")' = NextMessage(q, "import", "read")
       /\ NextMessage(q, "export", "write")' = NextMessage(q, "export", "write")
       /\ NextIndex(q, "read")' = NextIndex(q, "read")
       /\ NextIndex(q, "write")' = NextIndex(q, "write")
  BY <1>1, FlowFrame DEF Others
<1>11. StreamInv(p)'
  <2>1. /\ NextMessage(p, "export", "write")' = NextMessage(p, "export", "write")
        /\ NextIndex(p, "write")' = NextIndex(p, "write")
    BY <1>1 DEF NextMessage, NextIndex
  <2>2. QED
    BY <1>1, <1>2, <1>8, <1>10, <2>1 DEF StreamInv
<1>12. ChunkInv(p)'
  <2>1. \/ moved[p] + Chunk(p) = size[p]
        \/ \E j \in 0..(moved[p] + Chunk(p)) : moved[p] + Chunk(p) = j * (Buffer \div w)
    BY <1>1, <1>4, NextChunk
  <2>2. QED
    BY <1>1, <1>4, <1>5, <2>1 DEF ChunkInv, Buffer
<1>13. CASE want = 0
  <2>1. n = 0 /\ SubSeq(B, n + 1, Len(B)) = B
    <3>1. n = 0
      BY <1>3, <1>7, <1>13
    <3>2. QED
      BY <1>3, <3>1, SubSeqFull
  <2>2. moved'[p] = moved[p]
    <3>1. Chunk(p) \in Nat /\ w \in Nat /\ w > 0
      <4>1. Chunk(p) \in Nat
        BY <1>1, <1>4, ChunkFacts
      <4> HIDE DEF w
      <4>2. QED
        BY <1>6, <4>1
    <3>2. Chunk(p) <= want
      BY <3>1, Product
    <3>3. Chunk(p) = 0
      BY <1>13, <3>1, <3>2
    <3>4. QED
      BY <1>1, <1>4, <3>3
  <2>3. received'[p] = received[p]
    <3>1. got = <<>>
      BY <1>7, <1>13, EmptySeq
    <3>2. received[p][d] \o got = received[p][d]
      BY <1>5, <3>1, ConcatEmptySeq
    <3>3. [received[p] EXCEPT ![d] = received[p][d]] = received[p]
      <4>1. received[p] \in [1..Len(received[p]) -> Seq(Byte)]
        BY <1>5, LenProperties
      <4> HIDE DEF d
      <4>2. QED
        BY <4>1
    <3>4. QED
      BY <1>9, <3>2, <3>3
  <2>4. /\ ReadInv(p)' /\ Delivers(p)'
        /\ NextMessage(p, "import", "read")' = NextMessage(p, "import", "read")
        /\ NextIndex(p, "read")' = NextIndex(p, "read")
    BY <1>1, <2>2, <2>3, FlowFrame
  <2>5. StreamInv(q)'
    BY <1>1, <1>2, <1>8, <1>10, <2>1, <2>4 DEF StreamInv
  <2>6. QED
    BY <1>11, <1>12, <2>4, <2>5
<1>14. CASE want # 0
  <2>1. B # <<>>
    <3>1. SUFFICES ASSUME B = <<>> PROVE FALSE
      OBVIOUS
    <3>2. HasWriter(q) /\ Len(B) = 0
      BY <1>1, <3>1, WillBeWritten
    <3>3. QED
      BY <1>1, <1>14, <3>2 DEF Readable
  <2>2. /\ m \in Exports(q) /\ B[1].index = past + 1
        /\ Nth(script[q], "export", m) = Nth(script[p], "import", d)
        /\ NextMessage(p, "import", "read") = Nth(script[p], "import", d)
        /\ NextIndex(p, "read") = past + 1
        /\ size[p] = script[q][m].size /\ Bytes(script[q], m) = T
        /\ received[p][d] = Elements(q, m, session[p], past)
        /\ want <= Len(B)
    BY <1>1, <2>1, WholeChunk
  <2> HIDE DEF want, past, T
  <2>3. n = want /\ n \in 1..Len(B) /\ want \in Nat /\ want > 0
    BY <1>3, <1>6, <1>7, <1>14, <2>2, SMTT(30)
  <2>4. /\ NextMessage(p, "import", "read")' =
              IF past + want = T THEN Nth(script[p], "import", d) + 1
              ELSE Nth(script[p], "import", d)
        /\ NextIndex(p, "read")' = IF past + want = T THEN 0 ELSE (past + want) + 1
    <3> DEFINE mm == moved[p] + Chunk(p)
    <3>1. /\ NextMessage(p, "import", "read")' =
               Nth(script[p], "import", done[p]) + (IF mm = size[p] THEN 2 ELSE 1)
          /\ NextIndex(p, "read")' = IF mm < size[p] THEN mm * w + 1 ELSE 0
      BY <1>1, <1>5 DEF NextMessage, NextIndex
    <3>2. mm < size[p] <=> mm # size[p]
      BY <1>4, <1>6
    <3>3. mm * w = past + want /\ (mm = size[p] <=> past + want = T)
      BY <1>6
    <3>4. /\ Nth(script[p], "import", done[p]) \in Nat
          /\ Nth(script[p], "import", d) = Nth(script[p], "import", done[p]) + 1
      BY <1>1, <1>4, PendingCount
    <3> HIDE DEF mm, w, d
    <3>5. QED
      BY <3>1, <3>2, <3>3, <3>4
  <2>5. /\ Stream(script[q], SubSeq(B, n + 1, Len(B)), NextMessage(p, "import", "read")',
                  NextIndex(p, "read")', NextMessage(q, "export", "write"),
                  NextIndex(q, "write"))
        /\ \A j \in 1..n : B[j].no = B[1].no /\ B[j].index = (past + 1) + (j - 1)
    <3>1. Stream(script[q], B, Nth(script[p], "import", d), past + 1,
                 NextMessage(q, "export", "write"), NextIndex(q, "write"))
      BY <1>1, <1>2, <2>2 DEF StreamInv
    <3>2. script[q] \in Seq(PipeOperation) /\ \A j \in 1..Len(B) : Written(script[q], B[j])
      BY <1>1, <1>3, ScriptFacts
    <3> HIDE DEF d, B
    <3>3. /\ (past + 1) + (n - 1) <= T
          /\ IF (past + 1) + n <= T
             THEN /\ NextMessage(p, "import", "read")' = Nth(script[p], "import", d)
                  /\ NextIndex(p, "read")' = (past + 1) + n
             ELSE /\ NextMessage(p, "import", "read")' = Nth(script[p], "import", d) + 1
                  /\ NextIndex(p, "read")' = 0
      <4>1. /\ (past + 1) + (n - 1) = past + want /\ (past + 1) + n = (past + want) + 1
            /\ (past + want) + 1 <= T <=> past + want # T
        BY <1>6, <2>3, SMTT(30)
      <4>2. QED
        BY <1>6, <2>4, <4>1
    <3>4. /\ (past + 1) + (n - 1) <= Bytes(script[q], B[1].no)
          /\ IF (past + 1) + n <= Bytes(script[q], B[1].no)
             THEN /\ NextMessage(p, "import", "read")' = Nth(script[p], "import", d)
                  /\ NextIndex(p, "read")' = (past + 1) + n
             ELSE /\ NextMessage(p, "import", "read")' = Nth(script[p], "import", d) + 1
                  /\ NextIndex(p, "read")' = 0
      BY <2>2, <3>3
    <3>5. QED
      BY <1>3, <2>3, <3>1, <3>2, <3>4, StreamRead
  <2>6. StreamInv(q)'
    BY <1>1, <1>8, <1>10, <2>5 DEF StreamInv
  <2>7. received[p][d] \o got = Elements(q, m, session[p], past + want)
    <3>1. session[p] \in Nat /\ m \in Nat /\ session[q] = session[p]
      <4>1. session[p] \in Nat
        BY <1>1 DEF PipeTypeOK, TypeOK
      <4>2. m \in Nat
        BY <2>2 DEF Exports
      <4>3. QED
        BY <1>1, <4>1, <4>2, InSession
    <3>2. ASSUME NEW i \in 1..want
          PROVE  /\ got[i].from = q /\ got[i].session = session[p]
                 /\ got[i].no = m /\ got[i].index = past + i
      <4>1. got[i] = B[i] /\ i \in 1..Len(B)
        BY <1>3, <1>7, <2>2, <2>3
      <4>2. B[i] \in Byte /\ B[i].from = q /\ B[i].session = session[p]
        BY <1>3, <3>1, <4>1
      <4>3. (past + 1) + (i - 1) = past + i
        BY <1>6, <2>3
      <4>4. B[i].no = m /\ B[i].index = past + i
        BY <2>3, <2>5, <4>3
      <4>5. QED
        BY <4>1, <4>2, <4>4
    <3> HIDE DEF m, d, q
    <3>3. Elements(q, m, session[p], past) \o got = Elements(q, m, session[p], past + want)
      <4>1. q \in Partner /\ past \in Nat /\ m \in Nat /\ session[p] \in Nat
        BY <1>1, <1>6, <3>1
      <4>2. /\ Len(got) = want
            /\ NextElements(got, q, m, session[p], past)
        BY <1>7, <3>2 DEF NextElements
      <4>3. Elements(q, m, session[p], past) \o got =
               Elements(q, m, session[p], past + Len(got))
        BY <4>1, <4>2, ElementsConcat, ZenonT(40)
      <4>4. QED
        BY <4>2, <4>3
    <3>4. QED
      BY <2>2, <3>3
  <2>8. /\ received'[p][d] = Elements(q, m, session[p], past + want)
        /\ Len(received'[p]) = Len(received[p])
        /\ \A j \in 1..Len(received[p]) : j # d => received'[p][j] = received[p][j]
    <3> DEFINE more == received[p][d] \o got
    <3>1. more \in Seq(Byte)
      BY <1>5, ConcatProperties
    <3>2. d \in 1..Len(received[p]) /\ received'[p] = [received[p] EXCEPT ![d] = more]
      BY <1>5, <1>9
    <3> HIDE DEF more, d
    <3>3. /\ Len(received'[p]) = Len(received[p])
          /\ \A j \in 1..Len(received[p]) :
                received'[p][j] = IF j = d THEN more ELSE received[p][j]
      BY <1>5, <3>1, <3>2, ExceptSeq
    <3>4. QED
      BY <2>7, <3>2, <3>3 DEF more
  <2>9. ReadInv(p)'
    <3>1. received'[p][d] = Elements(q, m, session[p], moved'[p] * w)
      BY <1>1, <1>6, <2>8
    <3>2. QED
      BY <1>1, <1>5, <2>2, <3>1 DEF ReadInv, Exports
  <2>10. Delivers(p)'
    <3>1. SUFFICES ASSUME NEW j \in 1..Len(received'[p]), j <= done[p],
                          script[p][j].op = "import"
                   PROVE  \E k \in Exports(q) :
                             /\ Nth(script[q], "export", k) = Nth(script[p], "import", j)
                             /\ received'[p][j] = Elements(q, k, session[p], Total(q, k))
      BY <1>1 DEF Delivers, Exports, Total
    <3>2. j \in 1..Len(received[p]) /\ j # d
      BY <1>5, <2>8, <3>1
    <3>3. received'[p][j] = received[p][j]
      BY <2>8, <3>2
    <3>4. QED
      BY <1>1, <3>1, <3>2, <3>3 DEF Delivers
  <2>11. QED
    BY <1>11, <1>12, <2>6, <2>9, <2>10
<1>15. QED
  BY <1>13, <1>14

\* A step of the exchange keeps the second layer of the invariant.
LEMMA TransferFlow ==
    ASSUME PipeInv, FlowInv, script \in Coupled, Buffer <= PipeBuf, NEW p \in Partner,
           Transfer(p)
    PROVE  FlowInv'
<1> DEFINE q == Other(p)
<1>1. /\ q \in Partner /\ q # p /\ \A r \in Partner : r = p \/ r = q
      /\ UNCHANGED <<script, session>> /\ Others(p)
  BY OtherPartner, TransferFrame DEF memory, Partner, Other
<1>2. TypeOK'
  BY TransferLifeCycle DEF IInv
<1>3. /\ ChunkInv(p)' /\ ReadInv(p)' /\ Delivers(p)'
      /\ Live' => StreamInv(p)' /\ StreamInv(q)'
  BY <1>2, MoveOnFlow, SendSizeFlow, WriteChunkFlow, KernelFlow, DoneFlow, ReceiveSizeFlow,
     ReadChunkFlow DEF Transfer
<1>4. ChunkInv(q)' /\ ReadInv(q)' /\ Delivers(q)'
  BY <1>1, FlowFrame DEF Others, FlowInv
<1>5. \A r \in Partner : OpenInv(r)'
  BY TransferOpen
<1>6. status' = status
  BY <1>2, TransferFrame, SendSizeFlow, KernelFlow
<1>7. QED
  BY <1>1, <1>3, <1>4, <1>5, <1>6 DEF FlowInv

-----------------------------------------------------------------------------
(* Connect and Disconnect keep the second layer of the invariant.           *)

\* While a partner is connected the other one has not left the connection.
StillThere ==
    PipeInv => \A p \in Partner :
        pc[p] = "connected" => tag[Other(p)] = "handshake" \/ Disconnecting(Other(p))

\* That is a part of what InSession says, and so true of the next state, too.
LEMMA StillThereHolds == StillThere
BY InSession DEF StillThere

\* The place in the stream of a partner that does not exchange data.
LEMMA StreamFrame ==
    ASSUME \A q \in Partner : StreamInv(q), UNCHANGED <<script, pipe, done>>,
           \A r \in Partner :
              \/ step'[r] = step[r] /\ size'[r] = size[r] /\ moved'[r] = moved[r]
              \/ step[r] \notin {"write", "read"} /\ step'[r] \notin {"write", "read"}
    PROVE  \A q \in Partner : StreamInv(q)'
<1>1. ASSUME NEW r \in Partner
      PROVE  /\ NextMessage(r, "import", "read")' = NextMessage(r, "import", "read")
             /\ NextMessage(r, "export", "write")' = NextMessage(r, "export", "write")
             /\ NextIndex(r, "read")' = NextIndex(r, "read")
             /\ NextIndex(r, "write")' = NextIndex(r, "write")
  BY DEF NextMessage, NextIndex, Current
<1>2. ASSUME NEW q \in Partner PROVE StreamInv(q)'
  <2>1. StreamInv(q) /\ Other(q) \in Partner
    BY OtherPartner
  <2>2. QED
    BY <1>1, <2>1 DEF StreamInv
<1>3. QED
  BY <1>2

\* A step inside Connect or Disconnect.
LEMMA ProtocolFlow ==
    ASSUME CommInFolder, PipeInv, FlowInv, script \in Coupled, NEW p \in Partner,
           Protocol(p), UNCHANGED pipeVars
    PROVE  FlowInv'
<1> DEFINE q == Other(p)
<1>1. /\ q \in Partner /\ q # p /\ Other(q) = p /\ \A r \in Partner : r = p \/ r = q
      /\ UNCHANGED <<script, done, step, pipe, size, moved, call, received>>
      /\ PlaceInv(p) /\ PlaceInv(q)
  BY OtherPartner DEF PipeInv, pipeVars, Partner, Other
<1>2. /\ PipeInv' /\ (Live' => Live)
      /\ \A r \in Partner : pc'[r] = "connected" =>
            tag'[Other(r)] = "handshake" \/ Disconnecting(Other(r))'
  <2>1. PipeInv' /\ (Live' => Live)
    BY ProtocolStep
  <2>2. StillThere'
    BY StillThereHolds, PTL
  <2>3. QED
    BY <2>1, <2>2 DEF StillThere
<1>3. /\ pc[p] # "connected" /\ session' = session /\ pc'[q] = pc[q] /\ tag'[q] = tag[q]
      /\ tag' = tag \/ (tag[p] = "conn" /\ tag'[p] = "handshake")
      /\ \A r \in Partner : status[r] # "crashed" => status'[r] # "crashed"
  BY <1>1, ProtocolFacts DEF PipeInv
<1>4. OpenInv(p)'
  BY <1>1, <1>3 DEF OpenInv, PlaceInv, FirstStep, Exchanging
<1>5. OpenInv(q)'
  <2>1. SUFFICES ASSUME step[q] \in Exchanging PROVE Opened(p)' \/ Disconnecting(p)'
    BY <1>1 DEF OpenInv
  <2>2. CASE Opened(p)
    BY <1>1, <2>2 DEF Opened
  <2>3. CASE Disconnecting(p)
    <3>1. pc[q] = "connected"
      BY <1>1, <2>1 DEF PlaceInv, FirstStep, Exchanging
    <3>2. tag'[p] = "handshake" \/ Disconnecting(p)'
      BY <1>1, <1>2, <1>3, <3>1
    <3>3. tag[p] = "disconn"
      BY <2>3 DEF Disconnecting, In
    <3>4. QED
      BY <1>3, <3>2, <3>3
  <2>4. QED
    BY <1>1, <2>1, <2>2, <2>3 DEF FlowInv, OpenInv
<1>6. \A r \in Partner : ChunkInv(r)' /\ ReadInv(r)' /\ Delivers(r)'
  BY <1>1, <1>3, FlowFrame DEF FlowInv
<1>7. Live' => \A r \in Partner : StreamInv(r)'
  BY <1>1, <1>2, StreamFrame DEF FlowInv
<1>8. QED
  BY <1>1, <1>3, <1>4, <1>5, <1>6, <1>7 DEF FlowInv

\* Disconnect(): a partner that leaves has written and read everything.
LEMMA PipeDisconnectFlow ==
    ASSUME PipeInv, FlowInv, script \in Coupled, NEW p \in Partner, PipeDisconnect(p)
    PROVE  FlowInv'
<1> DEFINE q == Other(p)
<1>1. /\ q \in Partner /\ q # p /\ Other(q) = p /\ \A r \in Partner : r = p \/ r = q
      /\ PlaceInv(p)
  BY OtherPartner DEF PipeInv, Partner, Other
<1>2. /\ Live /\ Disconnecting(p)' /\ step'[p] = FirstStep(p) /\ step[p] = "half_closed"
      /\ UNCHANGED <<script, done, pipe, size, moved, call, received, session, status>>
      /\ step'[q] = step[q] /\ pc'[q] = pc[q] /\ tag'[q] = tag[q]
  BY <1>1, PipeDisconnectStep
<1>3. step'[p] \notin Exchanging /\ step'[p] \notin {"write", "read"} /\ call[p] = 0
  BY <1>1, <1>2 DEF FirstStep, Exchanging, PlaceInv
<1>4. OpenInv(p)' /\ OpenInv(q)'
  BY <1>1, <1>2, <1>3 DEF OpenInv
<1>5. ChunkInv(p)' /\ ReadInv(p)' /\ Delivers(p)'
  <2>1. Delivers(p)
    BY DEF FlowInv
  <2>2. Delivers(p)'
    BY <1>2, <2>1 DEF Delivers, Exports, Total
  <2>3. QED
    BY <1>2, <1>3, <2>2 DEF ChunkInv, ReadInv
<1>6. ChunkInv(q)' /\ ReadInv(q)' /\ Delivers(q)'
  BY <1>1, <1>2, FlowFrame DEF FlowInv
<1>7. \A r \in Partner : StreamInv(r)'
  BY <1>1, <1>2, <1>3, StreamFrame DEF FlowInv
<1>8. QED
  BY <1>1, <1>2, <1>4, <1>5, <1>6, <1>7 DEF FlowInv

\* Connect(): nothing has been received in the new session.
LEMMA PipeConnectFlow ==
    ASSUME PipeInv, FlowInv, script \in Coupled, NEW p \in Partner, PipeConnect(p)
    PROVE  FlowInv'
<1> DEFINE q == Other(p)
<1>1. /\ q \in Partner /\ q # p /\ Other(q) = p /\ \A r \in Partner : r = p \/ r = q
  BY OtherPartner DEF Partner, Other
<1>2. /\ ~Live' /\ step[p] = FirstStep(p) /\ call[p] = 0 /\ received'[p] = <<>>
      /\ UNCHANGED <<script, step, pipe, size, moved, call, status>>
      /\ done'[q] = done[q] /\ received'[q] = received[q] /\ session'[q] = session[q]
  BY <1>1, PipeConnectStep
<1>3. step[p] \notin Exchanging /\ step[p] \notin {"write", "read"} /\ ~Opened(p)
  BY <1>2 DEF FirstStep, Exchanging, Opened
<1>4. ~Disconnecting(p)
  BY DEF PipeConnect, Connect, At, Disconnecting, In, FileStep
<1>5. OpenInv(p)' /\ OpenInv(q)'
  <2>1. step[q] \notin Exchanging
    BY <1>1, <1>3, <1>4 DEF FlowInv, OpenInv
  <2>2. QED
    BY <1>2, <1>3, <2>1 DEF OpenInv
<1>6. ChunkInv(p)' /\ ReadInv(p)' /\ Delivers(p)'
  <2>1. 1..Len(received'[p]) = {}
    BY <1>2
  <2>2. QED
    BY <1>2, <1>3, <2>1 DEF ChunkInv, ReadInv, Delivers
<1>7. ChunkInv(q)' /\ ReadInv(q)' /\ Delivers(q)'
  BY <1>1, <1>2, FlowFrame DEF FlowInv
<1>8. QED
  BY <1>1, <1>2, <1>5, <1>6, <1>7 DEF FlowInv

-----------------------------------------------------------------------------
(* The theorems about programs that fit together.                           *)

\* The programs begin with nothing in flight.
LEMMA FlowInit ==
    ASSUME PipeInit
    PROVE  FlowInv
<1>1. /\ ~Live
      /\ \A p \in Partner : /\ step[p] = FirstStep(p) /\ status[p] = "running"
                            /\ call[p] = 0 /\ received[p] = <<>>
  BY PipeInitInv DEF PipeInit, Init
<1>2. ASSUME NEW p \in Partner
      PROVE  status[p] # "crashed" /\ OpenInv(p) /\ ChunkInv(p) /\ ReadInv(p) /\ Delivers(p)
  <2>1. step[p] \notin Exchanging /\ step[p] \notin {"write", "read"}
    BY <1>1 DEF FirstStep, Exchanging
  <2>2. 1..Len(received[p]) = {} /\ status[p] # "crashed" /\ call[p] = 0
    BY <1>1
  <2>3. QED
    BY <2>1, <2>2 DEF OpenInv, ChunkInv, ReadInv, Delivers
<1>3. QED
  BY <1>1, <1>2 DEF FlowInv

\* Every step keeps the second layer of the invariant.
LEMMA FlowStep ==
    ASSUME CommInFolder, Buffer <= PipeBuf, PipeInv, FlowInv, [PipeNext]_allVars
    PROVE  FlowInv'
<1>1. CASE script \notin Coupled
  <2>1. script' = script
    BY TransferFrame, PipeConnectStep, PipeDisconnectStep
       DEF PipeNext, PipeOp, allVars, pipeVars
  <2>2. QED
    BY <1>1, <2>1 DEF FlowInv
<1>2. CASE script \in Coupled /\ \E p \in Partner : PipeOp(p)
  BY <1>2, TransferFlow, PipeConnectFlow, PipeDisconnectFlow, ProtocolFlow DEF PipeOp
<1>3. CASE script \in Coupled /\ UNCHANGED allVars
  <2>1. /\ UNCHANGED <<status, pc, tag, session>>
        /\ UNCHANGED <<script, done, step, pipe, size, moved, call, received>>
    BY <1>3 DEF allVars, vars, pipeVars
  <2>2. Live' = Live /\ \A p \in Partner : OpenInv(p)' = OpenInv(p)
    BY <2>1 DEF Live, Made, Creation, Disconnecting, In, OpenInv, Opened
  <2>3. \A p \in Partner : ChunkInv(p)' /\ ReadInv(p)' /\ Delivers(p)'
    BY <1>3, <2>1, FlowFrame DEF FlowInv
  <2>4. Live => \A p \in Partner : StreamInv(p)'
    BY <1>3, <2>1, StreamFrame DEF FlowInv
  <2>5. QED
    BY <1>3, <2>1, <2>2, <2>3, <2>4 DEF FlowInv
<1>4. QED
  BY <1>1, <1>2, <1>3 DEF PipeNext, Terminated, allVars

(***************************************************************************)
(* The bytes in flight continue what the reader has and end before what    *)
(* the writer puts into the pipe next, when write() does not split chunks. *)
(***************************************************************************)
THEOREM FlowInductive ==
    ASSUME CommInFolder, Buffer <= PipeBuf
    PROVE  PipeSpec => [](PipeInv /\ FlowInv)
<1>1. PipeInit => PipeInv /\ FlowInv
  BY PipeInitInv, FlowInit
<1>2. PipeInv /\ FlowInv /\ [PipeNext]_allVars => PipeInv' /\ FlowInv'
  BY PipeInvStep, FlowStep
<1>3. QED
  BY <1>1, <1>2, PTL DEF PipeSpec

\* Read() returns the message that Write() was given, however it is cut into chunks
\* and whoever is faster: the k-th finished import of a partner equals the k-th
\* export of the other one, for all programs that fit together, whenever a chunk is
\* no longer than what write() puts into a pipe at once.
THEOREM PipeDeliversAlways ==
    ASSUME CommInFolder, Buffer <= PipeBuf
    PROVE  PipeSpec => []PipeDelivers
<1>1. FlowInv => PipeDelivers
  <2>1. \A q, m, s : Sent(q, m, s) = Elements(q, m, s, Total(q, m))
    BY DEF Sent, Elements, Total, Bytes
  <2>2. QED
    BY <2>1 DEF FlowInv, Delivers, PipeDelivers
<1>2. QED
  BY <1>1, FlowInductive, PTL

\* Creating and opening the pipes never fails, whoever is faster, and SIGPIPE never
\* ends a program, for all programs that fit together: only the handshake throws.
THEOREM PipeNeverFailsAlways ==
    ASSUME CommInFolder, Buffer <= PipeBuf
    PROVE  PipeSpec => []PipeNeverFails
<1>1. PipeInv /\ FlowInv => PipeNeverFails
  BY InvariantImplies DEF PipeInv, FlowInv, PipeNeverFails
<1>2. QED
  BY <1>1, FlowInductive, PTL
=============================================================================
