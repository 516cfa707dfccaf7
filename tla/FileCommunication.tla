-------------------------- MODULE FileCommunication --------------------------
(***************************************************************************)
(* Data exchange through files (file_communication.cpp), on top of the     *)
(* connection life cycle of module Communication.  While it is connected,  *)
(* a partner works through its script: a sequence of exports and imports,  *)
(* each under an identifier.  Every identifier has one data file in the    *)
(* communication folder; it does not name a direction.                     *)
(*                                                                         *)
(* The module follows one rank: rank r of a partner exchanges data with    *)
(* rank r of the other through files of its own.                           *)
(***************************************************************************)
EXTENDS Communication, Sequences, FiniteSets

CONSTANTS
    Id,      \* identifiers of exchanged data
    AuxModes,\* the modes in which the connection may work: subset of BOOLEAN
    Scripts, \* pairs of programs: what each partner does while connected
    MaxOps   \* bound: length of these programs

Operations == [op : {"export", "import"}, id : Id]

\* The n-th operation of p's script exports a message of its own.
Message == [from : Partner, run : 1..MaxRun, session : 1..MaxSession,
            no : 1..MaxOps]

\* A file that has been opened and not been written to the end.
Partial == [from |-> "nobody", run |-> 0, session |-> 0, no |-> 0]

ASSUME FileAssumption ==
    /\ AuxModes \subseteq BOOLEAN
    /\ MaxOps \in Nat
    /\ \A s \in Scripts : /\ s \in [Partner -> Seq(Operations)]
                         /\ \A p \in Partner : Len(s[p]) <= MaxOps
    /\ DataFile = Id \X {"tmp", "data", "avail"}
    /\ DataContent = Message \cup {Partial}

VARIABLES
    useAux,   \* mUseAuxFileForFileAvailability, the same on both sides
    script,   \* the operations a partner performs while it is connected
    done,     \* number of operations of the script a partner has finished
    io,       \* the next file-system call of the operation in progress
    received  \* what the finished operations returned, Absent for an export

ioVars   == <<done, io, received>>
program  == <<useAux, script>>
fileVars == <<program, ioVars>>
allVars  == <<vars, fileVars>>

IoStep == {"ready", "open", "write", "show", "rm_avail", "read", "remove"}

\* Every variable has its type: the contents of files and results of imports are
\* messages, and a partner has done at most the operations of its script.
FileTypeOK ==
    /\ TypeOK
    /\ useAux \in AuxModes
    /\ script \in Scripts
    /\ done \in [Partner -> 0..MaxOps]
    /\ io \in [Partner -> IoStep]
    /\ received \in [Partner -> Seq(DataContent \cup {Absent})]

-----------------------------------------------------------------------------

Current(p) == script[p][done[p] + 1]

\* p is inside an export (or import) and about to make call step.
Doing(p, op, step) ==
    /\ At(p, "connected")
    /\ io[p] = step
    /\ done[p] < Len(script[p])
    /\ Current(p).op = op

DataPath(p)  == <<Current(p).id, "data">>
AvailPath(p) == <<Current(p).id, "avail">>

\* GetTmpFileName()
TmpPath(p) == <<Current(p).id, IF useAux THEN "data" ELSE "tmp">>

\* Mutant: WaitForPath() looks at the data file although there is an .avail file.
SignalPathData(p) == DataPath(p)

\* The file whose appearance tells the receiver that the data is complete.
SignalPath(p) == IF useAux THEN AvailPath(p) ELSE DataPath(p)

MyMessage(p) == [from |-> p, run |-> run, session |-> session[p],
                 no |-> done[p] + 1]

Stay(p, step) ==
    /\ io' = [io EXCEPT ![p] = step]
    /\ UNCHANGED <<done, received, status>>

Finish(p, result) ==
    /\ io' = [io EXCEPT ![p] = "ready"]
    /\ done' = [done EXCEPT ![p] = @ + 1]
    /\ received' = [received EXCEPT ![p] = Append(@, result)]
    /\ UNCHANGED status

Fail(p) ==
    /\ status' = [status EXCEPT ![p] = "failed"]
    /\ UNCHANGED ioVars

Write(f, content) == dir' = [dir EXCEPT ![f] = IF folder THEN content ELSE @]

-----------------------------------------------------------------------------
(* GenericSend() and GenericSendWithFileSerializer().                       *)

\* Mutant: the sender does not wait until its last message has been read.
SendOver(p) ==
    /\ Doing(p, "export", "ready")
    /\ Stay(p, "open")
    /\ UNCHANGED dir

\* WaitUntilFileIsRemoved(): the last message under this identifier was read.
SendGone(p) ==
    /\ Doing(p, "export", "ready")
    /\ ~Exists(DataPath(p))
    /\ Stay(p, "open")
    /\ UNCHANGED dir

SendOpen(p) ==
    /\ Doing(p, "export", "open")
    /\ IF folder THEN Stay(p, "write") ELSE Fail(p)
    /\ Write(TmpPath(p), Partial)

SendWrite(p) ==
    /\ Doing(p, "export", "write")
    /\ Write(TmpPath(p), MyMessage(p))
    /\ Stay(p, "show")

\* MakeFileVisible(): the .avail file, or the atomic rename.
SendShow(p) ==
    /\ Doing(p, "export", "show")
    /\ IF Exists(TmpPath(p)) THEN Finish(p, Absent) ELSE Fail(p)
    /\ IF useAux
       THEN Write(AvailPath(p), MyMessage(p))
       ELSE dir' = [dir EXCEPT ![DataPath(p)] = dir[TmpPath(p)],
                               ![TmpPath(p)] = Absent]

-----------------------------------------------------------------------------
(* GenericReceive() and GenericReceiveWithFileSerializer().                 *)

ReceiveWait(p) ==
    /\ Doing(p, "import", "ready")
    /\ Exists(SignalPath(p))
    /\ Stay(p, IF useAux THEN "rm_avail" ELSE "read")
    /\ UNCHANGED dir

ReceiveRmAvail(p) ==
    /\ Doing(p, "import", "rm_avail")
    /\ IF Exists(AvailPath(p)) THEN Stay(p, "read") ELSE Fail(p)
    /\ dir' = [dir EXCEPT ![AvailPath(p)] = Absent]

\* The data is in memory, the file still there.
ReceiveRead(p) ==
    /\ Doing(p, "import", "read")
    /\ IF Exists(DataPath(p))
       THEN /\ received' = [received EXCEPT ![p] = Append(@, dir[DataPath(p)])]
            /\ io' = [io EXCEPT ![p] = "remove"]
            /\ UNCHANGED <<done, status>>
       ELSE Fail(p)
    /\ UNCHANGED dir

ReceiveRemove(p) ==
    /\ Doing(p, "import", "remove")
    /\ IF Exists(DataPath(p))
       THEN /\ io' = [io EXCEPT ![p] = "ready"]
            /\ done' = [done EXCEPT ![p] = @ + 1]
            /\ UNCHANGED <<received, status>>
       ELSE Fail(p)
    /\ dir' = [dir EXCEPT ![DataPath(p)] = Absent]

Exchange(p) ==
    /\ \/ SendGone(p) \/ SendOpen(p) \/ SendWrite(p) \/ SendShow(p)
       \/ ReceiveWait(p) \/ ReceiveRmAvail(p) \/ ReceiveRead(p)
       \/ ReceiveRemove(p)
    /\ UNCHANGED <<memory, pc, tag, folder, listing, program>>

-----------------------------------------------------------------------------

FileInit ==
    /\ Init
    /\ useAux \in AuxModes
    /\ script \in Scripts
    /\ done = [p \in Partner |-> 0]
    /\ io = [p \in Partner |-> "ready"]
    /\ received = [p \in Partner |-> <<>>]

FileConnect(p) ==
    /\ Connect(p)
    /\ done' = [done EXCEPT ![p] = 0]
    /\ received' = [received EXCEPT ![p] = <<>>]
    /\ UNCHANGED <<io, program>>

FileDisconnect(p) ==
    /\ Disconnect(p)
    /\ done[p] = Len(script[p])
    /\ UNCHANGED fileVars

FileRestart ==
    /\ Restart
    /\ done' = [p \in Partner |-> 0]
    /\ io' = [p \in Partner |-> "ready"]
    /\ received' = [p \in Partner |-> <<>>]
    /\ UNCHANGED program

FileOperation(p) ==
    \/ Exchange(p)
    \/ FileConnect(p)
    \/ FileDisconnect(p)
    \/ Protocol(p) /\ UNCHANGED fileVars

FileNext ==
    \/ \E p \in Partner : FileOperation(p)
    \/ \E p \in Partner : Crash(p) /\ UNCHANGED fileVars
    \/ FileRestart
    \/ Terminated /\ UNCHANGED fileVars

FileSpec ==
    /\ FileInit
    /\ [][FileNext]_allVars
    /\ \A p \in Partner : WF_allVars(FileOperation(p))
    /\ WF_allVars(FileRestart)

-----------------------------------------------------------------------------

\* The positions of the exports (or imports) under an identifier in a script.
Positions(p, op, i) ==
    {n \in 1..Len(script[p]) : script[p][n] = [op |-> op, id |-> i]}

\* How many operations like the n-th one the script has before it.
Nth(p, n) ==
    LET o == script[p][n]
    IN  Cardinality({m \in Positions(p, o.op, o.id) : m < n})

\* The k-th import under an identifier returns, complete, what the partner's
\* k-th export under it sent in the same session: nothing is lost, repeated,
\* reordered, torn or left over from an earlier session or execution.
ImportsMatchExports ==
    \A p \in Partner : \A n \in 1..Len(received[p]) :
        script[p][n].op = "import" =>
            LET m == received[p][n]
                q == Other(p)
            IN  /\ m.from = q
                /\ m.run = run
                /\ m.session = session[p]
                /\ m.no \in Positions(q, "export", script[p][n].id)
                /\ Nth(q, m.no) = Nth(p, n)

\* What an import returns was exported by the connection partner.
ImportsComeFromPartner ==
    \A p \in Partner : \A n \in 1..Len(received[p]) :
        script[p][n].op = "import" => received[p][n].from = Other(p)

\* The message waiting under an identifier: written in this execution,
\* announced and not yet read.
Waiting(i) ==
    LET reading(steps) == \E p \in Partner :
            /\ At(p, "connected") \/ status[p] = "crashed"
            /\ io[p] \in steps
            /\ Current(p).id = i
        announced == ~useAux \/ Exists(<<i, "avail">>) \/ reading({"read"})
        message   == dir[<<i, "data">>]
    IN  IF /\ Exists(<<i, "data">>) /\ message.run \in {run, Partial.run}
           /\ announced
           /\ ~reading({"remove"})
        THEN message ELSE Absent

Box == INSTANCE Mailbox WITH
    Nothing <- Absent, box <- [i \in Id |-> Waiting(i)]

\* Under every identifier the files implement a mailbox for one message.
ImplementsMailbox == Box!Spec
=============================================================================
