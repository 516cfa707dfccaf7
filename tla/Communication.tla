---------------------------- MODULE Communication ----------------------------
(***************************************************************************)
(* The life cycle of a connection, as class Communication implements it    *)
(* for every communication format (communication.cpp): Connect, which      *)
(* prepares the communication folder, synchronises the two partners and    *)
(* exchanges compatibility information, and Disconnect, which synchronises *)
(* them again and removes the folder.                                      *)
(*                                                                         *)
(* The two partners are separate programs that share nothing but a folder  *)
(* of the file system.  The module follows rank 0 of each partner, the     *)
(* only rank that touches the folder, one file-system call per step.  The  *)
(* files of this protocol are <<owner, tag, kind>>: the synchronisation     *)
(* files of the tags "conn" and "disconn", the compatibility file          *)
(* ("handshake"), and for each of them the auxiliary ".avail" file that    *)
(* announces it.                                                           *)
(*                                                                         *)
(* The two programs can be killed at any point and executed again: the     *)
(* folder then still holds what the previous execution left there.         *)
(***************************************************************************)
EXTENDS Naturals

CONSTANTS
    Setting,       \* values of the settings the handshake compares
    Trace,         \* values of serializer_trace_type
    CommInFolder,  \* use_folder_for_communication
    SafeStart,     \* is the primary started first after a crash?
    MaxRun,        \* bound: executions of the coupled program
    MaxSession,    \* bound: Connect calls of a partner in an execution
    DataFile,      \* files a derived class puts into the folder
    DataContent,   \* and what they contain
    Absent         \* the content of a file that does not exist

Partner == {"primary", "secondary"}

Other(p) == IF p = "primary" THEN "secondary" ELSE "primary"

SyncTag      == {"conn", "disconn"}
Tag          == SyncTag \cup {"handshake"}
ProtocolFile == Partner \X Tag \X {"data", "avail"}
File         == ProtocolFile \cup DataFile

(***************************************************************************)
(* What GetMyInfo sends, reduced to what the receiver compares.  The       *)
(* number of the execution and of the Connect call stamp every file with   *)
(* its origin; the code has no such stamp and no action depends on it.     *)
(***************************************************************************)
Info == [run : Nat, session : Nat, setting : Setting, trace : Trace]

ASSUME ConstantAssumption ==
    /\ CommInFolder \in BOOLEAN
    /\ SafeStart \in BOOLEAN
    /\ MaxRun \in Nat \ {0}
    /\ MaxSession \in Nat
    /\ DataFile \cap ProtocolFile = {}
    /\ Absent \notin Info \cup DataContent

VARIABLES
    run,         \* number of the current execution of the coupled program
    status,      \* [Partner -> {"running", "failed", "crashed"}]
    pc,          \* the next file-system call of a partner
    tag,         \* which part of Connect or Disconnect the partner is in
    session,     \* number of Connect calls in this execution
    setting,     \* the settings of the partner's Communication object
    trace,       \* mSerializerTraceType
    partnerInfo, \* mPartnerInfo
    folder,      \* does the communication folder exist?
    dir,         \* content of the files
    listing      \* entries remove_all still has to visit

vars == <<run, status, pc, tag, session, setting, trace, partnerInfo,
          folder, dir, listing>>

memory == <<run, session, setting, trace, partnerInfo>>

(***************************************************************************)
(* Steps inside SynchronizeAll and the handshake's exchange:               *)
(*   open     create my file              perms    make it accessible      *)
(*   avail    create my .avail file       wait     poll the other's .avail *)
(*   rm_avail remove it                   load     read the other's file   *)
(*   rm_data  remove the other's file     gone     poll until mine is gone *)
(***************************************************************************)
FileStep == {"open", "perms", "avail", "wait", "rm_avail", "load", "rm_data",
             "gone"}

Step == FileStep \cup
    {"idle", "remove_all", "create_dir", "check", "connected"}

\* Every variable has its type: a file of the protocol holds what GetMyInfo()
\* wrote or does not exist, and a partner is at a step of Connect, of
\* Disconnect or between them.
TypeOK ==
    /\ run \in Nat
    /\ status \in [Partner -> {"running", "failed", "crashed"}]
    /\ pc \in [Partner -> Step]
    /\ tag \in [Partner -> Tag]
    /\ session \in [Partner -> Nat]
    /\ setting \in [Partner -> Setting]
    /\ trace \in [Partner -> Trace]
    /\ partnerInfo \in [Partner -> Info \cup {Absent}]
    /\ folder \in BOOLEAN
    /\ dir \in [File -> Info \cup DataContent \cup {Absent}]
    /\ \A f \in ProtocolFile : dir[f] \in Info \cup {Absent}
    /\ listing \in SUBSET File

-----------------------------------------------------------------------------

Exists(f) == dir[f] # Absent

Mine(p, kind)   == <<p, tag[p], kind>>
Theirs(p, kind) == <<Other(p), tag[p], kind>>

MyInfo(p) == [run |-> run, session |-> session[p],
              setting |-> setting[p], trace |-> trace[p]]

At(p, step) == status[p] = "running" /\ pc[p] = step

Goto(p, step) == pc' = [pc EXCEPT ![p] = step] /\ UNCHANGED status

\* A thrown error leaves Connect or Disconnect; the object stays as it is.
Throw(p) == status' = [status EXCEPT ![p] = "failed"] /\ UNCHANGED pc

Create(p, f) ==
    /\ dir' = [dir EXCEPT ![f] = IF folder THEN MyInfo(p) ELSE @]
    /\ UNCHANGED <<folder, listing>>

\* RemovePath(): throws when there is nothing to remove.
RemovePath(p, f, next) ==
    /\ IF Exists(f) THEN Goto(p, next) ELSE Throw(p)
    /\ dir' = [dir EXCEPT ![f] = Absent]
    /\ UNCHANGED <<folder, listing>>

\* Only the primary deletes the folder; the other partner goes on.
StartRemoveAll(p, otherwise) ==
    IF p = "primary" /\ CommInFolder
    THEN Goto(p, "remove_all") /\ listing' = {f \in File : Exists(f)}
    ELSE Goto(p, otherwise) /\ UNCHANGED listing

-----------------------------------------------------------------------------
(* SynchronizeAll() and the exchange lambda of HandShake().                 *)

\* The primary announces itself and then waits; the secondary answers.
SyncStart(p) == IF p = "primary" THEN "open" ELSE "wait"

\* Open my file.  A stream that cannot be opened is noticed in the next step.
Open(p) ==
    /\ At(p, "open")
    /\ Create(p, Mine(p, "data"))
    /\ Goto(p, "perms")
    /\ UNCHANGED <<memory, tag>>

\* The existence check and AddFilePermissions both fail on a missing file.
Perms(p) ==
    /\ At(p, "perms")
    /\ IF Exists(Mine(p, "data")) THEN Goto(p, "avail") ELSE Throw(p)
    /\ UNCHANGED <<memory, tag, folder, dir, listing>>

\* MakeFileVisible(): the .avail file follows the complete file.
Avail(p) ==
    /\ At(p, "avail")
    /\ Create(p, Mine(p, "avail"))
    /\ Goto(p, IF p = "secondary" /\ tag[p] \in SyncTag THEN "gone" ELSE "wait")
    /\ UNCHANGED <<memory, tag>>

\* Mutant: the poll looks at the file itself, not at its .avail file.
WaitForData(p) ==
    /\ At(p, "wait")
    /\ Exists(Theirs(p, "data"))
    /\ Goto(p, "rm_avail")
    /\ UNCHANGED <<memory, tag, folder, dir, listing>>

\* WaitForPath(): the poll, and the removal of the .avail file it found.
Wait(p) ==
    /\ At(p, "wait")
    /\ Exists(Theirs(p, "avail"))
    /\ Goto(p, "rm_avail")
    /\ UNCHANGED <<memory, tag, folder, dir, listing>>

RmAvail(p) ==
    /\ At(p, "rm_avail")
    /\ RemovePath(p, Theirs(p, "avail"),
                  IF tag[p] = "handshake" THEN "load" ELSE "rm_data")
    /\ UNCHANGED <<memory, tag>>

(***************************************************************************)
(* Read the partner's compatibility file.  A file written in another trace *)
(* type may or may not be readable.  If the file is missing, FileSerializer *)
(* creates it, empty, and nothing can be read from it.                     *)
(***************************************************************************)
Load(p) ==
    LET f == Theirs(p, "data")
    IN  /\ At(p, "load")
        /\ \/ /\ Exists(f)
              /\ partnerInfo' = [partnerInfo EXCEPT ![p] = dir[f]]
              /\ Goto(p, "rm_data")
              /\ UNCHANGED dir
           \/ /\ Exists(f) => dir[f].trace # trace[p]
              /\ Throw(p)
              /\ dir' = [dir EXCEPT ![f] = IF folder /\ ~Exists(f)
                                           THEN MyInfo(p) ELSE @]
              /\ UNCHANGED partnerInfo
        /\ UNCHANGED <<run, session, setting, trace, tag, folder, listing>>

\* Mutant: the compatibility file is read and not removed.
RmDataOfSyncOnly(p) ==
    /\ At(p, "rm_data")
    /\ IF tag[p] = "handshake"
       THEN Goto(p, "check") /\ UNCHANGED <<folder, dir, listing>>
       ELSE RemovePath(p, Theirs(p, "data"),
                       IF p = "primary" THEN "gone" ELSE "open")
    /\ UNCHANGED <<memory, tag>>

RmData(p) ==
    /\ At(p, "rm_data")
    /\ RemovePath(p, Theirs(p, "data"),
                  IF tag[p] = "handshake" THEN "check"
                  ELSE IF p = "primary" THEN "gone" ELSE "open")
    /\ UNCHANGED <<memory, tag>>

\* Mutant: Disconnect() leaves the folder where it is.
GoneKeepsFolder(p) ==
    /\ At(p, "gone")
    /\ ~Exists(Mine(p, "data"))
    /\ \/ /\ tag[p] = "handshake"
          /\ Goto(p, "open")
          /\ UNCHANGED tag
       \/ /\ tag[p] = "conn"
          /\ tag' = [tag EXCEPT ![p] = "handshake"]
          /\ UNCHANGED <<pc, status>>
       \/ /\ tag[p] = "disconn"
          /\ Goto(p, "idle")
          /\ UNCHANGED tag
    /\ UNCHANGED <<memory, folder, dir, listing>>

(***************************************************************************)
(* WaitUntilFileIsRemoved(): the first call of the handshake and the last  *)
(* one of a synchronisation, which returns to the caller: HandShake()      *)
(* after "conn", the rest of BaseDisconnectDetail() after "disconn".       *)
(***************************************************************************)
Gone(p) ==
    /\ At(p, "gone")
    /\ ~Exists(Mine(p, "data"))
    /\ \/ /\ tag[p] = "handshake"
          /\ Goto(p, "open")
          /\ UNCHANGED <<tag, listing>>
       \/ /\ tag[p] = "conn"
          /\ tag' = [tag EXCEPT ![p] = "handshake"]
          /\ UNCHANGED <<pc, status, listing>>
       \/ /\ tag[p] = "disconn"
          /\ StartRemoveAll(p, "idle")
          /\ UNCHANGED tag
    /\ UNCHANGED <<memory, folder, dir>>

\* Mutant: the trace types are not compared.
CheckSettingOnly(p) ==
    /\ At(p, "check")
    /\ IF partnerInfo[p].setting = setting[p] THEN Goto(p, "connected")
       ELSE Throw(p)
    /\ UNCHANGED <<memory, tag, folder, dir, listing>>

\* The compatibility checks of HandShake() and DerivedHandShake().
Check(p) ==
    /\ At(p, "check")
    /\ IF /\ partnerInfo[p].setting = setting[p]
          /\ partnerInfo[p].trace = trace[p]
       THEN Goto(p, "connected")
       ELSE Throw(p)
    /\ UNCHANGED <<memory, tag, folder, dir, listing>>

-----------------------------------------------------------------------------
(* Connect(), Disconnect() and what the primary does to the folder.         *)

\* docs/communication.md: "start the primary with a delay before the
\* secondary, so that it has time to remove potential leftovers".
Cleaned ==
    /\ session["primary"] > 0
    /\ session["primary"] = 1 /\ tag["primary"] = "conn" =>
          pc["primary"] \notin {"remove_all", "create_dir"}

MayStart(p) == SafeStart /\ p = "secondary" /\ run > 1 => Cleaned

Connect(p) ==
    /\ At(p, "idle")
    /\ session[p] < MaxSession
    /\ MayStart(p)
    /\ session' = [session EXCEPT ![p] = @ + 1]
    /\ \E s \in Setting, t \in Trace :
          /\ setting' = [setting EXCEPT ![p] = s]
          /\ trace' = [trace EXCEPT ![p] = t]
    /\ partnerInfo' = [partnerInfo EXCEPT ![p] = Absent]
    /\ tag' = [tag EXCEPT ![p] = "conn"]
    /\ StartRemoveAll(p, SyncStart(p))
    /\ UNCHANGED <<run, folder, dir>>

\* Mutant: Disconnect() does not synchronise the partners.
DisconnectAtOnce(p) ==
    /\ At(p, "connected")
    /\ tag' = [tag EXCEPT ![p] = "disconn"]
    /\ StartRemoveAll(p, "idle")
    /\ UNCHANGED <<memory, folder, dir>>

Disconnect(p) ==
    /\ At(p, "connected")
    /\ tag' = [tag EXCEPT ![p] = "disconn"]
    /\ Goto(p, SyncStart(p))
    /\ UNCHANGED <<memory, folder, dir, listing>>

\* Mutant: remove_all() starts over after every entry.
RemoveEntryAgain(p) ==
    /\ At(p, "remove_all")
    /\ \E f \in File :
          /\ f \in listing \/ Exists(f)
          /\ dir' = [dir EXCEPT ![f] = Absent]
    /\ UNCHANGED <<memory, status, pc, tag, folder, listing>>

(***************************************************************************)
(* remove_all() visits the entries it found, and perhaps files that        *)
(* appeared since, one by one; then it removes the folder unless something *)
(* appeared in it.                                                         *)
(***************************************************************************)
RemoveEntry(p) ==
    /\ At(p, "remove_all")
    /\ \E f \in File :
          /\ f \in listing \/ Exists(f)
          /\ dir' = [dir EXCEPT ![f] = Absent]
          /\ listing' = listing \ {f}
    /\ UNCHANGED <<memory, status, pc, tag, folder>>

\* Mutant: remove() instead of remove_all(), which needs an empty folder.
RemoveEmptyFolder(p) ==
    /\ At(p, "remove_all")
    /\ listing' = {}
    /\ folder' = (folder /\ \E f \in File : Exists(f))
    /\ Goto(p, IF tag[p] = "conn" THEN "create_dir" ELSE "idle")
    /\ UNCHANGED <<memory, tag, dir>>

RemoveFolder(p) ==
    /\ At(p, "remove_all")
    /\ listing = {}
    /\ folder' = (folder /\ \E f \in File : Exists(f))
    /\ Goto(p, IF tag[p] = "conn" THEN "create_dir" ELSE "idle")
    /\ UNCHANGED <<memory, tag, dir, listing>>

CreateFolder(p) ==
    /\ At(p, "create_dir")
    /\ folder' = TRUE
    /\ Goto(p, SyncStart(p))
    /\ UNCHANGED <<memory, tag, dir, listing>>

-----------------------------------------------------------------------------
(* The programs around the library: they can be killed and executed again.  *)

\* The bound: the last execution is not killed.
Crash(p) ==
    /\ run < MaxRun
    /\ status[p] = "running"
    /\ status' = [status EXCEPT ![p] = "crashed"]
    /\ UNCHANGED <<memory, pc, tag, folder, dir, listing>>

\* Once a partner is gone the user ends the other one and starts both again.
Restart ==
    /\ \E p \in Partner : status[p] # "running"
    /\ run < MaxRun
    /\ run' = run + 1
    /\ status' = [p \in Partner |-> "running"]
    /\ pc' = [p \in Partner |-> "idle"]
    /\ tag' = [p \in Partner |-> "disconn"]
    /\ session' = [p \in Partner |-> 0]
    /\ partnerInfo' = [p \in Partner |-> Absent]
    /\ listing' = {}
    /\ UNCHANGED <<setting, trace, folder, dir>>

Init ==
    /\ run = 1
    /\ status = [p \in Partner |-> "running"]
    /\ pc = [p \in Partner |-> "idle"]
    /\ tag = [p \in Partner |-> "disconn"]
    /\ session = [p \in Partner |-> 0]
    /\ setting \in [Partner -> Setting]
    /\ trace \in [Partner -> Trace]
    /\ partnerInfo = [p \in Partner |-> Absent]
    /\ folder = ~CommInFolder
    /\ dir = [f \in File |-> Absent]
    /\ listing = {}

\* Both programs have made all their Connect calls, or were refused.
Terminated ==
    /\ \A p \in Partner :
          \/ status[p] = "failed"
          \/ At(p, "idle") /\ session[p] = MaxSession
    /\ UNCHANGED vars

\* The steps inside Connect and Disconnect.
Protocol(p) ==
    \/ Open(p) \/ Perms(p) \/ Avail(p) \/ Wait(p) \/ RmAvail(p)
    \/ Load(p) \/ RmData(p) \/ Gone(p) \/ Check(p)
    \/ RemoveEntry(p) \/ RemoveFolder(p) \/ CreateFolder(p)

Operation(p) == Connect(p) \/ Disconnect(p) \/ Protocol(p)

Next ==
    \/ \E p \in Partner : Operation(p) \/ Crash(p)
    \/ Restart
    \/ Terminated

Spec == Init /\ [][Next]_vars

\* Each program runs, and makes its calls, until it ends or is killed.
FairSpec ==
    /\ Spec
    /\ \A p \in Partner : WF_vars(Operation(p))
    /\ WF_vars(Restart)

-----------------------------------------------------------------------------

\* The synchronisations a partner has left, and the ones it has entered.
SyncsLeft(p) ==
    CASE tag[p] = "conn"      -> 2 * session[p] - 2
      [] tag[p] = "handshake" -> 2 * session[p] - 1
      [] tag[p] = "disconn"   -> IF pc[p] \in FileStep THEN 2 * session[p] - 1
                                 ELSE 2 * session[p]

SyncsEntered(p) ==
    IF tag[p] \in SyncTag /\ pc[p] \in FileStep
    THEN SyncsLeft(p) + 1 ELSE SyncsLeft(p)

Barrier == INSTANCE Rendezvous WITH
    entered <- [p \in Partner |-> SyncsEntered(p)],
    left    <- [p \in Partner |-> SyncsLeft(p)]

\* SynchronizeAll() implements a barrier: neither partner gets past Connect's
\* or Disconnect's synchronisation before the other one has reached it.
ImplementsRendezvous == Barrier!Spec

\* RemovePath, AddFilePermissions and the existence checks of the protocol
\* never throw: a Connect or Disconnect only fails on incompatible settings.
OnlyMismatchFails ==
    \A p \in Partner : status[p] = "failed" =>
        /\ tag[p] = "handshake"
        /\ setting[p] # setting[Other(p)] \/ trace[p] # trace[Other(p)]

\* The information HandShake() judges is the one the partner wrote in this
\* execution for this very connection, never a leftover.
FreshPartnerInfo ==
    \A p \in Partner :
        partnerInfo[p] # Absent =>
            /\ partnerInfo[p].run = run
            /\ partnerInfo[p].session = session[p]

\* The partners agree on the outcome of a Connect: when one is connected the
\* other one is not refused.
SameVerdict ==
    \A p \in Partner :
        /\ pc[p] = "connected"
        /\ session[p] = session[Other(p)]
        => status[Other(p)] # "failed"

\* A partner is only ever connected to a partner that takes part in the same
\* Connect: it has left the first synchronisation of the same session.
ConnectedTogether ==
    \A p \in Partner : pc[p] = "connected" =>
        /\ session[Other(p)] = session[p]
        /\ SyncsLeft(Other(p)) = SyncsLeft(p)

\* When both partners have left Disconnect nothing of the connection is left.
NothingLeftOver ==
    /\ \A p \in Partner : At(p, "idle") /\ session[p] > 0
    /\ session["primary"] = session["secondary"]
    => /\ \A f \in File : ~Exists(f)
       /\ folder = ~CommInFolder

\* Whatever earlier executions left behind, the last one comes to its end:
\* every Connect and Disconnect returns or is refused.
LastRunEnds ==
    run = MaxRun ~> \A p \in Partner :
        status[p] = "failed" \/ (pc[p] = "idle" /\ session[p] = MaxSession)
=============================================================================
