-------------------------------- MODULE Ranks --------------------------------
(***************************************************************************)
(* A connection between two MPI-parallel partners.  Every rank of a partner*)
(* executes Connect, the exchange and Disconnect of its Communication      *)
(* object; rank 0 alone deals with the other partner until the handshake   *)
(* is done.  The module follows the ranks through the formats that need    *)
(* more than the files of rank 0: socket, local_socket and mpi_inter.      *)
(*                                                                         *)
(* Each rank works through a list of steps, which is the code of its       *)
(* functions in their order.  The synchronisation of the two ranks 0 and   *)
(* the exchange of their information are one step each per rank: module    *)
(* Communication shows that the files behind them do just that.            *)
(***************************************************************************)
EXTENDS Naturals, Sequences, FiniteSets

CONSTANTS
    Instances,     \* the connections that are made, see Instance
    Coupled,       \* the programs that fit together: what one sends, the other receives
    Setting,       \* values of the settings the handshake compares
    MaxRanks,      \* bound: ranks of a partner
    SocketBuffer   \* bound: messages between two ranks that nobody has read

Partner == {"primary", "secondary"}
Other(p) == IF p = "primary" THEN "secondary" ELSE "primary"
Op == {"send", "receive"}

Instance == [
    size    : [Partner -> 1..MaxRanks],  \* number of ranks
    format  : {"socket", "local_socket", "mpi_inter"},
    eager   : BOOLEAN,                   \* does MPI_Send return before the message
                                         \* is received?
    setting : [Partner -> Setting],      \* what the handshake compares
    script  : [Partner -> Seq(Op)]]      \* the program between Connect and Disconnect

\* The steps a rank may take, by the function they belong to.
SyncSteps    == {"arrive", "depart", "sync", "synced"}
PrepareSteps == {"listen", "collect", "report", "reported", "open_port", "get_port"}
ShakeSteps   == {"offer", "judge", "broadcast", "get_info"}
DetailSteps  == {"accept", "look_up", "connect", "unlink", "bind", "join", "joined"}
LeaveSteps   == {"leave", "left", "close"}
StepName     == SyncSteps \cup PrepareSteps \cup ShakeSteps \cup DetailSteps
                \cup LeaveSteps \cup Op

AnyProc == Partner \X (0..MaxRanks - 1)
Nobody  == <<"nobody", 0>>
NoInfo  == [size |-> 0, setting |-> "none", ports |-> <<>>]
Info    == [size : Nat, setting : Setting \cup {"none"}, ports : Seq(Nat)]

ASSUME RanksAssumption ==
    /\ MaxRanks \in Nat
    /\ SocketBuffer \in Nat \ {0}
    /\ Instances \subseteq Instance

\* How often a program calls an operation.
Calls(program, op) == Cardinality({i \in 1..Len(program) : program[i] = op})

ASSUME CoupledAssumption ==
    \A c \in Instances : c.script \in Coupled => \A p \in Partner :
        Calls(c.script[p], "send") = Calls(c.script[Other(p)], "receive")

VARIABLES
    conn,    \* the connection that is made; it never changes
    part,    \* a partner as a whole
    self,    \* a rank
    bound    \* the rank that has bound the file socket_bind

rvars == <<conn, part, self, bound>>

Size   == conn.size
Format == conn.format
Proc   == {x \in AnyProc : x[2] < Size[x[1]]}

PartState == [
    synced   : Nat,              \* synchronisations rank 0 has entered
    infos    : Seq(Nat),         \* conn_infos, the ports of the ranks, of rank 0
    portName : Nat,              \* what MPI_Bcast spreads of the port name
    offer    : Info,             \* what rank 0 has given to the other partner
    cast     : Info]             \* the partner information rank 0 broadcasts

RankState == [
    status   : {"running", "failed"},
    todo     : Seq(StepName),    \* the steps the rank still has to do
    arrived  : Nat,              \* barriers it has arrived at
    port     : Nat,              \* mPortNumber or mPortName; 0: not known
    letter   : Nat,              \* connection info rank 0 has not received
    info     : Info,             \* mPartnerInfo
    acceptor : {"none", "listening", "closed"},
    backlog  : Seq(Proc),        \* connections not accepted yet
    peer     : Proc \cup {Nobody},
    joined   : BOOLEAN,          \* inside of the intercommunicator
    closed   : BOOLEAN,          \* has closed its socket or left
    stream   : Seq(Proc \X Nat), \* messages to the rank that it has not read
    sent     : Nat,
    received : Seq(Proc \X Nat)]

-----------------------------------------------------------------------------
(* The code of a rank as a list of steps.                                   *)

SynchronizeAll(r) ==
    <<"arrive", "depart">>
    \o (IF r = 0 THEN <<"sync", "synced">> ELSE <<>>)
    \o <<"arrive", "depart">>

PrepareConnection(p, r) ==
    CASE p = "primary" /\ Format = "socket" ->
            <<"listen">> \o (IF r = 0 THEN <<"collect">> ELSE <<"report", "reported">>)
      [] p = "primary" /\ Format = "mpi_inter" ->
            IF r = 0 THEN <<"open_port">> ELSE <<"get_port">>
      [] OTHER -> <<>>

HandShake(r) ==
    IF r = 0 THEN <<"offer", "judge", "broadcast">> ELSE <<"get_info">>

\* Mutant: the acceptor is made after the second synchronisation.
LocalSocketBindsLate(p, r) ==
    IF p = "primary"
    THEN <<"unlink">> \o SynchronizeAll(r) \o SynchronizeAll(r) \o <<"bind", "accept">>
    ELSE SynchronizeAll(r) \o SynchronizeAll(r) \o <<"connect">>

LocalSocket(p, r) ==
    IF p = "primary"
    THEN <<"unlink">> \o SynchronizeAll(r) \o <<"bind">>
                      \o SynchronizeAll(r) \o <<"accept">>
    ELSE SynchronizeAll(r) \o SynchronizeAll(r) \o <<"connect">>

ConnectDetail(p, r) ==
    CASE Format = "socket" ->
            IF p = "primary" THEN <<"accept">> ELSE <<"look_up", "connect">>
      [] Format = "local_socket" -> LocalSocket(p, r)
      [] OTHER -> <<"join", "joined">>

DisconnectDetail == IF Format = "mpi_inter" THEN <<"leave", "left">> ELSE <<"close">>

Connect(p, r) == SynchronizeAll(r) \o PrepareConnection(p, r)
    \o HandShake(r) \o ConnectDetail(p, r)

Disconnect(r) == DisconnectDetail \o SynchronizeAll(r)

-----------------------------------------------------------------------------

Ranks(p) == {x \in Proc : x[1] = p}
Twin(x)  == <<Other(x[1]), x[2]>>
Part(x)  == part[x[1]]

At(x, step) == /\ self[x].todo # <<>>
               /\ Head(self[x].todo) = step

\* An exception ends the program of the rank.
Throw(x) == /\ self' = [self EXCEPT ![x].status = "failed", ![x].todo = <<>>]
            /\ UNCHANGED bound

Advance(x) == self' = [self EXCEPT ![x].todo = Tail(@)] /\ UNCHANGED bound

\* MPI_Barrier among the ranks of a partner.
Arrive(x) ==
    /\ At(x, "arrive")
    /\ self' = [self EXCEPT ![x].todo = Tail(@), ![x].arrived = @ + 1]
    /\ UNCHANGED <<part, bound>>

Depart(x) ==
    /\ At(x, "depart")
    /\ \A y \in Ranks(x[1]) : self[y].arrived >= self[x].arrived
    /\ Advance(x)
    /\ UNCHANGED part

\* The files of SynchronizeAll: a rendezvous of the two ranks 0.
Sync(x) ==
    /\ At(x, "sync")
    /\ part' = [part EXCEPT ![x[1]].synced = @ + 1]
    /\ Advance(x)

\* Mutant: polling for the next synchronisation of the other partner.
SyncedOffByOne(x) ==
    /\ At(x, "synced")
    /\ IF part[Other(x[1])].synced > Part(x).synced
       THEN Advance(x) /\ UNCHANGED part
       ELSE UNCHANGED <<part, self, bound>>

Synced(x) ==
    /\ At(x, "synced")
    /\ part[Other(x[1])].synced >= Part(x).synced
    /\ Advance(x)
    /\ UNCHANGED part

-----------------------------------------------------------------------------
(* PrepareConnection().                                                     *)

\* Port 0: the operating system chooses a port that is free.
FreePort == 1 + Cardinality({x \in Ranks("primary") : self[x].port # 0})

Listen(x) ==
    /\ At(x, "listen")
    /\ self' = [self EXCEPT ![x].todo = Tail(@), ![x].port = FreePort,
                             ![x].acceptor = "listening"]
    /\ UNCHANGED <<part, bound>>

\* MPI_Send to rank 0, in two steps.
Report(x) ==
    /\ At(x, "report")
    /\ self' = [self EXCEPT ![x].todo = Tail(@), ![x].letter = self[x].port]
    /\ UNCHANGED <<part, bound>>

Reported(x) ==
    /\ At(x, "reported")
    /\ conn.eager \/ self[x].letter = 0
    /\ Advance(x)
    /\ UNCHANGED part

\* Mutant: rank 0 takes the infos in the order in which they arrive.
SenderAny(i) == Ranks("primary")

\* Recv(conn_infos[i], i).
Sender(i) == {<<"primary", i>>}

\* Rank 0 collects the connection infos, its own first.
Collect(x) ==
    LET infos == IF Part(x).infos = <<>> THEN <<self[x].port>> ELSE Part(x).infos
    IN  /\ At(x, "collect")
        /\ \/ /\ Len(infos) = Size["primary"]
              /\ part' = [part EXCEPT !["primary"].infos = infos]
              /\ Advance(x)
           \/ /\ Len(infos) < Size["primary"]
              /\ \E y \in Sender(Len(infos)) :
                    /\ self[y].letter # 0
                    /\ part' = [part EXCEPT !["primary"].infos =
                                    Append(infos, self[y].letter)]
                    /\ self' = [self EXCEPT ![y].letter = 0]
              /\ UNCHANGED bound

\* MPI_Open_port on rank 0, and the broadcast of the port's name.
OpenPort(x) ==
    /\ At(x, "open_port")
    /\ self' = [self EXCEPT ![x].todo = Tail(@), ![x].port = FreePort]
    /\ part' = [part EXCEPT ![x[1]].portName = FreePort, ![x[1]].infos = <<FreePort>>]
    /\ UNCHANGED bound

GetPort(x) ==
    /\ At(x, "get_port")
    /\ Part(x).portName # 0
    /\ self' = [self EXCEPT ![x].todo = Tail(@), ![x].port = Part(x).portName]
    /\ UNCHANGED <<part, bound>>

-----------------------------------------------------------------------------
(* HandShake().                                                             *)

\* GetMyInfo(): only the primary has connection infos.
MyInfo(p) == [size |-> Size[p], setting |-> conn.setting[p],
              ports |-> part[p].infos]

Offer(x) ==
    /\ At(x, "offer")
    /\ part' = [part EXCEPT ![x[1]].offer = MyInfo(x[1])]
    /\ Advance(x)

\* Mutant: the numbers of ranks are not compared.
CompatibleSettings(p, info) == info.setting = conn.setting[p]

Compatible(p, info) == info.setting = conn.setting[p] /\ info.size = Size[p]

Judge(x) ==
    LET info == part[Other(x[1])].offer
    IN  /\ At(x, "judge")
        /\ info # NoInfo
        /\ IF Compatible(x[1], info)
           THEN self' = [self EXCEPT ![x].todo = Tail(@), ![x].info = info]
           ELSE self' = [self EXCEPT ![x].status = "failed", ![x].todo = <<>>]
        /\ UNCHANGED <<part, bound>>

Broadcast(x) ==
    /\ At(x, "broadcast")
    /\ part' = [part EXCEPT ![x[1]].cast = self[x].info]
    /\ Advance(x)

GetInfo(x) ==
    /\ At(x, "get_info")
    /\ Part(x).cast # NoInfo
    /\ self' = [self EXCEPT ![x].todo = Tail(@), ![x].info = Part(x).cast]
    /\ UNCHANGED <<part, bound>>

-----------------------------------------------------------------------------
(* ConnectDetail().                                                         *)

\* Mutant: the connection info of rank 0 for all.
EntryFirst(x) == 1

\* The place of a rank in conn_infos.
Entry(x) == x[2] + 1

\* GetConnectionInformation() of the secondary.
LookUp(x) ==
    /\ At(x, "look_up")
    /\ IF Len(self[x].info.ports) = Size[x[1]]
       THEN /\ self' = [self EXCEPT ![x].todo = Tail(@),
                                    ![x].port = self[x].info.ports[Entry(x)]]
            /\ UNCHANGED bound
       ELSE Throw(x)
    /\ UNCHANGED part

Unlink(x) ==
    /\ At(x, "unlink")
    /\ bound' = Nobody
    /\ self' = [self EXCEPT ![x].todo = Tail(@)]
    /\ UNCHANGED part

\* Binding a socket to a path that exists fails.
Bind(x) ==
    /\ At(x, "bind")
    /\ \/ /\ bound = Nobody
          /\ bound' = x
          /\ self' = [self EXCEPT ![x].todo = Tail(@), ![x].acceptor = "listening"]
       \/ bound # Nobody /\ Throw(x)
    /\ UNCHANGED part

\* The acceptors behind the address that x connects to.
Server(x) == {y \in Ranks("primary") :
    /\ self[y].acceptor = "listening"
    /\ IF Format = "socket" THEN self[y].port = self[x].port ELSE y = bound}

\* connect() succeeds as soon as the server listens, and is refused before.
ConnectSocket(x) ==
    /\ At(x, "connect")
    /\ \/ Server(x) = {} /\ Throw(x)
       \/ \E y \in Server(x) :
            /\ self' = [self EXCEPT ![x].todo = Tail(@), ![x].peer = y,
                                    ![y].backlog = Append(@, x)]
            /\ UNCHANGED bound
    /\ UNCHANGED part

Accept(x) ==
    /\ At(x, "accept")
    /\ self[x].backlog # <<>>
    /\ self' = [self EXCEPT ![x].todo = Tail(@), ![x].acceptor = "closed",
                            ![x].peer = Head(self[x].backlog)]
    /\ UNCHANGED <<part, bound>>

\* MPI_Comm_accept and MPI_Comm_connect are collective over both partners.
Join(x) ==
    /\ At(x, "join")
    /\ self' = [self EXCEPT ![x].todo = Tail(@), ![x].joined = TRUE,
            ![x].port = IF x[1] = "primary" THEN @ ELSE self[x].info.ports[1]]
    /\ UNCHANGED <<part, bound>>

Joined(x) ==
    /\ At(x, "joined")
    /\ \A y \in Proc : self[y].joined /\ self[y].port = self[x].port
    /\ self' = [self EXCEPT ![x].todo = Tail(@), ![x].peer = Twin(x)]
    /\ UNCHANGED <<part, bound>>

-----------------------------------------------------------------------------
(* Import and export, and DisconnectDetail().                               *)

\* What is sent to a closed socket is lost, and the next write() throws.
Send(x) ==
    LET y == self[x].peer
    IN  /\ At(x, "send")
        /\ \/ self[y].closed /\ (Throw(x) \/ Advance(x))
           \/ /\ ~self[y].closed
              /\ Len(self[y].stream) < SocketBuffer
              /\ self' = [self EXCEPT ![x].todo = Tail(@), ![x].sent = @ + 1,
                      ![y].stream = Append(@, <<x, self[x].sent + 1>>)]
              /\ UNCHANGED bound
        /\ UNCHANGED part

Receive(x) ==
    /\ At(x, "receive")
    /\ \/ /\ self[x].stream # <<>>
          /\ self' = [self EXCEPT ![x].todo = Tail(@), ![x].stream = Tail(@),
                  ![x].received = Append(@, Head(self[x].stream))]
          /\ UNCHANGED bound
       \/ self[x].stream = <<>> /\ self[self[x].peer].closed /\ Throw(x)
    /\ UNCHANGED part

\* Closing a socket with unread data may take away what the peer has not read.
Close(x) ==
    /\ At(x, "close")
    /\ \E lost \in {FALSE, self[x].stream # <<>>} :
          self' = [self EXCEPT ![x].todo = Tail(@), ![x].closed = TRUE,
                               ![self[x].peer].stream = IF lost THEN <<>> ELSE @]
    /\ UNCHANGED <<part, bound>>

\* MPI_Comm_disconnect is collective, too.
Leave(x) ==
    /\ At(x, "leave")
    /\ self' = [self EXCEPT ![x].todo = Tail(@), ![x].closed = TRUE]
    /\ UNCHANGED <<part, bound>>

Left(x) ==
    /\ At(x, "left")
    /\ \A y \in Proc : self[y].closed
    /\ Advance(x)
    /\ UNCHANGED part

-----------------------------------------------------------------------------

RanksInit ==
    /\ conn \in Instances
    /\ part = [p \in Partner |-> [synced |-> 0, infos |-> <<>>, portName |-> 0,
                                  offer |-> NoInfo, cast |-> NoInfo]]
    /\ self = [x \in Proc |-> [status |-> "running",
           todo |-> Connect(x[1], x[2]) \o conn.script[x[1]] \o Disconnect(x[2]),
           arrived |-> 0, port |-> 0, letter |-> 0, info |-> NoInfo,
           acceptor |-> "none", backlog |-> <<>>, peer |-> Nobody,
           joined |-> FALSE, closed |-> FALSE, stream |-> <<>>,
           sent |-> 0, received |-> <<>>]]
    /\ bound = Nobody

RankStep(x) ==
    /\ x \in Proc
    /\ \/ Arrive(x) \/ Depart(x) \/ Sync(x) \/ Synced(x)
       \/ Listen(x) \/ Report(x) \/ Reported(x) \/ Collect(x)
       \/ OpenPort(x) \/ GetPort(x)
       \/ Offer(x) \/ Judge(x) \/ Broadcast(x) \/ GetInfo(x)
       \/ LookUp(x) \/ Unlink(x) \/ Bind(x) \/ ConnectSocket(x) \/ Accept(x)
       \/ Join(x) \/ Joined(x)
       \/ Send(x) \/ Receive(x) \/ Close(x) \/ Leave(x) \/ Left(x)
    /\ UNCHANGED conn

\* Every rank has returned from Disconnect or thrown.
AllEnded == \A x \in Proc : self[x].todo = <<>>

RanksNext == \/ \E x \in AnyProc : RankStep(x)
             \/ AllEnded /\ UNCHANGED rvars

RanksSpec == RanksInit /\ [][RanksNext]_rvars

\* Every rank is a process of its own that the system schedules.
FairRanksSpec == RanksSpec /\ \A x \in AnyProc : WF_rvars(RankStep(x))

-----------------------------------------------------------------------------

\* The partners agree, and so do their programs.
Agreed   == /\ conn.setting["primary"] = conn.setting["secondary"]
            /\ Size["primary"] = Size["secondary"]
Matching == Agreed /\ conn.script \in Coupled

IsConnected(x) == self[x].peer # Nobody

\* The variables have their types.
RanksTypeOK == /\ conn \in Instances
               /\ part \in [Partner -> PartState]
               /\ \A x \in Proc : self[x] \in RankState
               /\ bound \in Proc \cup {Nobody}

\* A rank is connected to the same rank of the other partner, although every
\* port was chosen by chance and rank 0 passed them on (socket_communication.cpp).
RanksMeet == \A x \in Proc : IsConnected(x) => self[x].peer = Twin(x)

\* The handshake of the two ranks 0 decides for all: when a rank throws because
\* the partners do not match, no rank of either partner connects
\* (Communication::HandShake).
NoHalfConnection == ~Agreed => \A x \in Proc : ~IsConnected(x)

\* Partners with matching programs never throw: the connection is not refused, every rank gets
\* its connection info, and nothing is lost although a rank closes its socket
\* while its peer may still be reading (BaseSocketCommunication::DisconnectDetail).
MatchingNeverThrows == Matching => \A x \in Proc : self[x].status = "running"

\* What a rank imports is what the same rank of the partner exported, in order
\* and without a gap (BaseSocketCommunication, MPIInterCommunication).
ImportsFromTwin == \A x \in Proc :
    self[x].received = [i \in 1..Len(self[x].received) |-> <<Twin(x), i>>]

\* Connect, the exchange and Disconnect end on every rank of matching partners.
MatchingRanksEnd == Matching => <>AllEnded
===============================================================================
