------------------------------ MODULE Connection ------------------------------
(***************************************************************************)
(* The connections of one program: the map from connection names to        *)
(* Connection objects that Connect fills and Disconnect empties            *)
(* (connect_impl.cpp, co_sim_io.cpp), the choice of the communication      *)
(* (factory.cpp), the functions registered with a connection and the loop  *)
(* of Run that calls them (connection.cpp).                                *)
(*                                                                         *)
(* The program consists of components, each with a pair <<my_name,         *)
(* connect_to>> of its own.  A function that Run calls may itself call     *)
(* CoSimIO, Run of another connection included, so that there is a stack   *)
(* of Runs.  What the partners do is an input: the outcome of              *)
(* Communication::Connect and Disconnect and the signals Run receives.     *)
(***************************************************************************)
EXTENDS Integers, Sequences, FiniteSets, Functions

CONSTANTS
    Component,       \* the pairs <<my_name, connect_to>> of the program
    Format,          \* the values of communication_format it asks for
    UseMPI,          \* does it call ConnectMPI, not Connect?
    BuildMPI,        \* CO_SIM_IO_BUILD_MPI_COMMUNICATION
    Fct,             \* the names it registers and the partner signals
    MaxNameLength,   \* bound: max_allowed_size of a name
    MaxObject,       \* bound: Connection objects made
    MaxDepth,        \* bound: Runs inside of Runs
    EntryFirst       \* may the compiler make the map's entry before the object?

\* Names are sequences of characters; 0 is the underscore.
Underscore == 0
Disallowed == 99

AllowedName == {"AdvanceInTime", "InitializeSolutionStep", "Predict",
    "SolveSolutionStep", "FinalizeSolutionStep", "OutputSolutionStep",
    "ImportMesh", "ExportMesh", "ImportData", "ExportData", "exit"}

NoFct == "none"

ASSUME ConnectionAssumption ==
    /\ Component \subseteq Seq(Nat) \X Seq(Nat)
    /\ Component # {}
    /\ {UseMPI, BuildMPI} \subseteq BOOLEAN
    /\ EntryFirst \subseteq BOOLEAN
    /\ NoFct \notin Fct
    /\ {MaxNameLength, MaxObject, MaxDepth} \subseteq Nat

VARIABLES
    registry,    \* s_co_sim_connections: name -> Connection object
    made,        \* number of Connection objects made; each has its number
    stack,       \* the Runs being executed and the function each has called
    ret,         \* what the last call did
    holders,     \* components whose Connect returned, without Disconnect since
    registered   \* <<object, name>> of all Register calls that returned

cvars == <<registry, made, stack, ret, holders, registered>>

\* Object 0 is the nullptr.
Object == [id : 0..MaxObject, pair : Component, connected : BOOLEAN,
           functions : SUBSET Fct]

Frame == [name : Seq(Nat), id : 1..MaxObject, fct : Fct \cup {NoFct}]

Result == {"ok", "thrown", "invalid", "exists", "Disconnected", "undefined"}

-----------------------------------------------------------------------------
(* Names.                                                                   *)

\* operator< of std::string.
Less(s, t) == \E i \in 1..Len(t) :
    /\ Len(s) >= i - 1
    /\ SubSeq(s, 1, i - 1) = SubSeq(t, 1, i - 1)
    /\ Len(s) >= i => s[i] < t[i]

\* Mutant: only the name of the program.
CreateConnectionNameOfFirst(name1, name2) == name1

Join(name1, name2) == name1 \o <<Underscore>> \o name2

CreateConnectionName(name1, name2) ==
    IF Less(name1, name2) THEN Join(name1, name2) ELSE Join(name2, name1)

\* CheckEntry(): is the entry accepted?
CheckEntry(name) == /\ Len(name) \in 1..MaxNameLength
                    /\ Disallowed \notin Range(name)

NameOf(c) == CreateConnectionName(c[1], c[2])

HasConnection(n) == n \in DOMAIN registry

\* s_co_sim_connections[n] = o
WithEntry(n, o) ==
    [m \in DOMAIN registry \cup {n} |-> IF m = n THEN o ELSE registry[m]]

IsNull(n) == HasConnection(n) /\ registry[n].id = 0

-----------------------------------------------------------------------------
(* Calls and exceptions.                                                    *)

\* The program calls CoSimIO from its own code or from a called function.
MayCall == stack # <<>> => stack[Len(stack)].fct # NoFct

Return(c, result) == ret' = [pair |-> c, result |-> result] /\ UNCHANGED stack

\* The program catches the exception itself or in a caller outside of Runs.
Throw(c, result) ==
    /\ ret' = [pair |-> c, result |-> result]
    /\ \E depth \in 0..Len(stack) : stack' = SubSeq(stack, 1, depth)

\* The factories: the formats they know and the ones they can make.
CreateFunctions == {"file", "pipe", "local_socket", "socket"}
    \cup (IF UseMPI THEN {"mpi_inter"} ELSE {})

CanCreate(format) == /\ format \in CreateFunctions
                     /\ format = "mpi_inter" => BuildMPI

-----------------------------------------------------------------------------
(* Connect().                                                               *)

Refuse(c) ==
    /\ UNCHANGED <<registry, made, holders, registered>>
    /\ \/ /\ \/ ~CheckEntry(c[1])
             \/ ~CheckEntry(c[2])
             \/ c[1] = c[2]
          /\ Throw(c, "invalid")
       \/ /\ CheckEntry(c[1]) /\ CheckEntry(c[2]) /\ c[1] # c[2]
          /\ HasConnection(NameOf(c))
          /\ Throw(c, "exists")

\* Mutant: the new connection replaces the one that exists.
AcceptsAlways(c) == CheckEntry(c[1]) /\ CheckEntry(c[2]) /\ c[1] # c[2]

Accepts(c) == /\ CheckEntry(c[1]) /\ CheckEntry(c[2]) /\ c[1] # c[2]
              /\ ~HasConnection(NameOf(c))

\* The object is in the map before it connects, and stays when that throws.  If
\* it cannot be made the order in which the compiler evaluates the assignment
\* decides: operator[] first leaves an entry with a nullptr.
Connect(c, format) ==
    /\ MayCall
    /\ \/ Refuse(c)
       \/ /\ Accepts(c)
          /\ Throw(c, "thrown")   \* no such format, or the constructor throws
          /\ \E first \in EntryFirst : registry' = IF first
                THEN WithEntry(NameOf(c), [id |-> 0, pair |-> c,
                                           connected |-> FALSE, functions |-> {}])
                ELSE registry
          /\ UNCHANGED <<made, holders, registered>>
       \/ /\ Accepts(c)
          /\ CanCreate(format)
          /\ made < MaxObject
          /\ made' = made + 1
          /\ \E success \in BOOLEAN :
                /\ registry' = WithEntry(NameOf(c), [id |-> made + 1, pair |-> c,
                                          connected |-> success, functions |-> {}])
                /\ IF success THEN Return(c, "ok") /\ holders' = holders \cup {c}
                              ELSE Throw(c, "thrown") /\ UNCHANGED holders
          /\ UNCHANGED registered

(***************************************************************************)
(* Disconnect().  Of a connection that is not connected, Communication     *)
(* reports DisconnectionError, which Connection replaces.  An exception in *)
(* DisconnectDetail leaves it connected, one in the synchronisation that   *)
(* follows does not; in both cases it stays in the map.  A called function *)
(* may disconnect the connection whose Run has called it.                  *)
(***************************************************************************)
Disconnect(c) ==
    LET n == NameOf(c)
    IN  /\ MayCall /\ ~IsNull(n)
        /\ holders' = holders \ {c}
        /\ \/ ~HasConnection(n) /\ Throw(c, "thrown") /\ UNCHANGED registry
           \/ /\ HasConnection(n)
              /\ registry' = Restrict(registry, DOMAIN registry \ {n})
              /\ Return(c, "Disconnected")
           \/ /\ HasConnection(n) /\ registry[n].connected
              /\ \E b \in BOOLEAN : registry' = [registry EXCEPT ![n].connected = b]
              /\ Throw(c, "thrown")
        /\ UNCHANGED <<made, registered>>

\* Import and export of Info, data and meshes.
Exchange(c) ==
    /\ MayCall /\ ~IsNull(NameOf(c))
    /\ \/ HasConnection(NameOf(c)) /\ registry[NameOf(c)].connected /\ Return(c, "ok")
       \/ Throw(c, "thrown")
    /\ UNCHANGED <<registry, made, holders, registered>>

-----------------------------------------------------------------------------
(* Register() and Run().                                                    *)

CanRegister(n, f) == /\ HasConnection(n)
                     /\ f \in AllowedName
                     /\ f \notin registry[n].functions

Register(c, f) ==
    LET n == NameOf(c)
    IN  /\ MayCall /\ ~IsNull(n)
        /\ \/ /\ CanRegister(n, f)
              /\ registry' = [registry EXCEPT ![n].functions = @ \cup {f}]
              /\ registered' = registered \cup {<<registry[n].id, f>>}
              /\ Return(c, "ok")
           \/ /\ ~CanRegister(n, f)
              /\ Throw(c, "thrown")
              /\ UNCHANGED <<registry, registered>>
        /\ UNCHANGED <<made, holders>>

Run(c) ==
    LET n == NameOf(c)
    IN  /\ MayCall /\ ~IsNull(n)
        /\ \/ /\ HasConnection(n)
              /\ Len(stack) < MaxDepth
              /\ stack' = Append(stack, [name |-> n, id |-> registry[n].id,
                                         fct |-> NoFct])
              /\ UNCHANGED ret
           \/ ~HasConnection(n) /\ Throw(c, "thrown")
        /\ UNCHANGED <<registry, made, holders, registered>>

Waiting(fr) == /\ stack # <<>>
               /\ fr = stack[Len(stack)]
               /\ fr.fct = NoFct

\* RemoveConnection() has not destroyed the object whose Run this is.
Alive(fr) == HasConnection(fr.name) /\ registry[fr.name].id = fr.id

\* Mutant: every allowed name is called.
LooksUpAllowed(o, f) == TRUE

LooksUp(o, f) == f \in o.functions

\* ImportInfo("run_control") and what Run makes of the signal.
Signal(f) == \E fr \in {stack[i] : i \in 1..Len(stack)} :
    /\ Waiting(fr)
    /\ Alive(fr)
    /\ LET o    == registry[fr.name]
           outer == SubSeq(stack, 1, Len(stack) - 1)
       IN  \/ /\ o.connected /\ f = "exit"
              /\ stack' = outer
              /\ ret' = [pair |-> o.pair, result |-> "ok"]
           \/ /\ o.connected /\ f # "exit" /\ f \in AllowedName /\ LooksUp(o, f)
              /\ stack' = Append(outer, [fr EXCEPT !.fct = f])
              /\ UNCHANGED ret
           \/ /\ \/ f # "exit" /\ (f \notin AllowedName \/ ~LooksUp(o, f))
                 \/ ~o.connected
              /\ ret' = [pair |-> o.pair, result |-> "thrown"]
              /\ \E depth \in 0..Len(outer) : stack' = SubSeq(stack, 1, depth)
    /\ UNCHANGED <<registry, made, holders, registered>>

\* The called function returns and Run goes on with its Connection object.
FctReturns ==
    /\ stack # <<>>
    /\ stack[Len(stack)].fct # NoFct
    /\ stack' = [stack EXCEPT ![Len(stack)].fct = NoFct]
    /\ UNCHANGED <<registry, made, ret, holders, registered>>

-----------------------------------------------------------------------------
(* Undefined behaviour: the program ends there and is started again.        *)

Crash(c) ==
    /\ ret' = [pair |-> c, result |-> "undefined"]
    /\ registry' = <<>> /\ made' = 0 /\ stack' = <<>>
    /\ holders' = {} /\ registered' = {}

\* Any of these calls with a nullptr in the map.
Dereference(c) == MayCall /\ IsNull(NameOf(c)) /\ Crash(c)

\* Run goes on after a function that has disconnected: its object is destroyed.
UseDestroyed(c) == \E fr \in {stack[i] : i \in 1..Len(stack)} :
    /\ Waiting(fr)
    /\ ~Alive(fr)
    /\ NameOf(c) = fr.name
    /\ Crash(c)

-----------------------------------------------------------------------------

ConnectionInit ==
    /\ registry = <<>>
    /\ made = 0
    /\ stack = <<>>
    /\ ret = [pair |-> CHOOSE c \in Component : TRUE, result |-> "ok"]
    /\ holders = {}
    /\ registered = {}

ConnectionNext ==
    \/ \E c \in Component, format \in Format : Connect(c, format)
    \/ \E c \in Component : Disconnect(c) \/ Exchange(c) \/ Run(c)
    \/ \E c \in Component : Dereference(c) \/ UseDestroyed(c)
    \/ \E c \in Component, f \in Fct : Register(c, f)
    \/ \E f \in Fct : Signal(f)
    \/ FctReturns

ConnectionSpec == ConnectionInit /\ [][ConnectionNext]_cvars

-----------------------------------------------------------------------------

\* The variables have their types; only the innermost Run waits for a signal.
ConnectionTypeOK ==
    /\ registry \in [DOMAIN registry -> Object]
    /\ made \in 0..MaxObject
    /\ stack \in Seq(Frame)
    /\ \A i \in 1..(Len(stack) - 1) : stack[i].fct # NoFct
    /\ ret \in [pair : Component, result : Result]
    /\ holders \subseteq Component
    /\ registered \subseteq (1..MaxObject) \X Fct

\* A component that has connected and not disconnected finds its own, working
\* connection under its name, whatever other components and the functions that Run()
\* calls have done: also after exceptions that end Runs, functions that disconnect
\* their own connection, and Connects that throw.
HoldersAreServed == \A c \in holders :
    /\ HasConnection(NameOf(c))
    /\ registry[NameOf(c)].pair = c
    /\ registry[NameOf(c)].connected

\* Run() calls a function only if it was registered with this connection,
\* not with an earlier one of the same name that a called function has replaced.
CallsRegistered == \A i \in 1..Len(stack) :
    stack[i].fct # NoFct => <<stack[i].id, stack[i].fct>> \in registered

-----------------------------------------------------------------------------
(* What the theorems of ConnectionProofs rest on.                           *)

\* No two components of the program share a connection name.
NamesDiffer == \A c, d \in Component : NameOf(c) = NameOf(d) => c = d

\* An object is in the map under the name of the pair it was made for, and knows
\* only functions that were registered with it.
ObjectsInv == \A n \in DOMAIN registry :
    /\ NameOf(registry[n].pair) = n
    /\ \A f \in registry[n].functions : <<registry[n].id, f>> \in registered

ConnectionInv ==
    /\ ConnectionTypeOK
    /\ ObjectsInv
    /\ CallsRegistered

-----------------------------------------------------------------------------
(* What the code does not keep; see the README.                             *)

\* No call dereferences a nullptr, GetConnection() finds out that a connection does
\* not exist; and Run() does not go on with an object that was destroyed.
NeverUndefined == ret.result # "undefined"

\* The error "A connection from ... to ... already exists!" is true: the names are
\* those of the connection in the map.
RefusedOnlyForSamePair ==
    ret.result = "exists" => registry[NameOf(ret.pair)].pair = ret.pair

\* Connect refuses a connection that exists only if it was established.
RefusedOnlyIfEstablished ==
    ret.result = "exists" => registry[NameOf(ret.pair)].connected

\* The status Disconnected is returned for connections that were connected.
DisconnectedTellsTheTruth == [][
    \A c \in Component :
        (Disconnect(c) /\ ret'.result = "Disconnected")
            => registry[NameOf(c)].connected ]_cvars
===============================================================================
