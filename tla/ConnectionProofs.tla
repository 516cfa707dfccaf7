--------------------------- MODULE ConnectionProofs ---------------------------
(***************************************************************************)
(* Theorems about the connections of a program, for every set of           *)
(* components, functions and formats and any depth of Runs inside of Runs. *)
(***************************************************************************)
EXTENDS Connection, TLAPS

\* The bounds are numbers.
LEMMA Bounds == MaxObject \in Nat /\ MaxDepth \in Nat
BY ConnectionAssumption

\* The Runs that go on after a call: the outer ones, as they were.
Kept == /\ stack' \in Seq(Frame)
        /\ Len(stack') <= Len(stack)
        /\ \A i \in 1..Len(stack') : stack'[i] = stack[i]

\* The first elements of a sequence.
LEMMA FirstOf ==
    ASSUME NEW S, NEW s \in Seq(S), NEW d \in 0..Len(s)
    PROVE  /\ SubSeq(s, 1, d) \in Seq(S)
           /\ Len(SubSeq(s, 1, d)) = d
           /\ \A i \in 1..d : SubSeq(s, 1, d)[i] = s[i]
OBVIOUS

\* The first Runs of the stack are a stack of Runs.
LEMMA Prefix ==
    ASSUME ConnectionTypeOK, NEW depth \in 0..Len(stack),
           stack' = SubSeq(stack, 1, depth)
    PROVE  Kept
BY DEF ConnectionTypeOK, Kept

\* A call that returns leaves the Runs alone, one that throws ends some of them.
LEMMA AfterCall ==
    ASSUME ConnectionTypeOK, NEW c, NEW result, Return(c, result) \/ Throw(c, result)
    PROVE  Kept /\ ret' = [pair |-> c, result |-> result]
<1>1. CASE Return(c, result)
  BY <1>1 DEF Return, ConnectionTypeOK, Kept
<1>2. CASE Throw(c, result)
  BY <1>2, Prefix DEF Throw
<1>3. QED
  BY <1>1, <1>2

-----------------------------------------------------------------------------
(* The type invariant, ObjectsInv and CallsRegistered: one lemma per call.  *)

\* A call that ends some Runs at most leaves the rest of the stack well formed.
LEMMA KeptStack ==
    ASSUME ConnectionInv, Kept, registered \subseteq registered'
    PROVE  /\ \A i \in 1..(Len(stack') - 1) : stack'[i].fct # NoFct
           /\ CallsRegistered'
<1>1. stack \in Seq(Frame) /\ stack' \in Seq(Frame)
  BY DEF ConnectionInv, ConnectionTypeOK, Kept
<1>2. Len(stack) \in Nat /\ Len(stack') \in Nat /\ Len(stack') <= Len(stack)
  BY <1>1 DEF Kept
<1>3. \A i \in 1..(Len(stack') - 1) : stack'[i].fct # NoFct
  <2>1. SUFFICES ASSUME NEW i \in 1..(Len(stack') - 1)
                 PROVE  stack'[i].fct # NoFct
    OBVIOUS
  <2>2. i \in 1..(Len(stack) - 1) /\ stack'[i] = stack[i]
    BY <1>2 DEF Kept
  <2>3. QED
    BY <2>2 DEF ConnectionInv, ConnectionTypeOK
<1>4. CallsRegistered'
  <2>1. SUFFICES ASSUME NEW i \in 1..Len(stack'), stack'[i].fct # NoFct
                 PROVE  <<stack'[i].id, stack'[i].fct>> \in registered'
    BY DEF CallsRegistered
  <2>2. i \in 1..Len(stack) /\ stack'[i] = stack[i]
    BY <1>2 DEF Kept
  <2>3. QED
    BY <2>1, <2>2 DEF ConnectionInv, CallsRegistered
<1>5. QED
  BY <1>3, <1>4

\* Connect() and ConnectMPI().
LEMMA ConnectInv ==
    ASSUME ConnectionInv, NEW c \in Component, NEW format \in Format, Connect(c, format)
    PROVE  ConnectionInv'
<1>1. registered' = registered
  BY DEF Connect, Refuse
<1>2. PICK result \in Result : Return(c, result) \/ Throw(c, result)
  BY DEF Connect, Refuse, Result
<1>3. Kept /\ ret' \in [pair : Component, result : Result]
  BY <1>2, AfterCall DEF ConnectionInv
<1>4. CallsRegistered' /\ \A i \in 1..(Len(stack') - 1) : stack'[i].fct # NoFct
  BY <1>1, <1>3, KeptStack
<1>5. made' \in 0..MaxObject /\ holders' \subseteq Component
  <2>1. \/ made' = made
        \/ made < MaxObject /\ made' = made + 1
    BY DEF Connect, Refuse
  <2>2. holders' = holders \/ holders' = holders \cup {c}
    BY DEF Connect, Refuse
  <2>3. QED
    BY <2>1, <2>2, Bounds DEF ConnectionInv, ConnectionTypeOK
<1>6. \/ registry' = registry
      \/ \E o \in Object : /\ o.pair = c /\ o.functions = {}
                           /\ registry' = WithEntry(NameOf(c), o)
  <2>1. \A i \in 0..MaxObject, b \in BOOLEAN :
            [id |-> i, pair |-> c, connected |-> b, functions |-> {}] \in Object
    BY DEF Object
  <2>2. \/ registry' = registry
        \/ \E i \in 0..MaxObject, b \in BOOLEAN : registry' = WithEntry(NameOf(c),
               [id |-> i, pair |-> c, connected |-> b, functions |-> {}])
    <3>1. CASE Refuse(c)
      BY <3>1 DEF Refuse
    <3>2. CASE \E first \in EntryFirst : registry' = IF first
                 THEN WithEntry(NameOf(c), [id |-> 0, pair |-> c,
                                            connected |-> FALSE, functions |-> {}])
                 ELSE registry
      <4>1. 0 \in 0..MaxObject
        BY Bounds
      <4>2. QED
        BY <3>2, <4>1
    <3>3. CASE /\ made < MaxObject
               /\ \E success \in BOOLEAN : registry' = WithEntry(NameOf(c),
                     [id |-> made + 1, pair |-> c, connected |-> success,
                      functions |-> {}])
      <4>1. made + 1 \in 0..MaxObject
        BY <3>3, Bounds DEF ConnectionInv, ConnectionTypeOK
      <4>2. QED
        BY <3>3, <4>1
    <3>4. QED
      BY <3>1, <3>2, <3>3 DEF Connect
  <2>3. QED
    BY <2>1, <2>2
<1>7. registry' \in [DOMAIN registry' -> Object] /\ ObjectsInv'
  BY <1>1, <1>6 DEF ConnectionInv, ConnectionTypeOK, ObjectsInv, WithEntry
<1>8. QED
  BY <1>1, <1>3, <1>4, <1>5, <1>7 DEF ConnectionInv, ConnectionTypeOK, Kept

\* Disconnect().
LEMMA DisconnectInv ==
    ASSUME ConnectionInv, NEW c \in Component, Disconnect(c)
    PROVE  ConnectionInv'
<1> DEFINE n == NameOf(c)
<1>1. registered' = registered /\ made' = made /\ holders' = holders \ {c}
  BY DEF Disconnect
<1>2. PICK result \in Result : Return(c, result) \/ Throw(c, result)
  BY DEF Disconnect, Result
<1>3. Kept /\ ret' \in [pair : Component, result : Result]
  BY <1>2, AfterCall DEF ConnectionInv
<1>4. CallsRegistered' /\ \A i \in 1..(Len(stack') - 1) : stack'[i].fct # NoFct
  BY <1>1, <1>3, KeptStack
<1>5. \/ registry' = registry
      \/ registry' = Restrict(registry, DOMAIN registry \ {n})
      \/ n \in DOMAIN registry /\ \E b \in BOOLEAN :
            registry' = [registry EXCEPT ![n].connected = b]
  BY DEF Disconnect, HasConnection
<1>6. registry' \in [DOMAIN registry' -> Object] /\ ObjectsInv'
  <2>1. CASE registry' = registry
    BY <1>1, <2>1 DEF ConnectionInv, ConnectionTypeOK, ObjectsInv
  <2>2. CASE registry' = Restrict(registry, DOMAIN registry \ {n})
    BY <1>1, <2>2 DEF ConnectionInv, ConnectionTypeOK, ObjectsInv, Restrict
  <2>3. ASSUME NEW b \in BOOLEAN, n \in DOMAIN registry,
               registry' = [registry EXCEPT ![n].connected = b]
        PROVE  registry' \in [DOMAIN registry' -> Object] /\ ObjectsInv'
    <3>1. registry \in [DOMAIN registry -> Object] /\ registry[n] \in Object
      BY <2>3 DEF ConnectionInv, ConnectionTypeOK
    <3>2. /\ DOMAIN registry' = DOMAIN registry
          /\ \A m \in DOMAIN registry : /\ registry'[m] \in Object
                                        /\ registry'[m].pair = registry[m].pair
                                        /\ registry'[m].id = registry[m].id
                                        /\ registry'[m].functions = registry[m].functions
      BY <2>3, <3>1 DEF Object
    <3>3. registry' \in [DOMAIN registry' -> Object]
      BY <2>3, <3>1, <3>2
    <3>4. ObjectsInv'
      BY <1>1, <3>2 DEF ConnectionInv, ObjectsInv
    <3>5. QED
      BY <3>3, <3>4
  <2>4. QED
    BY <1>5, <2>1, <2>2, <2>3
<1>7. QED
  BY <1>1, <1>3, <1>4, <1>6 DEF ConnectionInv, ConnectionTypeOK, Kept

\* Register().
LEMMA RegisterInv ==
    ASSUME ConnectionInv, NEW c \in Component, NEW f \in Fct, Register(c, f)
    PROVE  ConnectionInv'
<1> DEFINE n == NameOf(c)
<1>1. made' = made /\ holders' = holders /\ registered \subseteq registered'
  BY DEF Register
<1>2. PICK result \in Result : Return(c, result) \/ Throw(c, result)
  BY DEF Register, Result
<1>3. Kept /\ ret' \in [pair : Component, result : Result]
  BY <1>2, AfterCall DEF ConnectionInv
<1>4. CallsRegistered' /\ \A i \in 1..(Len(stack') - 1) : stack'[i].fct # NoFct
  BY <1>1, <1>3, KeptStack
<1>5. CASE CanRegister(n, f)
  <2>1. /\ n \in DOMAIN registry /\ registry[n] \in Object /\ registry[n].id # 0
        /\ registry' = [registry EXCEPT ![n].functions = @ \cup {f}]
        /\ registered' = registered \cup {<<registry[n].id, f>>}
    <3>1. /\ n \in DOMAIN registry /\ ~IsNull(n)
          /\ registry' = [registry EXCEPT ![n].functions = @ \cup {f}]
          /\ registered' = registered \cup {<<registry[n].id, f>>}
      BY <1>5 DEF Register, CanRegister, HasConnection
    <3>2. registry[n] \in Object /\ registry[n].id # 0
      BY <3>1 DEF IsNull, HasConnection, ConnectionInv, ConnectionTypeOK
    <3>3. QED
      BY <3>1, <3>2
  <2>2. registered' \subseteq (1..MaxObject) \X Fct
    <3>1. registry[n].id \in 1..MaxObject
      BY <2>1, Bounds DEF Object
    <3>2. registered \subseteq (1..MaxObject) \X Fct
      BY DEF ConnectionInv, ConnectionTypeOK
    <3>3. QED
      BY <2>1, <3>1, <3>2
  <2>3. registry' \in [DOMAIN registry' -> Object]
    BY <2>1 DEF ConnectionInv, ConnectionTypeOK, Object
  <2>4. ObjectsInv'
    BY <2>1 DEF ConnectionInv, ConnectionTypeOK, ObjectsInv, Object
  <2>5. QED
    BY <1>1, <1>3, <1>4, <2>2, <2>3, <2>4 DEF ConnectionInv, ConnectionTypeOK, Kept
<1>6. CASE ~CanRegister(n, f)
  BY <1>1, <1>3, <1>4, <1>6
     DEF Register, ConnectionInv, ConnectionTypeOK, ObjectsInv, Kept
<1>7. QED
  BY <1>5, <1>6

\* Run().
LEMMA RunInv ==
    ASSUME ConnectionInv, NEW c \in Component, Run(c)
    PROVE  ConnectionInv'
<1> DEFINE n == NameOf(c)
           fr == [name |-> n, id |-> registry[n].id, fct |-> NoFct]
<1>1. UNCHANGED <<registry, made, holders, registered>>
  BY DEF Run
<1>2. registry' \in [DOMAIN registry' -> Object] /\ ObjectsInv'
  BY <1>1 DEF ConnectionInv, ConnectionTypeOK, ObjectsInv
<1>3. CASE Throw(c, "thrown")
  <2>1. Kept /\ ret' \in [pair : Component, result : Result]
    BY <1>3, AfterCall DEF ConnectionInv, Result
  <2>2. CallsRegistered' /\ \A i \in 1..(Len(stack') - 1) : stack'[i].fct # NoFct
    BY <1>1, <2>1, KeptStack
  <2>3. QED
    BY <1>1, <1>2, <2>1, <2>2 DEF ConnectionInv, ConnectionTypeOK, Kept
<1>4. CASE HasConnection(n) /\ stack' = Append(stack, fr) /\ ret' = ret
  <2>1. /\ stack \in Seq(Frame) /\ Len(stack) \in Nat /\ MayCall
        /\ registry[n] \in Object /\ registry[n].id # 0
    BY <1>4 DEF Run, ConnectionInv, ConnectionTypeOK, HasConnection, IsNull
  <2>2. n \in Seq(Nat)
    BY ConnectionAssumption DEF NameOf, CreateConnectionName, Join, Underscore
  <2>3. fr \in Frame
    BY <2>1, <2>2, Bounds DEF Frame, Object
  <2>4. /\ stack' \in Seq(Frame) /\ Len(stack') = Len(stack) + 1
        /\ stack'[Len(stack) + 1] = fr
        /\ \A i \in 1..Len(stack) : stack'[i] = stack[i]
    BY <1>4, <2>1, <2>3
  <2>5. \A i \in 1..Len(stack) : stack[i].fct # NoFct
    BY <2>1 DEF MayCall, ConnectionInv, ConnectionTypeOK
  <2>6. \A i \in 1..(Len(stack') - 1) : stack'[i].fct # NoFct
    BY <2>1, <2>4, <2>5
  <2>7. CallsRegistered'
    <3>1. SUFFICES ASSUME NEW i \in 1..Len(stack'), stack'[i].fct # NoFct
                   PROVE  <<stack'[i].id, stack'[i].fct>> \in registered'
      BY DEF CallsRegistered
    <3>2. i \in 1..Len(stack) /\ stack'[i] = stack[i]
      BY <2>1, <2>4, <3>1
    <3>3. QED
      BY <1>1, <3>1, <3>2 DEF ConnectionInv, CallsRegistered
  <2>8. QED
    BY <1>1, <1>2, <1>4, <2>4, <2>6, <2>7 DEF ConnectionInv, ConnectionTypeOK
<1>5. QED
  BY <1>3, <1>4 DEF Run

\* A signal of the partner, received in Run().
LEMMA SignalInv ==
    ASSUME ConnectionInv, NEW f \in Fct, Signal(f)
    PROVE  ConnectionInv'
<1> DEFINE top == Len(stack)
           outer == SubSeq(stack, 1, top - 1)
<1>1. UNCHANGED <<registry, made, holders, registered>>
  BY DEF Signal
<1>2. registry' \in [DOMAIN registry' -> Object] /\ ObjectsInv'
  BY <1>1 DEF ConnectionInv, ConnectionTypeOK, ObjectsInv
<1>3. PICK fr : /\ stack # <<>> /\ fr = stack[top]
                /\ HasConnection(fr.name) /\ registry[fr.name].id = fr.id
                /\ LET o == registry[fr.name]
                   IN  \/ /\ stack' = outer
                          /\ ret' = [pair |-> o.pair, result |-> "ok"]
                       \/ /\ LooksUp(o, f)
                          /\ stack' = Append(outer, [fr EXCEPT !.fct = f])
                          /\ ret' = ret
                       \/ /\ ret' = [pair |-> o.pair, result |-> "thrown"]
                          /\ \E depth \in 0..Len(outer) :
                                stack' = SubSeq(stack, 1, depth)
  BY DEF Signal, Waiting, Alive
<1>4. /\ stack \in Seq(Frame) /\ top \in Nat /\ top > 0 /\ fr \in Frame
      /\ registry[fr.name] \in Object
  BY <1>3 DEF ConnectionInv, ConnectionTypeOK, HasConnection
<1>5. /\ outer \in Seq(Frame) /\ Len(outer) = top - 1
      /\ \A i \in 1..(top - 1) : outer[i] = stack[i]
      /\ top - 1 \in 0..Len(stack)
  <2>1. top - 1 \in 0..Len(stack)
    BY <1>4
  <2>2. QED
    BY <1>4, <2>1, FirstOf
<1>6. ret' \in [pair : Component, result : Result]
  BY <1>3, <1>4 DEF ConnectionInv, ConnectionTypeOK, Object, Result
<1>7. CASE \E depth \in 0..Len(outer) : stack' = SubSeq(stack, 1, depth)
  <2>1. Kept
    <3>1. PICK depth \in 0..Len(outer) : stack' = SubSeq(stack, 1, depth)
      BY <1>7
    <3>2. depth \in 0..Len(stack)
      BY <1>4, <1>5
    <3>3. QED
      BY <3>1, <3>2, Prefix DEF ConnectionInv
  <2>2. CallsRegistered' /\ \A i \in 1..(Len(stack') - 1) : stack'[i].fct # NoFct
    BY <1>1, <2>1, KeptStack
  <2>3. QED
    BY <1>1, <1>2, <1>6, <2>1, <2>2 DEF ConnectionInv, ConnectionTypeOK, Kept
<1>8. CASE /\ LooksUp(registry[fr.name], f)
           /\ stack' = Append(outer, [fr EXCEPT !.fct = f])
  <2>1. /\ [fr EXCEPT !.fct = f] \in Frame
        /\ [fr EXCEPT !.fct = f].fct = f /\ [fr EXCEPT !.fct = f].id = fr.id
    BY <1>4 DEF Frame
  <2>2. /\ stack' \in Seq(Frame) /\ Len(stack') = top
        /\ stack'[top] = [fr EXCEPT !.fct = f]
        /\ \A i \in 1..(top - 1) : stack'[i] = stack[i]
    BY <1>4, <1>5, <1>8, <2>1
  <2>3. \A i \in 1..(Len(stack') - 1) : stack'[i].fct # NoFct
    BY <1>4, <2>2 DEF ConnectionInv, ConnectionTypeOK
  <2>4. <<fr.id, f>> \in registered
    BY <1>3, <1>8 DEF LooksUp, ConnectionInv, ObjectsInv, HasConnection
  <2>5. CallsRegistered'
    <3>1. SUFFICES ASSUME NEW i \in 1..Len(stack'), stack'[i].fct # NoFct
                   PROVE  <<stack'[i].id, stack'[i].fct>> \in registered'
      BY DEF CallsRegistered
    <3>2. CASE i = top
      BY <1>1, <2>1, <2>2, <2>4, <3>2
    <3>3. CASE i # top
      <4>1. i \in 1..(top - 1) /\ i \in 1..Len(stack)
        BY <1>4, <2>2, <3>3
      <4>2. QED
        BY <1>1, <2>2, <3>1, <4>1 DEF ConnectionInv, CallsRegistered
    <3>4. QED
      BY <3>2, <3>3
  <2>6. QED
    BY <1>1, <1>2, <1>6, <2>2, <2>3, <2>5 DEF ConnectionInv, ConnectionTypeOK
<1>9. stack' = outer => \E depth \in 0..Len(outer) : stack' = SubSeq(stack, 1, depth)
  <2>1. top - 1 \in 0..Len(outer)
    BY <1>4, <1>5
  <2>2. QED
    BY <2>1
<1>10. QED
  BY <1>3, <1>7, <1>8, <1>9

\* The function Run() has called returns.
LEMMA FctReturnsInv ==
    ASSUME ConnectionInv, FctReturns
    PROVE  ConnectionInv'
<1> DEFINE top == Len(stack)
<1>1. /\ stack \in Seq(Frame) /\ top \in Nat /\ top > 0 /\ stack[top] \in Frame
      /\ stack' = [stack EXCEPT ![top] = [stack[top] EXCEPT !.fct = NoFct]]
      /\ UNCHANGED <<registry, made, ret, holders, registered>>
  BY DEF FctReturns, ConnectionInv, ConnectionTypeOK
<1>2. /\ [stack[top] EXCEPT !.fct = NoFct] \in Frame
      /\ [stack[top] EXCEPT !.fct = NoFct].fct = NoFct
  BY <1>1 DEF Frame
<1>3. /\ stack' \in Seq(Frame) /\ Len(stack') = top /\ stack'[top].fct = NoFct
      /\ \A i \in 1..(top - 1) : stack'[i] = stack[i]
  BY <1>1, <1>2
<1>4. \A i \in 1..(Len(stack') - 1) : stack'[i].fct # NoFct
  BY <1>1, <1>3 DEF ConnectionInv, ConnectionTypeOK
<1>5. CallsRegistered'
  <2>1. SUFFICES ASSUME NEW i \in 1..Len(stack'), stack'[i].fct # NoFct
                 PROVE  <<stack'[i].id, stack'[i].fct>> \in registered'
    BY DEF CallsRegistered
  <2>2. i \in 1..(top - 1) /\ i \in 1..Len(stack)
    BY <1>1, <1>3, <2>1
  <2>3. QED
    BY <1>1, <1>3, <2>1, <2>2 DEF ConnectionInv, CallsRegistered
<1>6. QED
  BY <1>1, <1>3, <1>4, <1>5 DEF ConnectionInv, ConnectionTypeOK, ObjectsInv

\* The other steps of the program change no object.
LEMMA ExchangeInv ==
    ASSUME ConnectionInv, NEW c \in Component, Exchange(c)
    PROVE  ConnectionInv'
<1>1. UNCHANGED <<registry, made, holders, registered>>
  BY DEF Exchange
<1>2. PICK result \in Result : Return(c, result) \/ Throw(c, result)
  BY DEF Exchange, Result
<1>3. Kept /\ ret' \in [pair : Component, result : Result]
  BY <1>2, AfterCall DEF ConnectionInv
<1>4. CallsRegistered' /\ \A i \in 1..(Len(stack') - 1) : stack'[i].fct # NoFct
  BY <1>1, <1>3, KeptStack
<1>5. QED
  BY <1>1, <1>3, <1>4 DEF ConnectionInv, ConnectionTypeOK, ObjectsInv, Kept

\* A program that is started again, or for the first time, has no connections.
LEMMA StartInv ==
    ASSUME registry = <<>>, made = 0, stack = <<>>, holders = {}, registered = {},
           ret \in [pair : Component, result : Result]
    PROVE  ConnectionInv /\ HoldersAreServed
BY Bounds
   DEF ConnectionInv, ConnectionTypeOK, ObjectsInv, CallsRegistered,
       HoldersAreServed

\* Undefined behaviour ends the program, which starts again without connections.
LEMMA CrashInv ==
    ASSUME NEW c \in Component, Crash(c)
    PROVE  ConnectionInv' /\ HoldersAreServed'
<1>1. /\ registry' = <<>> /\ made' = 0 /\ stack' = <<>> /\ holders' = {}
      /\ registered' = {} /\ ret' \in [pair : Component, result : Result]
  BY DEF Crash, Result
<1>2. QED
  BY <1>1, Bounds
     DEF ConnectionInv, ConnectionTypeOK, ObjectsInv, CallsRegistered,
         HoldersAreServed

\* The variables keep their types, the map its order, and Run() calls no function
\* that was not registered with its object.
THEOREM ConnectionInvariant == ConnectionSpec => []ConnectionInv
<1>1. ConnectionInit => ConnectionInv
  <2> SUFFICES ASSUME ConnectionInit PROVE ConnectionInv
    OBVIOUS
  <2>1. ret \in [pair : Component, result : Result]
    BY ConnectionAssumption DEF ConnectionInit, Result
  <2>2. QED
    BY <2>1, StartInv DEF ConnectionInit
<1>2. ConnectionInv /\ [ConnectionNext]_cvars => ConnectionInv'
  <2> SUFFICES ASSUME ConnectionInv, [ConnectionNext]_cvars PROVE ConnectionInv'
    OBVIOUS
  <2>1. CASE UNCHANGED cvars
    BY <2>1 DEF cvars, ConnectionInv, ConnectionTypeOK, ObjectsInv, CallsRegistered
  <2>2. QED
    BY <2>1, ConnectInv, DisconnectInv, ExchangeInv, RunInv, CrashInv,
       RegisterInv, SignalInv, FctReturnsInv
       DEF ConnectionNext, Dereference, UseDestroyed
<1>3. QED
  BY <1>1, <1>2, PTL DEF ConnectionSpec

\* Run() calls only functions that were registered with its own Connection object:
\* an earlier connection of the same name leaves none behind, not even when a called
\* function has disconnected and connected again.
THEOREM CallsRegisteredAlways == ConnectionSpec => []CallsRegistered
<1>1. ConnectionInv => CallsRegistered
  BY DEF ConnectionInv
<1>2. QED
  BY <1>1, ConnectionInvariant, PTL

-----------------------------------------------------------------------------
(* Components and their connections.                                        *)

\* What a component holds is its own, whatever the others and the functions called
\* by Run() do, when no two components have the same connection name.
THEOREM HoldersAreServedAlways ==
    ASSUME NamesDiffer
    PROVE  ConnectionSpec => []HoldersAreServed
<1>1. ConnectionInit => HoldersAreServed
  BY DEF ConnectionInit, HoldersAreServed
<1>2. ConnectionInv /\ HoldersAreServed /\ [ConnectionNext]_cvars => HoldersAreServed'
  <2> SUFFICES ASSUME ConnectionInv, HoldersAreServed, [ConnectionNext]_cvars
               PROVE  HoldersAreServed'
    OBVIOUS
  <2> USE DEF HasConnection
  <2>1. CASE UNCHANGED <<registry, holders>>
    BY <2>1 DEF HoldersAreServed
  <2>2. ASSUME NEW c \in Component, NEW format \in Format, Connect(c, format)
        PROVE  HoldersAreServed'
    <3>1. CASE registry' = registry /\ holders' = holders
      BY <2>1, <3>1
    <3>2. CASE /\ NameOf(c) \notin DOMAIN registry /\ holders' = holders
               /\ \E o : registry' = WithEntry(NameOf(c), o)
      BY <3>2 DEF HoldersAreServed, WithEntry
    <3>3. CASE /\ NameOf(c) \notin DOMAIN registry /\ holders' = holders \cup {c}
               /\ registry' = WithEntry(NameOf(c), [id |-> made + 1, pair |-> c,
                                  connected |-> TRUE, functions |-> {}])
      <4>1. /\ NameOf(c) \in DOMAIN registry'
            /\ registry'[NameOf(c)].pair = c /\ registry'[NameOf(c)].connected
        BY <3>3 DEF WithEntry
      <4>2. \A d \in holders : /\ NameOf(d) \in DOMAIN registry'
                               /\ registry'[NameOf(d)] = registry[NameOf(d)]
        BY <3>3 DEF WithEntry, HoldersAreServed
      <4>3. QED
        BY <3>3, <4>1, <4>2 DEF HoldersAreServed
    <3>4. QED
      BY <2>2, <3>1, <3>2, <3>3 DEF Connect, Refuse, Accepts
  <2>3. ASSUME NEW c \in Component, Disconnect(c) PROVE HoldersAreServed'
    <3> DEFINE n == NameOf(c)
    <3>1. /\ holders' = holders \ {c}
          /\ \/ registry' = registry
             \/ registry' = Restrict(registry, DOMAIN registry \ {n})
             \/ \E b \in BOOLEAN : registry' = [registry EXCEPT ![n].connected = b]
      BY <2>3 DEF Disconnect
    <3>2. \A d \in holders' : d \in holders /\ NameOf(d) # n
      BY <3>1 DEF NamesDiffer, ConnectionInv, ConnectionTypeOK
    <3>3. \A d \in holders' : /\ NameOf(d) \in DOMAIN registry'
                              /\ registry'[NameOf(d)] = registry[NameOf(d)]
      BY <3>1, <3>2 DEF Restrict, HoldersAreServed, ConnectionInv, ConnectionTypeOK
    <3>4. QED
      BY <3>2, <3>3 DEF HoldersAreServed
  <2>4. ASSUME NEW c \in Component, NEW f \in Fct, Register(c, f)
        PROVE  HoldersAreServed'
    <3> DEFINE n == NameOf(c)
    <3>1. /\ holders' = holders
          /\ \/ registry' = registry
             \/ /\ n \in DOMAIN registry
                /\ registry' = [registry EXCEPT ![n].functions = @ \cup {f}]
      BY <2>4 DEF Register, CanRegister
    <3>2. /\ DOMAIN registry' = DOMAIN registry
          /\ \A m \in DOMAIN registry :
                /\ registry'[m].pair = registry[m].pair
                /\ registry[m].connected => registry'[m].connected
      <4>1. \A o \in Object : \A F :
               /\ [o EXCEPT !.functions = F].pair = o.pair
               /\ o.connected => [o EXCEPT !.functions = F].connected
        BY DEF Object
      <4>2. CASE registry' = registry
        BY <4>2
      <4>3. CASE /\ n \in DOMAIN registry
                 /\ registry' = [registry EXCEPT ![n].functions = @ \cup {f}]
        <5>1. /\ DOMAIN registry' = DOMAIN registry
              /\ registry'[n] = [registry[n] EXCEPT
                                    !.functions = registry[n].functions \cup {f}]
              /\ \A m \in DOMAIN registry \ {n} : registry'[m] = registry[m]
          BY <4>3 DEF ConnectionInv, ConnectionTypeOK
        <5>2. registry[n] \in Object
          BY <4>3 DEF ConnectionInv, ConnectionTypeOK
        <5>3. /\ registry'[n].pair = registry[n].pair
              /\ registry[n].connected => registry'[n].connected
          BY <4>1, <5>1, <5>2
        <5>4. QED
          BY <5>1, <5>3
      <4>4. QED
        BY <3>1, <4>2, <4>3
    <3>3. QED
      BY <3>1, <3>2 DEF HoldersAreServed
  <2>5. QED
    BY <2>1, <2>2, <2>3, <2>4, CrashInv
       DEF ConnectionNext, Dereference, UseDestroyed, Exchange, Run, Signal, FctReturns, cvars
<1>3. QED
  BY <1>1, <1>2, ConnectionInvariant, PTL DEF ConnectionSpec

-----------------------------------------------------------------------------
(* When the names differ.                                                   *)

\* Where the parts of a connection name are.
LEMMA Joined ==
    ASSUME NEW s \in Seq(Nat), NEW t \in Seq(Nat)
    PROVE  LET j == Join(s, t)
           IN  /\ Len(j) = Len(s) + 1 + Len(t)
               /\ \A i \in 1..Len(s) : j[i] = s[i]
               /\ j[Len(s) + 1] = Underscore
               /\ \A i \in 1..Len(t) : j[Len(s) + 1 + i] = t[i]
BY DEF Join, Underscore

\* Sequences are equal when their elements are.
LEMMA SameElements ==
    ASSUME NEW s \in Seq(Nat), NEW t \in Seq(Nat), Len(s) = Len(t),
           \A i \in 1..Len(s) : s[i] = t[i]
    PROVE  s = t
OBVIOUS

\* A name without underscores ...
Plain(s) == s \in Seq(Nat) /\ \A i \in 1..Len(s) : s[i] # Underscore

\* ... ends at the first one of the connection name.
LEMMA Split ==
    ASSUME NEW s, NEW t, NEW u, NEW v, Plain(s), Plain(t), Plain(u), Plain(v),
           Join(s, t) = Join(u, v)
    PROVE  s = u /\ t = v
<1>0. /\ s \in Seq(Nat) /\ t \in Seq(Nat) /\ u \in Seq(Nat) /\ v \in Seq(Nat)
      /\ \A i \in 1..Len(s) : s[i] # Underscore
      /\ \A i \in 1..Len(u) : u[i] # Underscore
  BY DEF Plain
<1> DEFINE j == Join(s, t)
<1>1. /\ Len(j) = Len(s) + 1 + Len(t)
      /\ \A i \in 1..Len(s) : j[i] = s[i]
      /\ j[Len(s) + 1] = Underscore
      /\ \A i \in 1..Len(t) : j[Len(s) + 1 + i] = t[i]
  BY <1>0, Joined
<1>2. /\ Len(j) = Len(u) + 1 + Len(v)
      /\ \A i \in 1..Len(u) : j[i] = u[i]
      /\ j[Len(u) + 1] = Underscore
      /\ \A i \in 1..Len(v) : j[Len(u) + 1 + i] = v[i]
  <2>1. j = Join(u, v)
    OBVIOUS
  <2> HIDE DEF j
  <2>2. QED
    BY <1>0, <2>1, Joined
<1> HIDE DEF j
<1>3. Len(s) \in Nat /\ Len(t) \in Nat /\ Len(u) \in Nat /\ Len(v) \in Nat
  BY <1>0
<1>4. ~(Len(s) < Len(u))
  <2>1. SUFFICES ASSUME Len(s) < Len(u) PROVE FALSE
    OBVIOUS
  <2>2. Len(s) + 1 \in 1..Len(u)
    BY <1>3, <2>1
  <2>3. QED
    BY <1>0, <1>1, <1>2, <2>2
<1>5. ~(Len(u) < Len(s))
  <2>1. SUFFICES ASSUME Len(u) < Len(s) PROVE FALSE
    OBVIOUS
  <2>2. Len(u) + 1 \in 1..Len(s)
    BY <1>3, <2>1
  <2>3. QED
    BY <1>0, <1>1, <1>2, <2>2
<1>6. Len(s) = Len(u) /\ Len(t) = Len(v)
  BY <1>1, <1>2, <1>3, <1>4, <1>5
<1>7. s = u
  <2>1. \A i \in 1..Len(s) : s[i] = u[i]
    BY <1>1, <1>2, <1>6
  <2>2. QED
    BY <1>0, <1>6, <2>1, SameElements
<1>8. t = v
  <2>1. \A i \in 1..Len(t) : t[i] = v[i]
    BY <1>1, <1>2, <1>6
  <2>2. QED
    BY <1>0, <1>6, <2>1, SameElements
<1>9. QED
  BY <1>7, <1>8

\* One program, whose name and whose partners' names have no underscore, does
\* not mix up its connections.
THEOREM OneProgramNamesDiffer ==
    ASSUME NEW me, Plain(me), \A c \in Component : c[1] = me /\ Plain(c[2])
    PROVE  NamesDiffer
<1> SUFFICES ASSUME NEW c \in Component, NEW d \in Component, NameOf(c) = NameOf(d)
             PROVE  c = d
  BY DEF NamesDiffer
<1> DEFINE x == c[2]
           y == d[2]
<1>1. c = <<me, x>> /\ d = <<me, y>>
  BY ConnectionAssumption
<1>2. Plain(x) /\ Plain(y)
  OBVIOUS
<1>3. /\ NameOf(c) = Join(me, x) \/ NameOf(c) = Join(x, me)
      /\ NameOf(d) = Join(me, y) \/ NameOf(d) = Join(y, me)
  BY DEF NameOf, CreateConnectionName
<1> HIDE DEF x, y
<1>4. Join(me, x) = Join(me, y) => x = y
  BY <1>2, Split
<1>5. Join(me, x) = Join(y, me) => x = y
  BY <1>2, Split
<1>6. Join(x, me) = Join(me, y) => x = y
  BY <1>2, Split
<1>7. Join(x, me) = Join(y, me) => x = y
  BY <1>2, Split
<1>8. QED
  BY <1>1, <1>3, <1>4, <1>5, <1>6, <1>7
===============================================================================
