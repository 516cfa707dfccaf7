---------------------- MODULE FileCommunicationProofs ----------------------
(***************************************************************************)
(* The theorems about the exchange of data through files: what an import   *)
(* returns, and that the exchange does not disturb the life cycle of the   *)
(* connection.                                                             *)
(***************************************************************************)
EXTENDS FileCommunicationInv, CommunicationProofs, FiniteSetTheorems,
        SequenceTheorems

\* The scripts of the partners are short sequences of exports and imports.
LEMMA ScriptType ==
    ASSUME FileTypeOK, NEW p \in Partner
    PROVE  /\ script[p] \in Seq(Operations) /\ Len(script[p]) \in Nat
           /\ Len(script[p]) <= MaxOps /\ MaxOps \in Nat
           /\ \A n \in 1..Len(script[p]) :
                 /\ script[p][n] \in Operations
                 /\ script[p][n].op \in {"export", "import"}
                 /\ script[p][n].id \in Id
                 /\ script[p][n] = [op |-> script[p][n].op, id |-> script[p][n].id]
<1>1. /\ script[p] \in Seq(Operations) /\ Len(script[p]) \in Nat
      /\ Len(script[p]) <= MaxOps /\ MaxOps \in Nat
  BY FileAssumption DEF FileTypeOK
<1>2. \A n \in 1..Len(script[p]) : script[p][n] \in Operations
  BY <1>1
<1>3. QED
  BY <1>1, <1>2 DEF Operations

\* The operation a partner has not finished yet.
LEMMA CurrentType ==
    ASSUME FileTypeOK, NEW p \in Partner, done[p] < Len(script[p])
    PROVE  /\ done[p] \in Nat /\ done[p] + 1 \in 1..Len(script[p])
           /\ Current(p).op \in {"export", "import"} /\ Current(p).id \in Id
           /\ Current(p) = [op |-> Current(p).op, id |-> Current(p).id]
           /\ done[p] + 1 \in Positions(p, Current(p).op, Current(p).id)
<1>1. done[p] \in Nat /\ Len(script[p]) \in Nat
  BY ScriptType DEF FileTypeOK
<1>2. done[p] + 1 \in 1..Len(script[p])
  BY <1>1
<1>3. QED
  BY <1>1, <1>2, ScriptType DEF Current, Positions

\* The files of an identifier.
LEMMA DataNames ==
    ASSUME NEW i \in Id, NEW k \in {"tmp", "data", "avail"}
    PROVE  /\ <<i, k>> \in DataFile /\ <<i, k>> \in File
           /\ <<i, k>> \notin ProtocolFile
BY FileAssumption, ConstantAssumption DEF File

\* What an export writes.
LEMMA MessageType ==
    ASSUME FileInv, NEW p \in Partner, done[p] < Len(script[p]), session[p] > 0
    PROVE  /\ MyMessage(p) \in Message /\ MyMessage(p) \in DataContent
           /\ MyMessage(p) # Absent
           /\ Partial \in DataContent /\ Partial # Absent
<1>1. done[p] + 1 \in 1..MaxOps
  BY CurrentType, ScriptType DEF FileInv
<1>2. session[p] \in 1..MaxSession
  BY ConstantAssumption DEF FileInv, ProgressInv, IInv, TypeOK
<1>3. run \in 1..MaxRun
  BY ConstantAssumption DEF FileInv, IInv, Shape, TypeOK
<1>4. MyMessage(p) \in Message
  BY <1>1, <1>2, <1>3 DEF MyMessage, Message
<1>5. QED
  BY <1>4, FileAssumption, ConstantAssumption

-----------------------------------------------------------------------------
(* Counting the operations of a script.                                     *)

\* A set of positions up to d + 1 has one element more than the one up to d, if
\* d + 1 is one of the positions.
LEMMA CountStep ==
    ASSUME NEW S \in SUBSET Nat, NEW d \in Nat
    PROVE  /\ IsFiniteSet({n \in S : n <= d})
           /\ Cardinality({n \in S : n <= d}) \in Nat
           /\ d + 1 \in S => Cardinality({n \in S : n <= d + 1}) =
                             Cardinality({n \in S : n <= d}) + 1
           /\ d + 1 \notin S => {n \in S : n <= d + 1} = {n \in S : n <= d}
           /\ {n \in S : n < d + 1} = {n \in S : n <= d}
<1> DEFINE T == {n \in S : n <= d}
<1>1. IsFiniteSet(T) /\ T \in SUBSET Nat
  <2>1. T \in SUBSET Nat /\ \A n \in T : n <= d
    OBVIOUS
  <2>2. QED
    BY <2>1, FS_BoundedSetOfNaturals
<1>2. Cardinality(T) \in Nat
  BY <1>1, FS_CardinalityType
<1>3. \A n \in S : n <= d + 1 <=> n <= d \/ n = d + 1
  OBVIOUS
<1>4. d + 1 \in S => {n \in S : n <= d + 1} = T \cup {d + 1}
  BY <1>3
<1>5. d + 1 \notin T
  OBVIOUS
<1>6. Cardinality(T \cup {d + 1}) = Cardinality(T) + 1
  BY <1>1, <1>5, FS_AddElement
<1>7. d + 1 \notin S => {n \in S : n <= d + 1} = T
  BY <1>3
<1>8. {n \in S : n < d + 1} = T
  <2>1. \A n \in S : n < d + 1 <=> n <= d
    OBVIOUS
  <2>2. QED
    BY <2>1
<1>9. QED
  BY <1>1, <1>2, <1>4, <1>6, <1>7, <1>8

\* The number of finished operations of a kind.
LEMMA FinishedType ==
    ASSUME FileTypeOK, NEW p \in Partner, NEW op, NEW i
    PROVE  /\ Finished(p, op, i) \in Nat
           /\ done[p] = 0 => Finished(p, op, i) = 0
           /\ done[p] < Len(script[p]) /\ Current(p) = [op |-> op, id |-> i] =>
                 Nth(p, done[p] + 1) = Finished(p, op, i)
<1>1. Positions(p, op, i) \in SUBSET Nat /\ done[p] \in Nat
  BY DEF Positions, FileTypeOK
<1>2. Finished(p, op, i) \in Nat
  BY <1>1, CountStep DEF Finished
<1>3. ASSUME done[p] = 0 PROVE Finished(p, op, i) = 0
  <2>1. {n \in Positions(p, op, i) : n <= done[p]} = {}
    BY <1>3, ScriptType DEF Positions
  <2>2. QED
    BY <2>1, FS_EmptySet DEF Finished
<1>4. ASSUME done[p] < Len(script[p]), Current(p) = [op |-> op, id |-> i]
      PROVE  Nth(p, done[p] + 1) = Finished(p, op, i)
  <2>1. script[p][done[p] + 1].op = op /\ script[p][done[p] + 1].id = i
    BY <1>4 DEF Current
  <2>2. Nth(p, done[p] + 1) = Cardinality({m \in Positions(p, op, i) : m < done[p] + 1})
    BY <2>1 DEF Nth
  <2>3. QED
    BY <1>1, <2>2, CountStep DEF Finished
<1>5. QED
  BY <1>2, <1>3, <1>4

\* Finishing an operation counts for its own kind only.
LEMMA FinishedNext ==
    ASSUME FileTypeOK, NEW p \in Partner, done[p] < Len(script[p]),
           done'[p] = done[p] + 1, \A a \in Partner : a # p => done'[a] = done[a],
           script' = script, NEW r \in Partner, NEW op, NEW i
    PROVE  /\ r = p /\ Current(p) = [op |-> op, id |-> i] =>
                 Finished(r, op, i)' = Finished(r, op, i) + 1
           /\ r # p \/ Current(p) # [op |-> op, id |-> i] =>
                 Finished(r, op, i)' = Finished(r, op, i)
<1>1. Positions(r, op, i)' = Positions(r, op, i)
  BY DEF Positions
<1>2. CASE r # p
  BY <1>1, <1>2 DEF Finished, FileTypeOK
<1>3. CASE r = p
  <2>1. done'[r] = done[r] + 1 /\ done[r] \in Nat /\ Positions(r, op, i) \in SUBSET Nat
    BY <1>3 DEF FileTypeOK, Positions
  <2>2. done[r] + 1 \in Positions(r, op, i) <=> Current(p) = [op |-> op, id |-> i]
    BY <1>3, CurrentType DEF Positions, Current
  <2>3. Finished(r, op, i)' = Cardinality({n \in Positions(r, op, i) : n <= done[r] + 1})
    BY <1>1, <2>1 DEF Finished
  <2>4. QED
    BY <1>3, <2>1, <2>2, <2>3, CountStep DEF Finished
<1>4. QED
  BY <1>2, <1>3

-----------------------------------------------------------------------------
(* The exchange of data and the life cycle.                                 *)

\* A connected partner has its partner in the same session, behind the
\* synchronisation of Connect() and before the end of the one of Disconnect().
LEMMA InSession ==
    ASSUME IInv, NEW p \in Partner, pc[p] = "connected"
    PROVE  /\ ~Dirty /\ Live /\ folder /\ tag[p] = "handshake" /\ session[p] > 0
           /\ session[Other(p)] = session[p]
           /\ tag["primary"] # "conn"
<1>1. "primary" \in Partner /\ "secondary" \in Partner /\ p \in {"primary", "secondary"}
  BY DEF Partner
<1>2. TypeOK /\ Shape
  BY DEF IInv
<1>3. ~Dirty
  BY <1>1, <1>2 DEF IInv, DirtyInv, Shape
<1>4. tag[p] = "handshake" /\ session[p] > 0 /\ Found(p)
  BY <1>2 DEF Shape, Found, In, TypeOK
<1>5. session[Other(p)] = session[p] /\ Wrote(Other(p)) /\ Wrote(p)
  BY <1>3, <1>4, SameSession DEF Wrote
<1>6. /\ session["primary"] = session["secondary"]
      /\ tag["primary"] = "handshake" \/ Disconnecting("primary")
  BY <1>1, <1>5, OtherPartner DEF Wrote
<1>7. pc["primary"] \notin {"idle", "remove_all", "create_dir"} /\ tag["primary"] # "conn"
  BY <1>1, <1>2, <1>6 DEF Shape, Disconnecting, In, FileStep, SyncTag
<1>8. folder
  BY <1>3, <1>7, ConstantAssumption DEF IInv, CleanInv, FolderInv
<1>9. QED
  BY <1>3, <1>4, <1>5, <1>6, <1>7, <1>8 DEF Live

Files(i) == {<<i, "tmp">>, <<i, "data">>, <<i, "avail">>}

\* What a step of an export or import may do when it does not fail: it touches
\* the files of its own identifier and the partner's own position.
Moves(p) ==
    /\ At(p, "connected") /\ done[p] < Len(script[p])
    /\ UNCHANGED <<memory, pc, tag, folder, listing, program, status>>
    /\ \/ done' = done
       \/ done' = [done EXCEPT ![p] = @ + 1] /\ io'[p] = "ready"
    /\ io' \in [Partner -> IoStep] /\ \A r \in Partner : r # p => io'[r] = io[r]
    /\ dir' \in [File -> Info \cup DataContent \cup {Absent}]
    /\ \A f \in File : f \notin Files(Current(p).id) => dir'[f] = dir[f]

\* The exchange of data leaves the life cycle of the connection alone.
LEMMA MovesLifeCycle ==
    ASSUME FileInv, NEW p \in Partner, Moves(p)
    PROVE  IInv' /\ Live' /\ Live
<1>1. /\ IInv /\ FileTypeOK /\ pc[p] = "connected"
      /\ UNCHANGED <<memory, pc, tag, folder, listing, status>>
  BY DEF Moves, FileInv, At
<1>2. /\ ~Dirty /\ Live /\ tag["primary"] # "conn"
      /\ pc["primary"] \notin {"idle", "remove_all", "create_dir"}
  BY <1>1, InSession DEF Live
<1>3. \A f \in ProtocolFile : dir'[f] = dir[f]
  <2>1. Current(p).id \in Id
    BY <1>1, CurrentType DEF Moves
  <2>2. \A f \in Files(Current(p).id) : f \notin ProtocolFile
    BY <2>1, DataNames DEF Files
  <2>3. QED
    BY <2>2 DEF Moves, File
<1>4. DataInv' /\ Live'
  BY <1>1, <1>2 DEF DataInv, Live, memory
<1>5. TypeOK'
  <2>1. \A f \in ProtocolFile : dir'[f] \in Info \cup {Absent}
    BY <1>1, <1>3 DEF IInv, TypeOK
  <2>2. QED
    BY <1>1, <2>1 DEF IInv, TypeOK, memory, Moves
<1>6. ~Dirty' /\ Shape' /\ CleanInv'
  BY <1>1, <1>2, <1>3, <1>4, StatusFrame
<1>7. QED
  BY <1>2, <1>4, <1>5, <1>6 DEF IInv

\* What the files of identifier i have to do with the scripts is still true after
\* a step that changes neither these files nor the operations under i.
LEMMA BoxFrame ==
    ASSUME NEW p \in Partner, NEW i \in Id, BoxInv(p, i),
           UNCHANGED <<run, session, program>>,
           \A k \in {"tmp", "data", "avail"} : dir'[<<i, k>>] = dir[<<i, k>>],
           \A r \in Partner, op \in {"export", "import"} :
              /\ Finished(r, op, i)' = Finished(r, op, i)
              /\ \A steps \in SUBSET (IoStep \ {"ready"}) :
                    /\ Busy(r, op, i, steps)' <=> Busy(r, op, i, steps)
                    /\ Busy(r, op, i, steps) => done'[r] = done[r]
    PROVE  BoxInv(p, i)'
<1> DEFINE q == Other(p)
<1>1. q \in Partner
  BY OtherPartner
<1>2. /\ Finished(p, "export", i)' = Finished(p, "export", i)
      /\ Finished(q, "import", i)' = Finished(q, "import", i)
      /\ Full(p, i)' <=> Full(p, i)
  BY <1>1 DEF Full
<1>3. /\ Busy(p, "export", i, {"write", "show"})' <=> Busy(p, "export", i, {"write", "show"})
      /\ Busy(p, "export", i, {"show"})' <=> Busy(p, "export", i, {"show"})
      /\ Busy(p, "export", i, {"open", "write", "show"})' <=>
            Busy(p, "export", i, {"open", "write", "show"})
      /\ Busy(q, "import", i, {"read", "remove"})' <=>
            Busy(q, "import", i, {"read", "remove"})
      /\ Busy(q, "import", i, {"rm_avail", "read", "remove"})' <=>
            Busy(q, "import", i, {"rm_avail", "read", "remove"})
      /\ Busy(p, "export", i, {"show"}) => done'[p] = done[p]
  BY <1>1 DEF IoStep
<1>4. /\ useAux' = useAux
      /\ \A k \in {"tmp", "data", "avail"} : Exists(<<i, k>>)' <=> Exists(<<i, k>>)
      /\ \A m, k : IsExport(m, p, i, k)' <=> IsExport(m, p, i, k)
      /\ Busy(p, "export", i, {"show"}) => MyMessage(p)' = MyMessage(p)
  BY <1>3 DEF Exists, IsExport, Positions, Nth, MyMessage, program
<1>5. QED
  BY <1>2, <1>3, <1>4 DEF BoxInv

\* A step of an export or import leaves the other identifiers alone.
LEMMA OtherTerms ==
    ASSUME FileInv, NEW p \in Partner, Moves(p), NEW i \in Id, i # Current(p).id
    PROVE  /\ \A k \in {"tmp", "data", "avail"} : dir'[<<i, k>>] = dir[<<i, k>>]
           /\ \A r \in Partner, op \in {"export", "import"} :
                 /\ Finished(r, op, i)' = Finished(r, op, i)
                 /\ \A steps \in SUBSET (IoStep \ {"ready"}) :
                       /\ Busy(r, op, i, steps)' <=> Busy(r, op, i, steps)
                       /\ Busy(r, op, i, steps) => done'[r] = done[r]
<1>1. /\ FileTypeOK /\ done[p] < Len(script[p]) /\ UNCHANGED <<run, session, program>>
      /\ script' = script
  BY DEF FileInv, Moves, memory, program
<1>2. \A k \in {"tmp", "data", "avail"} : dir'[<<i, k>>] = dir[<<i, k>>]
  <2>1. \A k : <<i, k>> \notin Files(Current(p).id)
    BY DEF Files
  <2>2. QED
    BY <2>1, DataNames DEF Moves
<1>3. ASSUME NEW a \in Partner, NEW op \in {"export", "import"}
      PROVE  /\ Finished(a, op, i)' = Finished(a, op, i)
             /\ \A steps \in SUBSET (IoStep \ {"ready"}) :
                   /\ Busy(a, op, i, steps)' <=> Busy(a, op, i, steps)
                   /\ Busy(a, op, i, steps) => done'[a] = done[a]
  <2>1. Current(p) # [op |-> op, id |-> i]
    OBVIOUS
  <2>2. Finished(a, op, i)' = Finished(a, op, i)
    <3>1. CASE done' = done
      BY <1>1, <3>1 DEF Finished, Positions
    <3>2. CASE done' = [done EXCEPT ![p] = @ + 1]
      <4>1. done'[p] = done[p] + 1 /\ \A b \in Partner : b # p => done'[b] = done[b]
        BY <1>1, <3>2 DEF FileTypeOK
      <4>2. QED
        BY <1>1, <2>1, <4>1, FinishedNext
    <3>3. done' = done \/ done' = [done EXCEPT ![p] = @ + 1]
      BY DEF Moves
    <3>4. QED
      BY <3>1, <3>2, <3>3
  <2>3. CASE a = p
    <3>1. \A steps : ~Busy(a, op, i, steps)
      BY <2>1, <2>3 DEF Busy
    <3>2. CASE done' = done
      BY <1>1, <2>1, <2>2, <2>3, <3>1, <3>2 DEF Busy, Current
    <3>3. CASE io'[p] = "ready"
      BY <2>2, <2>3, <3>1, <3>3 DEF Busy
    <3>4. done' = done \/ io'[p] = "ready"
      BY DEF Moves
    <3>5. QED
      BY <3>2, <3>3, <3>4
  <2>4. CASE a # p
    <3>1. io'[a] = io[a]
      BY <2>4 DEF Moves
    <3>2. done'[a] = done[a]
      BY <1>1, <2>4 DEF Moves, FileTypeOK
    <3>3. Current(a)' = Current(a)
      BY <1>1, <3>2 DEF Current
    <3>4. QED
      BY <2>2, <3>1, <3>2, <3>3 DEF Busy
  <2>5. QED
    BY <2>3, <2>4
<1>4. QED
  BY <1>2, <1>3

\* So what the invariant says of the other identifiers is still true.
LEMMA MovesOthers ==
    ASSUME FileInv, NEW p \in Partner, Moves(p),
           NEW r \in Partner, NEW i \in Id, i # Current(p).id, BoxInv(r, i)
    PROVE  BoxInv(r, i)'
<1>1. UNCHANGED <<run, session, program>>
  BY DEF Moves, memory
<1>2. QED
  BY <1>1, OtherTerms, BoxFrame

\* Who exports an identifier when it is used in one direction.
LEMMA Owner ==
    ASSUME FileTypeOK, OneWay, NEW p \in Partner, done[p] < Len(script[p])
    PROVE  LET i == Current(p).id
           IN  IF Current(p).op = "export"
               THEN Owns(script, p, i) /\ ~Owns(script, Other(p), i)
               ELSE Owns(script, Other(p), i) /\ ~Owns(script, p, i)
<1> DEFINE i == Current(p).id
<1>1. i \in Id /\ script \in Scripts /\ Uses(script, p, Current(p).op, i)
      /\ Current(p).op \in {"export", "import"}
  BY CurrentType DEF FileTypeOK, Uses, Current
<1>2. PICK r \in Partner : Owns(script, r, i)
  BY <1>1 DEF OneWay
<1>3. r = p \/ r = Other(p)
  BY DEF Partner, Other
<1>4. Other(Other(p)) = p
  BY OtherPartner
<1>5. QED
  BY <1>1, <1>2, <1>3, <1>4 DEF Owns

\* What a step of p's operation changes in the terms of the invariant.
LEMMA MovesTerms ==
    ASSUME FileInv, NEW p \in Partner, Moves(p), NEW i
    PROVE  LET q == Other(p)
           IN  /\ \A op \in {"export", "import"} :
                     Finished(q, op, i)' = Finished(q, op, i)
               /\ \A op, steps : Busy(q, op, i, steps)' <=> Busy(q, op, i, steps)
               /\ MyMessage(q)' = MyMessage(q) /\ useAux' = useAux
               /\ done' = done =>
                     /\ \A op \in {"export", "import"} :
                           Finished(p, op, i)' = Finished(p, op, i)
                     /\ Current(p)' = Current(p) /\ MyMessage(p)' = MyMessage(p)
               /\ done' # done =>
                     /\ \A op \in {"export", "import"} :
                           Current(p) = [op |-> op, id |-> i] =>
                              Finished(p, op, i)' = Finished(p, op, i) + 1
                     /\ done'[p] = done[p] + 1 /\ io'[p] = "ready"
               /\ \A m, r, k : IsExport(m, r, i, k)' <=> IsExport(m, r, i, k)
<1> DEFINE q == Other(p)
<1>1. /\ FileTypeOK /\ done[p] < Len(script[p]) /\ q \in Partner /\ q # p
      /\ UNCHANGED <<run, session, script, useAux>>
  BY OtherPartner DEF FileInv, Moves, memory, program
<1>2. done'[q] = done[q] /\ io'[q] = io[q]
  <2>1. io'[q] = io[q]
    BY <1>1 DEF Moves
  <2>2. done'[q] = done[q]
    BY <1>1 DEF Moves, FileTypeOK
  <2>3. QED
    BY <2>1, <2>2
<1>3. \A op \in {"export", "import"} : Finished(q, op, i)' = Finished(q, op, i)
  BY <1>1, <1>2 DEF Finished, Positions
<1>4. /\ \A op, steps : Busy(q, op, i, steps)' <=> Busy(q, op, i, steps)
      /\ MyMessage(q)' = MyMessage(q)
  BY <1>1, <1>2 DEF Busy, Current, MyMessage
<1>5. ASSUME done' = done
      PROVE  /\ \A op \in {"export", "import"} :
                   Finished(p, op, i)' = Finished(p, op, i)
             /\ Current(p)' = Current(p) /\ MyMessage(p)' = MyMessage(p)
  BY <1>1, <1>5 DEF Finished, Positions, Current, MyMessage
<1>6. ASSUME done' # done
      PROVE  /\ \A op \in {"export", "import"} :
                   Current(p) = [op |-> op, id |-> i] =>
                      Finished(p, op, i)' = Finished(p, op, i) + 1
             /\ done'[p] = done[p] + 1 /\ io'[p] = "ready"
  <2>1. done' = [done EXCEPT ![p] = @ + 1] /\ io'[p] = "ready"
    BY <1>6 DEF Moves
  <2>2. done'[p] = done[p] + 1 /\ \A b \in Partner : b # p => done'[b] = done[b]
    BY <1>1, <2>1 DEF FileTypeOK
  <2>3. ASSUME NEW op \in {"export", "import"}, Current(p) = [op |-> op, id |-> i]
        PROVE  Finished(p, op, i)' = Finished(p, op, i) + 1
    BY <1>1, <2>2, <2>3, FinishedNext
  <2>4. QED
    BY <2>1, <2>2, <2>3
<1>7. \A m, r, k : IsExport(m, r, i, k)' <=> IsExport(m, r, i, k)
  BY <1>1 DEF IsExport, Positions, Nth
<1>8. QED
  BY <1>1, <1>3, <1>4, <1>5, <1>6, <1>7

\* What a step of p's operation, under identifier i, has to keep, and what it may
\* add to the results.
StepOK(p, i) ==
    /\ Moves(p)
    /\ \A r \in Partner : Owns(script, r, i) => BoxInv(r, i)'
    /\ ProgressInv(p)' /\ IoInv(p)'
    /\ \/ received' = received
       \/ \E c \in DataContent \cup {Absent} :
             /\ received' = [received EXCEPT ![p] = Append(@, c)]
             /\ Len(received[p]) = done[p]
             /\ Current(p).op = "import" =>
                   IsExport(c, Other(p), i, Nth(p, done[p] + 1))

\* The files of p's own identifier while p exports under it.
LEMMA ExportFacts ==
    ASSUME FileInv, OneWay, NEW p \in Partner, At(p, "connected"),
           done[p] < Len(script[p]), Current(p).op = "export", NEW i, i = Current(p).id
    PROVE  /\ i \in Id /\ Current(p) = [op |-> "export", id |-> i]
           /\ FileTypeOK /\ TypeOK /\ useAux \in BOOLEAN
           /\ BoxInv(p, i) /\ folder /\ session[p] > 0
           /\ \A r \in Partner : Owns(script, r, i) => r = p
           /\ \A k \in {"tmp", "data", "avail"} : <<i, k>> \in File
           /\ \A steps : Busy(p, "export", i, steps) <=> io[p] \in steps
<1>1. /\ IInv /\ FileTypeOK /\ pc[p] = "connected" /\ BoxesInv /\ TypeOK
      /\ useAux \in BOOLEAN
  BY FileAssumption DEF FileInv, IInv, FileTypeOK, At
<1>2. i \in Id /\ Current(p) = [op |-> "export", id |-> i]
  BY <1>1, CurrentType
<1>3. Live /\ folder /\ session[p] > 0
  BY <1>1, InSession
<1>4. Owns(script, p, i) /\ ~Owns(script, Other(p), i)
  BY <1>1, Owner
<1>5. \A r \in Partner : r = p \/ r = Other(p)
  BY DEF Partner, Other
<1>6. BoxInv(p, i)
  BY <1>1, <1>2, <1>3, <1>4 DEF BoxesInv
<1>7. QED
  BY <1>1, <1>2, <1>3, <1>4, <1>5, <1>6, DataNames DEF Busy

\* What a move of p does to the progress of p: it goes on with its operation.
LEMMA StayProgress ==
    ASSUME FileInv, NEW p \in Partner, Moves(p), done' = done, received' = received,
           io[p] # "remove", io'[p] # "remove",
           Current(p).op = "export" => io'[p] \in {"ready", "open", "write", "show"},
           Current(p).op = "import" => io'[p] \in {"ready", "rm_avail", "read"},
           io'[p] = "rm_avail" => useAux
    PROVE  ProgressInv(p)' /\ IoInv(p)'
<1>1. /\ ProgressInv(p) /\ IoInv(p) /\ FileTypeOK /\ pc' = pc /\ tag' = tag
      /\ UNCHANGED <<session, script, useAux>> /\ At(p, "connected")
      /\ done[p] < Len(script[p])
  BY DEF FileInv, Moves, memory, program
<1>2. Current(p)' = Current(p) /\ Current(p).op \in {"export", "import"}
  BY <1>1, CurrentType DEF Current
<1>3. ProgressInv(p)'
  BY <1>1 DEF ProgressInv
<1>4. IoInv(p)'
  BY <1>1, <1>2 DEF IoInv, At
<1>5. QED
  BY <1>3, <1>4

\* p finishes its operation.
LEMMA FinishProgress ==
    ASSUME FileInv, NEW p \in Partner, Moves(p), done' = [done EXCEPT ![p] = @ + 1],
           io'[p] = "ready",
           Len(received'[p]) = done[p] + 1
    PROVE  ProgressInv(p)' /\ IoInv(p)'
<1>1. /\ ProgressInv(p) /\ FileTypeOK /\ pc' = pc /\ tag' = tag
      /\ UNCHANGED <<session, script, useAux>> /\ At(p, "connected")
      /\ done[p] < Len(script[p]) /\ IInv
  BY DEF FileInv, Moves, memory, program
<1>2. /\ done'[p] = done[p] + 1 /\ done[p] \in Nat /\ Len(script[p]) \in Nat
      /\ tag[p] = "handshake" /\ pc[p] = "connected"
  BY <1>1, ScriptType, InSession DEF FileTypeOK, At
<1>3. QED
  BY <1>1, <1>2 DEF ProgressInv, IoInv

\* WaitUntilFileIsRemoved() before an export.
LEMMA SendGoneStep ==
    ASSUME FileInv, OneWay, NEW p \in Partner, SendGone(p), NEW i, i = Current(p).id,
           UNCHANGED <<memory, pc, tag, folder, listing, program>>
    PROVE  StepOK(p, i)
<1>1. /\ At(p, "connected") /\ io[p] = "ready" /\ done[p] < Len(script[p])
      /\ Current(p).op = "export" /\ ~Exists(<<i, "data">>)
      /\ io' = [io EXCEPT ![p] = "open"] /\ UNCHANGED <<done, received, status, dir>>
  BY DEF SendGone, Doing, DataPath, Stay
<1>2. /\ i \in Id /\ Current(p) = [op |-> "export", id |-> i]
      /\ BoxInv(p, i) /\ \A r \in Partner : Owns(script, r, i) => r = p
      /\ \A steps : Busy(p, "export", i, steps) <=> io[p] \in steps
      /\ FileTypeOK /\ TypeOK
  BY <1>1, ExportFacts
<1>3. io'[p] = "open" /\ Moves(p)
  BY <1>1, <1>2 DEF Moves, FileTypeOK, TypeOK, IoStep
<1>4. ProgressInv(p)' /\ IoInv(p)'
  BY <1>1, <1>3, StayProgress
<1>5. \A steps : Busy(p, "export", i, steps)' <=> "open" \in steps
  BY <1>1, <1>2, <1>3, MovesTerms DEF Busy
<1>6. BoxInv(p, i)'
  <2>1. ~Full(p, i) /\ (Full(p, i)' <=> Full(p, i))
    BY <1>1, <1>2, <1>3, MovesTerms DEF BoxInv, Full
  <2>2. QED
    BY <1>1, <1>2, <1>3, <1>5, <2>1, MovesTerms DEF BoxInv, Exists
<1>7. QED
  BY <1>1, <1>2, <1>3, <1>4, <1>6 DEF StepOK

\* Opening the file of an export: the folder is there.
LEMMA SendOpenStep ==
    ASSUME FileInv, OneWay, NEW p \in Partner, SendOpen(p), NEW i, i = Current(p).id,
           UNCHANGED <<memory, pc, tag, folder, listing, program>>
    PROVE  StepOK(p, i)
<1>1. /\ At(p, "connected") /\ io[p] = "open" /\ done[p] < Len(script[p])
      /\ Current(p).op = "export"
  BY DEF SendOpen, Doing
<1>2. /\ i \in Id /\ Current(p) = [op |-> "export", id |-> i] /\ folder
      /\ BoxInv(p, i) /\ \A r \in Partner : Owns(script, r, i) => r = p
      /\ \A steps : Busy(p, "export", i, steps) <=> io[p] \in steps
      /\ FileTypeOK /\ TypeOK /\ useAux \in BOOLEAN /\ session[p] > 0
      /\ \A k \in {"tmp", "data", "avail"} : <<i, k>> \in File
  BY <1>1, ExportFacts
<1>3. PICK t \in {"tmp", "data"} : t = IF useAux THEN "data" ELSE "tmp"
  OBVIOUS
<1>4. PICK c : c = Partial
  OBVIOUS
<1>5. c \in DataContent /\ c # Absent
  BY <1>1, <1>2, <1>4, MessageType
<1>6. /\ io' = [io EXCEPT ![p] = "write"] /\ UNCHANGED <<done, received, status>>
      /\ dir' = [dir EXCEPT ![<<i, t>>] = c] /\ <<i, t>> \in Files(i)
  BY <1>2, <1>3, <1>4 DEF SendOpen, TmpPath, Stay, Write, Files
<1>7. io'[p] = "write" /\ Moves(p)
  BY <1>1, <1>2, <1>5, <1>6 DEF Moves, FileTypeOK, TypeOK, IoStep
<1>8. ProgressInv(p)' /\ IoInv(p)'
  BY <1>1, <1>6, <1>7, StayProgress
<1>9. \A steps : Busy(p, "export", i, steps)' <=> "write" \in steps
  BY <1>1, <1>2, <1>6, <1>7, MovesTerms DEF Busy
<1>10. BoxInv(p, i)'
  <2>1. ~Full(p, i) /\ (Full(p, i)' <=> Full(p, i))
    BY <1>1, <1>2, <1>6, <1>7, MovesTerms DEF BoxInv, Full
  <2>2. /\ Exists(<<i, t>>)' /\ dir'[<<i, t>>] = c
        /\ \A k \in {"tmp", "data", "avail"} :
              k # t => (Exists(<<i, k>>)' <=> Exists(<<i, k>>))
    BY <1>2, <1>5, <1>6 DEF Exists, TypeOK
  <2>3. /\ \A steps : Busy(Other(p), "import", i, steps)' <=>
                       Busy(Other(p), "import", i, steps)
        /\ useAux' = useAux /\ MyMessage(p)' = MyMessage(p)
        /\ Finished(p, "export", i)' = Finished(p, "export", i)
        /\ Finished(Other(p), "import", i)' = Finished(Other(p), "import", i)
    BY <1>6, <1>7, MovesTerms
  <2>4. CASE useAux
    <3>1. t = "data" /\ useAux'
      BY <1>3, <2>3, <2>4
    <3>2. QED
      BY <1>1, <1>2, <1>4, <1>9, <2>1, <2>2, <2>3, <2>4, <3>1 DEF BoxInv
  <2>5. CASE ~useAux
    <3>1. t = "tmp" /\ ~useAux'
      BY <1>3, <2>3, <2>5
    <3>2. QED
      BY <1>1, <1>2, <1>4, <1>9, <2>1, <2>2, <2>3, <2>5, <3>1 DEF BoxInv
  <2>6. QED
    BY <2>4, <2>5
<1>11. QED
  BY <1>2, <1>6, <1>7, <1>8, <1>10 DEF StepOK

\* Writing the file of an export.
LEMMA SendWriteStep ==
    ASSUME FileInv, OneWay, NEW p \in Partner, SendWrite(p), NEW i, i = Current(p).id,
           UNCHANGED <<memory, pc, tag, folder, listing, program>>
    PROVE  StepOK(p, i)
<1>1. /\ At(p, "connected") /\ io[p] = "write" /\ done[p] < Len(script[p])
      /\ Current(p).op = "export"
  BY DEF SendWrite, Doing
<1>2. /\ i \in Id /\ Current(p) = [op |-> "export", id |-> i] /\ folder
      /\ BoxInv(p, i) /\ \A r \in Partner : Owns(script, r, i) => r = p
      /\ \A steps : Busy(p, "export", i, steps) <=> io[p] \in steps
      /\ FileTypeOK /\ TypeOK /\ useAux \in BOOLEAN /\ session[p] > 0
      /\ \A k \in {"tmp", "data", "avail"} : <<i, k>> \in File
  BY <1>1, ExportFacts
<1>3. PICK t \in {"tmp", "data"} : t = IF useAux THEN "data" ELSE "tmp"
  OBVIOUS
<1>4. PICK c : c = MyMessage(p)
  OBVIOUS
<1>5. c \in DataContent /\ c # Absent
  BY <1>1, <1>2, <1>4, MessageType
<1>6. /\ io' = [io EXCEPT ![p] = "show"] /\ UNCHANGED <<done, received, status>>
      /\ dir' = [dir EXCEPT ![<<i, t>>] = c] /\ <<i, t>> \in Files(i)
  BY <1>2, <1>3, <1>4 DEF SendWrite, TmpPath, Stay, Write, Files
<1>7. io'[p] = "show" /\ Moves(p)
  BY <1>1, <1>2, <1>5, <1>6 DEF Moves, FileTypeOK, TypeOK, IoStep
<1>8. ProgressInv(p)' /\ IoInv(p)'
  BY <1>1, <1>6, <1>7, StayProgress
<1>9. \A steps : Busy(p, "export", i, steps)' <=> "show" \in steps
  BY <1>1, <1>2, <1>6, <1>7, MovesTerms DEF Busy
<1>10. BoxInv(p, i)'
  <2>1. ~Full(p, i) /\ (Full(p, i)' <=> Full(p, i))
    BY <1>1, <1>2, <1>6, <1>7, MovesTerms DEF BoxInv, Full
  <2>2. /\ Exists(<<i, t>>)' /\ dir'[<<i, t>>] = c
        /\ \A k \in {"tmp", "data", "avail"} :
              k # t => (Exists(<<i, k>>)' <=> Exists(<<i, k>>))
    BY <1>2, <1>5, <1>6 DEF Exists, TypeOK
  <2>3. /\ \A steps : Busy(Other(p), "import", i, steps)' <=>
                       Busy(Other(p), "import", i, steps)
        /\ useAux' = useAux /\ MyMessage(p)' = MyMessage(p)
        /\ Finished(p, "export", i)' = Finished(p, "export", i)
        /\ Finished(Other(p), "import", i)' = Finished(Other(p), "import", i)
    BY <1>6, <1>7, MovesTerms
  <2>4. CASE useAux
    <3>1. t = "data" /\ useAux'
      BY <1>3, <2>3, <2>4
    <3>2. QED
      BY <1>1, <1>2, <1>4, <1>9, <2>1, <2>2, <2>3, <2>4, <3>1 DEF BoxInv
  <2>5. CASE ~useAux
    <3>1. t = "tmp" /\ ~useAux'
      BY <1>3, <2>3, <2>5
    <3>2. QED
      BY <1>1, <1>2, <1>4, <1>9, <2>1, <2>2, <2>3, <2>5, <3>1 DEF BoxInv
  <2>6. QED
    BY <2>4, <2>5
<1>11. QED
  BY <1>2, <1>6, <1>7, <1>8, <1>10 DEF StepOK

\* MakeFileVisible(): the message is in the box.
LEMMA SendShowStep ==
    ASSUME FileInv, OneWay, NEW p \in Partner, SendShow(p), NEW i, i = Current(p).id,
           UNCHANGED <<memory, pc, tag, folder, listing, program>>
    PROVE  StepOK(p, i)
<1>1. /\ At(p, "connected") /\ io[p] = "show" /\ done[p] < Len(script[p])
      /\ Current(p).op = "export"
  BY DEF SendShow, Doing
<1>2. /\ i \in Id /\ Current(p) = [op |-> "export", id |-> i] /\ folder
      /\ BoxInv(p, i) /\ \A r \in Partner : Owns(script, r, i) => r = p
      /\ \A steps : Busy(p, "export", i, steps) <=> io[p] \in steps
      /\ FileTypeOK /\ TypeOK /\ useAux \in BOOLEAN /\ session[p] > 0
      /\ \A k \in {"tmp", "data", "avail"} : <<i, k>> \in File
  BY <1>1, ExportFacts
<1>3. PICK c : c = MyMessage(p)
  OBVIOUS
<1>4. c \in DataContent /\ c # Absent
  BY <1>1, <1>2, <1>3, MessageType
<1>5. /\ Exists(TmpPath(p)) /\ dir[TmpPath(p)] = c /\ ~Full(p, i)
      /\ useAux => TmpPath(p) = <<i, "data">>
      /\ ~useAux => TmpPath(p) = <<i, "tmp">>
  <2>1. CASE useAux
    BY <1>1, <1>2, <1>3, <2>1 DEF BoxInv, TmpPath
  <2>2. CASE ~useAux
    BY <1>1, <1>2, <1>3, <2>2 DEF BoxInv, TmpPath
  <2>3. QED
    BY <2>1, <2>2
<1>6. /\ io' = [io EXCEPT ![p] = "ready"] /\ done' = [done EXCEPT ![p] = @ + 1]
      /\ received' = [received EXCEPT ![p] = Append(@, Absent)] /\ status' = status
  BY <1>5 DEF SendShow, Finish
<1>7. /\ useAux => dir' = [dir EXCEPT ![<<i, "avail">>] = c]
      /\ ~useAux => dir' = [dir EXCEPT ![<<i, "data">>] = c, ![<<i, "tmp">>] = Absent]
  <2>1. CASE useAux
    BY <1>2, <1>3, <2>1 DEF SendShow, Write, AvailPath
  <2>2. CASE ~useAux
    BY <1>2, <1>5, <2>2 DEF SendShow, DataPath
  <2>3. QED
    BY <2>1, <2>2
<1>8. /\ dir' \in [File -> Info \cup DataContent \cup {Absent}]
      /\ \A f \in File : f \notin Files(i) => dir'[f] = dir[f]
      /\ Exists(<<i, "data">>)' /\ dir'[<<i, "data">>] = c
      /\ ~Exists(<<i, "tmp">>)' /\ (Exists(<<i, "avail">>)' <=> useAux)
  <2>1. CASE useAux
    <3>1. /\ Exists(<<i, "data">>) /\ dir[<<i, "data">>] = c /\ ~Exists(<<i, "tmp">>)
      BY <1>2, <1>5, <2>1 DEF BoxInv
    <3>2. QED
      BY <1>2, <1>4, <1>7, <2>1, <3>1 DEF TypeOK, Files, Exists
  <2>2. CASE ~useAux
    <3>1. ~Exists(<<i, "avail">>)
      BY <1>2, <2>2 DEF BoxInv
    <3>2. QED
      BY <1>2, <1>4, <1>7, <2>2, <3>1 DEF TypeOK, Files, Exists
  <2>3. QED
    BY <2>1, <2>2
<1>9. io'[p] = "ready" /\ Moves(p)
  BY <1>1, <1>2, <1>6, <1>8 DEF Moves, FileTypeOK, IoStep
<1>10. /\ Len(received[p]) = done[p] /\ Len(received'[p]) = done[p] + 1
  <2>1. received[p] \in Seq(DataContent \cup {Absent}) /\ Len(received[p]) = done[p]
    BY <1>1, <1>2 DEF FileInv, ProgressInv, FileTypeOK
  <2>2. received'[p] = Append(received[p], Absent)
    BY <1>2, <1>6 DEF FileTypeOK
  <2>3. QED
    BY <2>1, <2>2, AppendProperties
<1>11. ProgressInv(p)' /\ IoInv(p)'
  BY <1>6, <1>9, <1>10, FinishProgress
<1>12. BoxInv(p, i)'
  <2>1. done' # done
    <3>1. done'[p] = done[p] + 1 /\ done[p] \in Nat
      BY <1>2, <1>6 DEF FileTypeOK
    <3>2. QED
      BY <3>1
  <2>2. /\ \A steps : Busy(Other(p), "import", i, steps)' <=>
                       Busy(Other(p), "import", i, steps)
        /\ useAux' = useAux
        /\ Finished(p, "export", i)' = Finished(p, "export", i) + 1
        /\ Finished(Other(p), "import", i)' = Finished(Other(p), "import", i)
        /\ \A k : IsExport(c, p, i, k)' <=> IsExport(c, p, i, k)
    BY <1>2, <1>9, <2>1, MovesTerms
  <2>3. Finished(p, "export", i) = Finished(Other(p), "import", i)
    BY <1>2, <1>5 DEF BoxInv
  <2>4. Full(p, i)'
    BY <2>2, <2>3 DEF Full
  <2>5. IsExport(c, p, i, Finished(p, "export", i))
    <3>1. /\ done[p] + 1 \in Positions(p, "export", i)
          /\ Nth(p, done[p] + 1) = Finished(p, "export", i)
      BY <1>1, <1>2, CurrentType, FinishedType
    <3>2. QED
      BY <1>3, <1>4, <3>1 DEF IsExport, MyMessage
  <2>6. \A steps : "ready" \notin steps => ~Busy(p, "export", i, steps)'
    BY <1>9 DEF Busy
  <2>7. ~Busy(Other(p), "import", i, {"rm_avail", "read", "remove"})
    BY <1>2, <1>5 DEF BoxInv
  <2>8. ~Busy(Other(p), "import", i, {"read", "remove"})
    BY <2>7 DEF Busy
  <2>9. QED
    BY <1>2, <1>8, <2>2, <2>3, <2>4, <2>5, <2>6, <2>8 DEF BoxInv
<1>13. QED
  BY <1>1, <1>2, <1>6, <1>9, <1>10, <1>11, <1>12 DEF StepOK

\* The files of the other partner's identifier while p imports under it.
LEMMA ImportFacts ==
    ASSUME FileInv, OneWay, NEW p \in Partner, At(p, "connected"),
           done[p] < Len(script[p]), Current(p).op = "import", NEW i, i = Current(p).id
    PROVE  /\ i \in Id /\ Current(p) = [op |-> "import", id |-> i]
           /\ FileTypeOK /\ TypeOK /\ useAux \in BOOLEAN
           /\ Other(p) \in Partner /\ Other(Other(p)) = p
           /\ BoxInv(Other(p), i)
           /\ \A r \in Partner : Owns(script, r, i) => r = Other(p)
           /\ \A k \in {"tmp", "data", "avail"} : <<i, k>> \in File
           /\ \A steps : Busy(p, "import", i, steps) <=> io[p] \in steps
           /\ session[Other(p)] = session[p]
<1>1. /\ IInv /\ FileTypeOK /\ pc[p] = "connected" /\ BoxesInv /\ TypeOK
      /\ useAux \in BOOLEAN /\ Other(p) \in Partner /\ Other(Other(p)) = p
  BY FileAssumption, OtherPartner DEF FileInv, IInv, FileTypeOK, At
<1>2. i \in Id /\ Current(p) = [op |-> "import", id |-> i]
  BY <1>1, CurrentType
<1>3. Live /\ session[Other(p)] = session[p]
  BY <1>1, InSession
<1>4. Owns(script, Other(p), i) /\ ~Owns(script, p, i)
  BY <1>1, Owner
<1>5. \A r \in Partner : r = p \/ r = Other(p)
  BY DEF Partner, Other
<1>6. BoxInv(Other(p), i)
  BY <1>1, <1>2, <1>3, <1>4 DEF BoxesInv
<1>7. QED
  BY <1>1, <1>2, <1>3, <1>4, <1>5, <1>6, DataNames DEF Busy

\* What stays as it is for the exporter while p goes on with an import.
LEMMA ImportTerms ==
    ASSUME FileInv, NEW p \in Partner, Moves(p), NEW i, done' = done,
           Current(p) = [op |-> "import", id |-> i]
    PROVE  LET q == Other(p)
           IN  /\ \A steps : Busy(q, "export", i, steps)' <=> Busy(q, "export", i, steps)
               /\ \A steps : Busy(p, "import", i, steps)' <=> io'[p] \in steps
               /\ useAux' = useAux /\ MyMessage(q)' = MyMessage(q)
               /\ Finished(q, "export", i)' = Finished(q, "export", i)
               /\ Finished(p, "import", i)' = Finished(p, "import", i)
               /\ Full(q, i)' <=> Full(q, i)
               /\ \A m, k : IsExport(m, q, i, k)' <=> IsExport(m, q, i, k)
<1>1. Other(Other(p)) = p
  BY OtherPartner
<1>2. QED
  BY <1>1, MovesTerms DEF Busy, Full

\* Nobody writes while a message is in the box.
LEMMA FullIsComplete ==
    ASSUME NEW p, NEW i, BoxInv(p, i), Full(p, i)
    PROVE  /\ ~Busy(p, "export", i, {"open", "write", "show"})
           /\ ~Busy(p, "export", i, {"write", "show"})
           /\ ~Busy(p, "export", i, {"show"})
           /\ Exists(<<i, "data">>) /\ ~Exists(<<i, "tmp">>)
           /\ IsExport(dir[<<i, "data">>], p, i, Finished(Other(p), "import", i))
BY DEF BoxInv, Busy

\* The message stays in the box while p goes on with its import.
LEMMA ImportKeepsBox ==
    ASSUME FileInv, NEW p \in Partner, Moves(p), NEW i, done' = done,
           Current(p) = [op |-> "import", id |-> i],
           BoxInv(Other(p), i), Full(Other(p), i),
           dir'[<<i, "data">>] = dir[<<i, "data">>],
           dir'[<<i, "tmp">>] = dir[<<i, "tmp">>],
           Exists(<<i, "avail">>)' <=> useAux /\ io'[p] \notin {"read", "remove"}
    PROVE  BoxInv(Other(p), i)'
<1>1. PICK q \in Partner : q = Other(p) /\ Other(q) = p
  BY OtherPartner
<1>2. /\ Exists(<<i, "data">>)' /\ ~Exists(<<i, "tmp">>)'
      /\ IsExport(dir'[<<i, "data">>], q, i, Finished(p, "import", i))
  BY <1>1, FullIsComplete DEF Exists
<1>3. /\ ~Busy(q, "export", i, {"open", "write", "show"})'
      /\ ~Busy(q, "export", i, {"write", "show"})'
      /\ ~Busy(q, "export", i, {"show"})'
  BY <1>1, FullIsComplete, ImportTerms
<1>4. /\ Full(q, i)' /\ useAux' = useAux
      /\ Finished(p, "import", i)' = Finished(p, "import", i)
      /\ Busy(p, "import", i, {"read", "remove"})' <=> io'[p] \in {"read", "remove"}
  BY <1>1, ImportTerms
<1>5. IsExport(dir[<<i, "data">>], q, i, Finished(p, "import", i))'
  BY <1>1, <1>2, <1>4, ImportTerms
<1>6. QED
  BY <1>1, <1>2, <1>3, <1>4, <1>5 DEF BoxInv

\* WaitForPath() before an import: the signal says that the data is complete.
LEMMA ReceiveWaitStep ==
    ASSUME FileInv, OneWay, NEW p \in Partner, ReceiveWait(p), NEW i, i = Current(p).id,
           UNCHANGED <<memory, pc, tag, folder, listing, program>>
    PROVE  StepOK(p, i)
<1>1. /\ At(p, "connected") /\ io[p] = "ready" /\ done[p] < Len(script[p])
      /\ Current(p).op = "import" /\ UNCHANGED <<done, received, status, dir>>
  BY DEF ReceiveWait, Doing, Stay
<1>2. /\ i \in Id /\ Current(p) = [op |-> "import", id |-> i]
      /\ FileTypeOK /\ TypeOK /\ useAux \in BOOLEAN /\ Other(Other(p)) = p
      /\ BoxInv(Other(p), i) /\ \A r \in Partner : Owns(script, r, i) => r = Other(p)
      /\ \A steps : Busy(p, "import", i, steps) <=> io[p] \in steps
  BY <1>1, ImportFacts
<1>3. PICK t \in {"rm_avail", "read"} : t = IF useAux THEN "rm_avail" ELSE "read"
  OBVIOUS
<1>4. io' = [io EXCEPT ![p] = t]
  BY <1>3 DEF ReceiveWait, Stay
<1>5. io'[p] = t /\ Moves(p)
  BY <1>1, <1>2, <1>4 DEF Moves, FileTypeOK, TypeOK, IoStep
<1>6. ProgressInv(p)' /\ IoInv(p)'
  BY <1>1, <1>3, <1>5, StayProgress
<1>7. Full(Other(p), i)
  <2>1. CASE useAux
    BY <1>2, <2>1 DEF ReceiveWait, SignalPath, AvailPath, BoxInv
  <2>2. CASE ~useAux
    BY <1>2, <2>2 DEF ReceiveWait, SignalPath, DataPath, BoxInv
  <2>3. QED
    BY <2>1, <2>2
<1>8. \A k \in {"tmp", "data", "avail"} : Exists(<<i, k>>)' <=> Exists(<<i, k>>)
  BY <1>1 DEF Exists
<1>9. Exists(<<i, "avail">>)' <=> useAux /\ io'[p] \notin {"read", "remove"}
  <2>1. Exists(<<i, "avail">>) <=> useAux
    BY <1>1, <1>2, <1>7 DEF BoxInv
  <2>2. QED
    BY <1>3, <1>5, <1>8, <2>1
<1>10. BoxInv(Other(p), i)'
  BY <1>1, <1>2, <1>5, <1>7, <1>9, ImportKeepsBox
<1>11. QED
  BY <1>1, <1>2, <1>5, <1>6, <1>10 DEF StepOK

\* Removing the .avail file: it is still there.
LEMMA ReceiveRmAvailStep ==
    ASSUME FileInv, OneWay, NEW p \in Partner, ReceiveRmAvail(p), NEW i,
           i = Current(p).id,
           UNCHANGED <<memory, pc, tag, folder, listing, program>>
    PROVE  StepOK(p, i)
<1>1. /\ At(p, "connected") /\ io[p] = "rm_avail" /\ done[p] < Len(script[p])
      /\ Current(p).op = "import" /\ dir' = [dir EXCEPT ![<<i, "avail">>] = Absent]
  BY DEF ReceiveRmAvail, Doing, AvailPath
<1>2. /\ i \in Id /\ Current(p) = [op |-> "import", id |-> i]
      /\ FileTypeOK /\ TypeOK /\ useAux \in BOOLEAN /\ Other(Other(p)) = p
      /\ BoxInv(Other(p), i) /\ \A r \in Partner : Owns(script, r, i) => r = Other(p)
      /\ \A steps : Busy(p, "import", i, steps) <=> io[p] \in steps
      /\ \A k \in {"tmp", "data", "avail"} : <<i, k>> \in File
  BY <1>1, ImportFacts
<1>3. Full(Other(p), i) /\ useAux /\ Exists(<<i, "avail">>)
  BY <1>1, <1>2 DEF FileInv, IoInv, BoxInv
<1>4. io' = [io EXCEPT ![p] = "read"] /\ UNCHANGED <<done, received, status>>
  BY <1>3 DEF ReceiveRmAvail, AvailPath, Stay
<1>5. io'[p] = "read" /\ Moves(p)
  BY <1>1, <1>2, <1>4 DEF Moves, FileTypeOK, TypeOK, IoStep, Files
<1>6. ProgressInv(p)' /\ IoInv(p)'
  BY <1>1, <1>4, <1>5, StayProgress
<1>7. /\ ~Exists(<<i, "avail">>)' /\ dir'[<<i, "data">>] = dir[<<i, "data">>]
      /\ dir'[<<i, "tmp">>] = dir[<<i, "tmp">>]
  BY <1>1, <1>2 DEF Exists, TypeOK
<1>8. BoxInv(Other(p), i)'
  BY <1>2, <1>3, <1>4, <1>5, <1>7, ImportKeepsBox
<1>9. QED
  BY <1>1, <1>2, <1>4, <1>5, <1>6, <1>8 DEF StepOK

\* Reading the data: it is the partner's next export.
LEMMA ReceiveReadStep ==
    ASSUME FileInv, OneWay, NEW p \in Partner, ReceiveRead(p), NEW i, i = Current(p).id,
           UNCHANGED <<memory, pc, tag, folder, listing, program>>
    PROVE  StepOK(p, i)
<1>1. /\ At(p, "connected") /\ io[p] = "read" /\ done[p] < Len(script[p])
      /\ Current(p).op = "import" /\ dir' = dir
  BY DEF ReceiveRead, Doing
<1>2. /\ i \in Id /\ Current(p) = [op |-> "import", id |-> i]
      /\ FileTypeOK /\ TypeOK /\ useAux \in BOOLEAN /\ Other(Other(p)) = p
      /\ BoxInv(Other(p), i) /\ \A r \in Partner : Owns(script, r, i) => r = Other(p)
      /\ \A steps : Busy(p, "import", i, steps) <=> io[p] \in steps
  BY <1>1, ImportFacts
<1>3. Full(Other(p), i) /\ ~Exists(<<i, "avail">>)
  BY <1>1, <1>2 DEF BoxInv
<1>4. PICK c : c = dir[<<i, "data">>]
  OBVIOUS
<1>5. /\ Exists(<<i, "data">>)
      /\ IsExport(c, Other(p), i, Finished(p, "import", i))
  BY <1>2, <1>3, <1>4, FullIsComplete
<1>6. /\ received' = [received EXCEPT ![p] = Append(@, c)]
      /\ io' = [io EXCEPT ![p] = "remove"] /\ UNCHANGED <<done, status>>
  BY <1>4, <1>5 DEF ReceiveRead, DataPath
<1>7. c \in DataContent /\ IsExport(c, Other(p), i, Nth(p, done[p] + 1))
  <2>1. Nth(p, done[p] + 1) = Finished(p, "import", i)
    BY <1>1, <1>2, FinishedType
  <2>2. QED
    BY <1>5, <2>1 DEF IsExport
<1>8. io'[p] = "remove" /\ Moves(p)
  BY <1>1, <1>2, <1>6 DEF Moves, FileTypeOK, TypeOK, IoStep
<1>9. Len(received[p]) = done[p] /\ Len(received'[p]) = done[p] + 1
  <2>1. received[p] \in Seq(DataContent \cup {Absent}) /\ Len(received[p]) = done[p]
    BY <1>1, <1>2 DEF FileInv, ProgressInv, FileTypeOK
  <2>2. received'[p] = Append(received[p], c)
    BY <1>2, <1>6 DEF FileTypeOK
  <2>3. QED
    BY <1>7, <2>1, <2>2, AppendProperties
<1>10. ProgressInv(p)' /\ IoInv(p)'
  <2>1. /\ ProgressInv(p) /\ pc' = pc /\ tag' = tag /\ pc[p] = "connected"
        /\ UNCHANGED <<session, script, useAux>>
    BY <1>1 DEF FileInv, memory, program, At
  <2>2. Current(p)' = Current(p)
    BY <1>6, <2>1 DEF Current
  <2>3. QED
    BY <1>1, <1>6, <1>8, <1>9, <2>1, <2>2 DEF ProgressInv, IoInv
<1>11. BoxInv(Other(p), i)'
  <2>1. ~Exists(<<i, "avail">>)'
    BY <1>1, <1>3 DEF Exists
  <2>2. QED
    BY <1>1, <1>2, <1>3, <1>6, <1>8, <2>1, ImportKeepsBox
<1>12. QED
  BY <1>1, <1>2, <1>6, <1>7, <1>8, <1>9, <1>10, <1>11 DEF StepOK

\* Removing the data: the box is empty.
LEMMA ReceiveRemoveStep ==
    ASSUME FileInv, OneWay, NEW p \in Partner, ReceiveRemove(p), NEW i,
           i = Current(p).id,
           UNCHANGED <<memory, pc, tag, folder, listing, program>>
    PROVE  StepOK(p, i)
<1>1. /\ At(p, "connected") /\ io[p] = "remove" /\ done[p] < Len(script[p])
      /\ Current(p).op = "import" /\ dir' = [dir EXCEPT ![<<i, "data">>] = Absent]
  BY DEF ReceiveRemove, Doing, DataPath
<1>2. /\ i \in Id /\ Current(p) = [op |-> "import", id |-> i]
      /\ FileTypeOK /\ TypeOK /\ useAux \in BOOLEAN
      /\ BoxInv(Other(p), i) /\ \A r \in Partner : Owns(script, r, i) => r = Other(p)
      /\ \A steps : Busy(p, "import", i, steps) <=> io[p] \in steps
      /\ \A k \in {"tmp", "data", "avail"} : <<i, k>> \in File
  BY <1>1, ImportFacts
<1>3. PICK q \in Partner : q = Other(p) /\ Other(q) = p
  BY OtherPartner
<1>4. Full(q, i) /\ ~Exists(<<i, "avail">>) /\ Exists(<<i, "data">>)
  BY <1>1, <1>2, <1>3 DEF BoxInv
<1>5. /\ io' = [io EXCEPT ![p] = "ready"] /\ done' = [done EXCEPT ![p] = @ + 1]
      /\ UNCHANGED <<received, status>>
  BY <1>4 DEF ReceiveRemove, DataPath
<1>6. io'[p] = "ready" /\ Moves(p)
  BY <1>1, <1>2, <1>5 DEF Moves, FileTypeOK, TypeOK, IoStep, Files
<1>7. Len(received'[p]) = done[p] + 1
  BY <1>1, <1>5 DEF FileInv, ProgressInv
<1>8. ProgressInv(p)' /\ IoInv(p)'
  BY <1>5, <1>6, <1>7, FinishProgress
<1>9. BoxInv(q, i)'
  <2>1. done' # done
    <3>1. done'[p] = done[p] + 1 /\ done[p] \in Nat
      BY <1>2, <1>5 DEF FileTypeOK
    <3>2. QED
      BY <3>1
  <2>2. /\ \A steps : Busy(q, "export", i, steps)' <=> Busy(q, "export", i, steps)
        /\ useAux' = useAux
        /\ Finished(p, "import", i)' = Finished(p, "import", i) + 1
        /\ Finished(q, "export", i)' = Finished(q, "export", i)
    BY <1>2, <1>3, <1>6, <2>1, MovesTerms
  <2>3. /\ Finished(q, "export", i) = Finished(p, "import", i) + 1
        /\ Finished(p, "import", i) \in Nat
    BY <1>2, <1>3, <1>4, FinishedType DEF Full
  <2>4. ~Full(q, i)' /\ Finished(q, "export", i)' = Finished(p, "import", i)'
    BY <1>3, <2>2, <2>3 DEF Full
  <2>5. /\ ~Busy(q, "export", i, {"open", "write", "show"})'
        /\ ~Busy(q, "export", i, {"write", "show"})'
        /\ ~Busy(q, "export", i, {"show"})'
        /\ ~Exists(<<i, "tmp">>)
    BY <1>2, <1>3, <1>4, <2>2, FullIsComplete
  <2>6. \A k \in {"tmp", "data", "avail"} : ~Exists(<<i, k>>)'
    BY <1>1, <1>2, <1>4, <2>5 DEF Exists, TypeOK
  <2>7. \A steps : "ready" \notin steps => ~Busy(p, "import", i, steps)'
    BY <1>6 DEF Busy
  <2>8. QED
    BY <1>3, <2>2, <2>4, <2>5, <2>6, <2>7 DEF BoxInv
<1>10. QED
  BY <1>2, <1>3, <1>5, <1>6, <1>8, <1>9 DEF StepOK

\* Every step of an export or import keeps what the invariant says of its identifier.
LEMMA ExchangeOK ==
    ASSUME FileInv, OneWay, NEW p \in Partner, Exchange(p), NEW i, i = Current(p).id
    PROVE  StepOK(p, i)
<1>1. UNCHANGED <<memory, pc, tag, folder, listing, program>>
  BY DEF Exchange
<1>2. CASE SendGone(p)
  BY <1>1, <1>2, SendGoneStep
<1>3. CASE SendOpen(p)
  BY <1>1, <1>3, SendOpenStep
<1>4. CASE SendWrite(p)
  BY <1>1, <1>4, SendWriteStep
<1>5. CASE SendShow(p)
  BY <1>1, <1>5, SendShowStep
<1>6. CASE ReceiveWait(p)
  BY <1>1, <1>6, ReceiveWaitStep
<1>7. CASE ReceiveRmAvail(p)
  BY <1>1, <1>7, ReceiveRmAvailStep
<1>8. CASE ReceiveRead(p)
  BY <1>1, <1>8, ReceiveReadStep
<1>9. CASE ReceiveRemove(p)
  BY <1>1, <1>9, ReceiveRemoveStep
<1>10. QED
  BY <1>2, <1>3, <1>4, <1>5, <1>6, <1>7, <1>8, <1>9 DEF Exchange

\* A step that goes on with the same executions, sessions and scripts and adds no
\* result keeps the results right.
LEMMA ResultsFrame ==
    ASSUME ImportsMatchExports, UNCHANGED <<run, session, script, received>>
    PROVE  ImportsMatchExports'
<1>1. \A q, op, i : Positions(q, op, i)' = Positions(q, op, i)
  BY DEF Positions
<1>2. \A q, n : Nth(q, n)' = Nth(q, n)
  BY DEF Nth, Positions
<1>3. QED
  BY <1>1, <1>2 DEF ImportsMatchExports

\* The result of an import is the one it should be.
LEMMA ExchangeResults ==
    ASSUME FileInv, NEW p \in Partner, NEW i, i = Current(p).id, StepOK(p, i)
    PROVE  /\ ImportsMatchExports'
           /\ received' \in [Partner -> Seq(DataContent \cup {Absent})]
<1>1. /\ Moves(p) /\ FileTypeOK /\ IInv /\ pc[p] = "connected" /\ ImportsMatchExports
      /\ done[p] < Len(script[p]) /\ UNCHANGED <<run, session, script>>
  BY DEF StepOK, Moves, FileInv, memory, program, At
<1>2. CASE received' = received
  BY <1>1, <1>2, ResultsFrame DEF FileTypeOK
<1>3. CASE received' # received
  <2>1. PICK c \in DataContent \cup {Absent} :
           /\ received' = [received EXCEPT ![p] = Append(@, c)]
           /\ Len(received[p]) = done[p]
           /\ Current(p).op = "import" =>
                 IsExport(c, Other(p), i, Nth(p, done[p] + 1))
    BY <1>3 DEF StepOK
  <2>2. /\ received'[p] = Append(received[p], c)
        /\ \A r \in Partner : r # p => received'[r] = received[r]
        /\ received[p] \in Seq(DataContent \cup {Absent})
    BY <1>1, <2>1 DEF FileTypeOK
  <2>3. /\ received'[p] \in Seq(DataContent \cup {Absent})
        /\ Len(received'[p]) = done[p] + 1 /\ done[p] \in Nat
        /\ \A n \in 1..done[p] : received'[p][n] = received[p][n]
        /\ received'[p][done[p] + 1] = c
    BY <1>1, <2>1, <2>2, AppendProperties DEF FileTypeOK
  <2>4. received' \in [Partner -> Seq(DataContent \cup {Absent})]
    BY <1>1, <2>1, <2>3 DEF FileTypeOK
  <2>5. session[Other(p)] = session[p]
    BY <1>1, InSession
  <2>6. /\ \A q, op, j : Positions(q, op, j)' = Positions(q, op, j)
        /\ \A q, n : Nth(q, n)' = Nth(q, n)
    BY <1>1 DEF Positions, Nth
  <2>7. ASSUME NEW r \in Partner, NEW n \in 1..Len(received'[r]),
               script[r][n].op = "import"
        PROVE  LET m == received'[r][n]
                   q == Other(r)
               IN  /\ m.from = q /\ m.run = run /\ m.session = session[r]
                   /\ m.no \in Positions(q, "export", script[r][n].id)
                   /\ Nth(q, m.no) = Nth(r, n)
    <3>1. CASE r = p /\ n = done[p] + 1
      BY <2>1, <2>3, <2>5, <2>7, <3>1 DEF IsExport, Current
    <3>2. CASE ~(r = p /\ n = done[p] + 1)
      <4>1. n \in 1..Len(received[r]) /\ received'[r][n] = received[r][n]
        BY <2>1, <2>2, <2>3, <3>2
      <4>2. QED
        BY <1>1, <2>7, <4>1 DEF ImportsMatchExports
    <3>3. QED
      BY <3>1, <3>2
  <2>8. ImportsMatchExports'
    BY <1>1, <2>6, <2>7, OtherPartner DEF ImportsMatchExports
  <2>9. QED
    BY <2>4, <2>8
<1>4. QED
  BY <1>2, <1>3

\* Every step of an export or import keeps the invariant.
LEMMA ExchangeStep ==
    ASSUME FileInv, OneWay, NEW p \in Partner, Exchange(p)
    PROVE  FileInv' /\ Moves(p)
<1> PICK i : i = Current(p).id
  OBVIOUS
<1>1. StepOK(p, i)
  BY ExchangeOK
<1>2. /\ Moves(p) /\ FileTypeOK /\ done[p] < Len(script[p])
      /\ UNCHANGED <<useAux, script, pc, tag, session>>
      /\ ProgressInv(p)' /\ IoInv(p)'
  BY <1>1 DEF StepOK, Moves, FileInv, program, memory
<1>3. IInv' /\ Live' /\ Live
  BY <1>2, MovesLifeCycle
<1>4. /\ ImportsMatchExports'
      /\ received' \in [Partner -> Seq(DataContent \cup {Absent})]
  BY <1>1, ExchangeResults
<1>5. FileTypeOK'
  <2>1. done[p] + 1 \in 0..MaxOps
    BY <1>2, ScriptType DEF FileTypeOK
  <2>2. done' \in [Partner -> 0..MaxOps] /\ io' \in [Partner -> IoStep]
    BY <1>2, <2>1 DEF Moves, FileTypeOK
  <2>3. TypeOK'
    BY <1>3 DEF IInv
  <2>4. QED
    BY <1>2, <1>4, <2>2, <2>3 DEF FileTypeOK
<1>6. ASSUME NEW r \in Partner, r # p PROVE ProgressInv(r)' /\ IoInv(r)'
  <2>1. /\ ProgressInv(r) /\ IoInv(r) /\ io'[r] = io[r] /\ done'[r] = done[r]
    BY <1>2, <1>6 DEF FileInv, Moves, FileTypeOK
  <2>2. received'[r] = received[r]
    BY <1>1, <1>2, <1>6 DEF StepOK, FileTypeOK
  <2>3. Current(r)' = Current(r)
    BY <1>2, <2>1 DEF Current
  <2>4. QED
    BY <1>2, <2>1, <2>2, <2>3 DEF ProgressInv, IoInv
<1>7. BoxesInv'
  <2>1. ASSUME NEW r \in Partner, NEW j \in Id, Owns(script, r, j)
        PROVE  BoxInv(r, j)'
    <3>1. CASE j = i
      BY <1>1, <2>1, <3>1 DEF StepOK
    <3>2. CASE j # i
      <4>1. BoxInv(r, j)
        BY <1>3, <2>1 DEF FileInv, BoxesInv
      <4>2. QED
        BY <1>2, <3>2, <4>1, MovesOthers
    <3>3. QED
      BY <3>1, <3>2
  <2>2. QED
    BY <1>2, <1>3, <2>1 DEF BoxesInv
<1>8. QED
  BY <1>2, <1>3, <1>4, <1>5, <1>6, <1>7 DEF FileInv

-----------------------------------------------------------------------------
(* The steps outside the exchange of data.                                  *)

Outside ==
    \/ \E p \in Partner : \/ FileConnect(p) \/ FileDisconnect(p)
                          \/ (Protocol(p) \/ Crash(p)) /\ UNCHANGED fileVars
    \/ FileRestart
    \/ UNCHANGED allVars

\* A step of the coupled programs exchanges data or is one of the life cycle.
LEMMA Outsides ==
    /\ [FileNext]_allVars => Outside \/ \E p \in Partner : Exchange(p)
    /\ Outside => [Next]_vars /\ UNCHANGED program
<1>1. [FileNext]_allVars => Outside \/ \E p \in Partner : Exchange(p)
  BY DEF FileNext, FileOperation, Outside, Terminated, allVars
<1>2. Outside => [Next]_vars /\ UNCHANGED program
  BY DEF Outside, FileConnect, FileDisconnect, FileRestart, Next, Operation, fileVars,
         allVars, program
<1>3. QED
  BY <1>1, <1>2

\* What the steps inside Connect() and Disconnect() leave alone.
LEMMA ProtocolFacts ==
    ASSUME TypeOK, Shape, NEW p \in Partner, Protocol(p)
    PROVE  /\ pc[p] # "connected" /\ pc[p] # "idle"
           /\ UNCHANGED <<run, session>>
           /\ \A r \in Partner :
                 /\ tag'[r] = "disconn" <=> tag[r] = "disconn"
                 /\ r # p => pc'[r] = pc[r] /\ tag'[r] = tag[r]
BY DEF Protocol, Open, Perms, Avail, Wait, RmAvail, Load, RmData, Gone, Check,
       RemoveEntry, RemoveFolder, CreateFolder, At, Goto, Throw, RemovePath,
       StartRemoveAll, memory, TypeOK, Tag, SyncTag

\* Where a partner is in its script, after a step outside the exchange.
LEMMA OutsideProgress ==
    ASSUME FileInv, Outside, NEW r \in Partner
    PROVE  ProgressInv(r)' /\ IoInv(r)'
<1>1. /\ FileTypeOK /\ TypeOK /\ Shape /\ ProgressInv(r) /\ IoInv(r)
      /\ done[r] \in Nat /\ Len(script[r]) \in Nat /\ session[r] \in Nat
      /\ UNCHANGED <<useAux, script>>
  BY ScriptType, Outsides DEF FileInv, IInv, FileTypeOK, TypeOK, program
<1>2. ASSUME UNCHANGED ioVars
      PROVE  /\ done'[r] = done[r] /\ io'[r] = io[r] /\ received'[r] = received[r]
             /\ Current(r)' = Current(r)
  BY <1>1, <1>2 DEF ioVars, Current
<1>3. ASSUME NEW p \in Partner, FileConnect(p) PROVE ProgressInv(r)' /\ IoInv(r)'
  <2>1. /\ At(p, "idle") /\ session[p] < MaxSession
        /\ session' = [session EXCEPT ![p] = @ + 1]
        /\ tag' = [tag EXCEPT ![p] = "conn"] /\ io' = io
        /\ done' = [done EXCEPT ![p] = 0]
        /\ received' = [received EXCEPT ![p] = <<>>]
        /\ \A a \in Partner : a # p => pc'[a] = pc[a]
    BY <1>1, <1>3 DEF FileConnect, Connect, StartRemoveAll, Goto, TypeOK
  <2>2. CASE r = p
    <3>1. io[r] = "ready"
      BY <1>1, <2>1, <2>2 DEF IoInv, At
    <3>2. /\ done'[r] = 0 /\ received'[r] = <<>> /\ tag'[r] = "conn"
          /\ session'[r] = session[r] + 1 /\ session[r] < MaxSession /\ io'[r] = "ready"
      BY <1>1, <2>1, <2>2, <3>1 DEF FileTypeOK, TypeOK
    <3>3. QED
      BY <1>1, <3>2, ConstantAssumption, EmptySeq DEF ProgressInv, IoInv
  <2>3. CASE r # p
    <3>1. /\ done'[r] = done[r] /\ received'[r] = received[r] /\ tag'[r] = tag[r]
          /\ session'[r] = session[r] /\ pc'[r] = pc[r] /\ io'[r] = io[r]
      BY <1>1, <2>1, <2>3 DEF FileTypeOK, TypeOK
    <3>2. Current(r)' = Current(r)
      BY <1>1, <3>1 DEF Current
    <3>3. QED
      BY <1>1, <3>1, <3>2 DEF ProgressInv, IoInv
  <2>4. QED
    BY <2>2, <2>3
<1>4. ASSUME NEW p \in Partner, FileDisconnect(p) PROVE ProgressInv(r)' /\ IoInv(r)'
  <2>1. /\ At(p, "connected") /\ done[p] = Len(script[p]) /\ session' = session
        /\ tag' = [tag EXCEPT ![p] = "disconn"] /\ UNCHANGED ioVars
        /\ \A a \in Partner : a # p => pc'[a] = pc[a]
    BY <1>1, <1>4 DEF FileDisconnect, Disconnect, Goto, TypeOK, memory, fileVars
  <2>2. CASE r = p
    <3>1. tag'[r] = "disconn" /\ io[r] = "ready" /\ pc[r] = "connected"
      BY <1>1, <2>1, <2>2 DEF IoInv, TypeOK, At
    <3>2. QED
      BY <1>1, <1>2, <2>1, <2>2, <3>1 DEF ProgressInv, IoInv
  <2>3. CASE r # p
    <3>1. tag'[r] = tag[r] /\ pc'[r] = pc[r]
      BY <1>1, <2>1, <2>3 DEF TypeOK
    <3>2. QED
      BY <1>1, <1>2, <2>1, <3>1 DEF ProgressInv, IoInv
  <2>4. QED
    BY <2>2, <2>3
<1>5. ASSUME NEW p \in Partner, Protocol(p), UNCHANGED fileVars
      PROVE  ProgressInv(r)' /\ IoInv(r)'
  <2>1. /\ session' = session /\ (tag'[r] = "disconn" <=> tag[r] = "disconn")
        /\ pc[p] # "connected" /\ UNCHANGED ioVars
        /\ r # p => pc'[r] = pc[r] /\ tag'[r] = tag[r]
    BY <1>1, <1>5, ProtocolFacts DEF fileVars
  <2>2. CASE r = p
    <3>1. io[r] = "ready"
      BY <1>1, <2>1, <2>2 DEF IoInv
    <3>2. QED
      BY <1>1, <1>2, <2>1, <2>2, <3>1 DEF ProgressInv, IoInv
  <2>3. CASE r # p
    BY <1>1, <1>2, <2>1, <2>3 DEF ProgressInv, IoInv
  <2>4. QED
    BY <2>2, <2>3
<1>6. ASSUME UNCHANGED ioVars, UNCHANGED <<session, tag, pc>>
      PROVE  ProgressInv(r)' /\ IoInv(r)'
  BY <1>1, <1>2, <1>6 DEF ProgressInv, IoInv
<1>7. ASSUME NEW p \in Partner, Crash(p), UNCHANGED fileVars
      PROVE  ProgressInv(r)' /\ IoInv(r)'
  BY <1>6, <1>7 DEF Crash, memory, fileVars
<1>8. ASSUME FileRestart PROVE ProgressInv(r)' /\ IoInv(r)'
  <2>1. /\ done'[r] = 0 /\ io'[r] = "ready" /\ received'[r] = <<>>
        /\ session'[r] = 0
    BY <1>8 DEF FileRestart, Restart
  <2>2. QED
    BY <1>1, <2>1, ConstantAssumption, EmptySeq DEF ProgressInv, IoInv
<1>9. ASSUME UNCHANGED allVars PROVE ProgressInv(r)' /\ IoInv(r)'
  BY <1>6, <1>9 DEF allVars, vars, fileVars
<1>10. QED
  BY <1>3, <1>4, <1>5, <1>7, <1>8, <1>9 DEF Outside

\* The types, after a step outside the exchange.
LEMMA OutsideType ==
    ASSUME FileTypeOK, Outside
    PROVE  FileTypeOK'
<1>1. TypeOK'
  BY TypeStep, Outsides DEF FileTypeOK
<1>2. useAux' \in AuxModes /\ script' \in Scripts
  BY Outsides DEF FileTypeOK, program
<1>3. /\ \A S : <<>> \in Seq(S)
      /\ 0 \in 0..MaxOps
  BY FileAssumption
<1>4. /\ done' \in [Partner -> 0..MaxOps]
      /\ io' \in [Partner -> IoStep]
      /\ received' \in [Partner -> Seq(DataContent \cup {Absent})]
  BY <1>3 DEF FileTypeOK, Outside, FileConnect, FileDisconnect, FileRestart, fileVars,
              ioVars, allVars, IoStep
<1>5. QED
  BY <1>1, <1>2, <1>4 DEF FileTypeOK

\* The results, after a step outside the exchange: a new session starts without any.
LEMMA OutsideResults ==
    ASSUME FileInv, Outside
    PROVE  ImportsMatchExports'
<1>1. FileTypeOK /\ TypeOK /\ Shape /\ ImportsMatchExports /\ script' = script
  BY Outsides DEF FileInv, IInv, program
<1>2. ASSUME UNCHANGED <<run, session, received>> PROVE ImportsMatchExports'
  BY <1>1, <1>2, ResultsFrame
<1>3. ASSUME NEW p \in Partner, FileConnect(p) PROVE ImportsMatchExports'
  <2>1. /\ run' = run /\ session' = [session EXCEPT ![p] = @ + 1]
        /\ received' = [received EXCEPT ![p] = <<>>]
    BY <1>3 DEF FileConnect, Connect
  <2>2. /\ received'[p] = <<>>
        /\ \A r \in Partner : r # p => received'[r] = received[r] /\ session'[r] = session[r]
    BY <1>1, <2>1 DEF FileTypeOK, TypeOK
  <2>3. /\ \A q, op, i : Positions(q, op, i)' = Positions(q, op, i)
        /\ \A q, n : Nth(q, n)' = Nth(q, n)
    BY <1>1 DEF Positions, Nth
  <2>4. 1..Len(<<>>) = {}
    OBVIOUS
  <2>5. QED
    BY <1>1, <2>1, <2>2, <2>3, <2>4 DEF ImportsMatchExports
<1>4. CASE FileRestart
  <2>1. \A r \in Partner : received'[r] = <<>>
    BY <1>4 DEF FileRestart
  <2>2. \A r \in Partner : 1..Len(received'[r]) = {}
    BY <2>1
  <2>3. QED
    BY <2>2 DEF ImportsMatchExports
<1>5. ASSUME NEW p \in Partner, FileDisconnect(p) PROVE ImportsMatchExports'
  BY <1>2, <1>5 DEF FileDisconnect, Disconnect, memory, fileVars, ioVars
<1>6. ASSUME NEW p \in Partner, Protocol(p), UNCHANGED fileVars
      PROVE  ImportsMatchExports'
  BY <1>1, <1>2, <1>6, ProtocolFacts DEF fileVars, ioVars
<1>7. ASSUME NEW p \in Partner, Crash(p), UNCHANGED fileVars
      PROVE  ImportsMatchExports'
  BY <1>2, <1>7 DEF Crash, memory, fileVars, ioVars
<1>8. ASSUME UNCHANGED allVars PROVE ImportsMatchExports'
  BY <1>2, <1>8 DEF allVars, vars, fileVars, ioVars
<1>9. QED
  BY <1>3, <1>4, <1>5, <1>6, <1>7, <1>8 DEF Outside

\* The files of an identifier nobody has exchanged anything under.
LEMMA EmptyBox ==
    ASSUME FileTypeOK, NEW p \in Partner, NEW i \in Id, NoData,
           \A r \in Partner : done[r] = 0 /\ io[r] = "ready"
    PROVE  BoxInv(p, i)
<1>1. /\ Other(p) \in Partner
      /\ \A k \in {"tmp", "data", "avail"} : ~Exists(<<i, k>>)
  BY OtherPartner, DataNames DEF NoData
<1>2. Finished(p, "export", i) = 0 /\ Finished(Other(p), "import", i) = 0
  BY <1>1, FinishedType
<1>3. ~Full(p, i)
  BY <1>2 DEF Full
<1>4. \A r \in Partner : \A op, steps : "ready" \notin steps => ~Busy(r, op, i, steps)
  BY DEF Busy
<1>5. /\ ~Busy(p, "export", i, {"open", "write", "show"})
      /\ ~Busy(p, "export", i, {"write", "show"}) /\ ~Busy(p, "export", i, {"show"})
      /\ ~Busy(Other(p), "import", i, {"rm_avail", "read", "remove"})
      /\ ~Busy(Other(p), "import", i, {"read", "remove"})
  BY <1>1, <1>4
<1>6. QED
  BY <1>1, <1>2, <1>3, <1>5 DEF BoxInv

\* The beginning of a session: a partner has begun to synchronise in Connect().
Beginning ==
    /\ IInv /\ FileTypeOK /\ Live
    /\ \A r \in Partner : ProgressInv(r) /\ IoInv(r)
    /\ \E p \in Partner : tag[p] = "conn" /\ pc[p] # "gone"
    /\ ~CommInFolder => NoData

AllBoxes == \A r \in Partner, i \in Id : BoxInv(r, i)

\* The partner has not been overtaken, so nothing has been exchanged yet.
LEMMA SessionBegins == Beginning => AllBoxes
<1> SUFFICES ASSUME Beginning PROVE AllBoxes
  OBVIOUS
<1> PICK p \in Partner : tag[p] = "conn" /\ pc[p] # "gone"
  BY DEF Beginning
<1> USE DEF Beginning
<1> DEFINE q == Other(p)
<1>1. /\ "primary" \in Partner /\ q \in Partner /\ q # p /\ Other(q) = p
      /\ \A r \in Partner : r = p \/ r = q
      /\ TypeOK /\ Shape
  BY OtherPartner DEF Partner, IInv
<1>2. ~Dirty /\ BarrierInv /\ DataInv
  BY <1>1 DEF IInv, DirtyInv, Live, CleanInv
<1>3. session[p] = session[q] /\ session[p] \in Nat
  BY <1>1 DEF Live, Partner, Other, TypeOK
<1>4. tag[q] = "conn"
  <2>1. SyncsLeft(q) <= SyncsLeft(p)
    BY <1>1, <1>2, CountType DEF BarrierInv
  <2>2. SyncsLeft(p) = 2 * session[p] - 2
    BY DEF SyncsLeft
  <2>3. tag[q] \in {"conn", "handshake", "disconn"}
    BY <1>1 DEF TypeOK, Tag, SyncTag
  <2>4. tag[q] # "handshake" /\ tag[q] # "disconn"
    BY <1>3, <2>1, <2>2 DEF SyncsLeft
  <2>5. QED
    BY <2>3, <2>4
<1>5. \A r \in Partner : tag[r] = "conn" /\ pc[r] # "connected"
  BY <1>1, <1>4 DEF Shape
<1>6. \A r \in Partner : done[r] = 0 /\ io[r] = "ready"
  BY <1>5 DEF ProgressInv, IoInv
<1>7. NoData
  BY <1>1, <1>2, <1>5, ConstantAssumption DEF DataInv, NoData, Live
<1>8. QED
  BY <1>6, <1>7, EmptyBox DEF AllBoxes

\* The end of a session: when one partner is behind the last synchronisation and the
\* other one in it, everything that was exported has been imported.
LEMMA SessionEnds ==
    ASSUME FileInv, OneWay, Matched, Live, NEW p \in Partner, tag[p] = "disconn",
           pc[p] = "idle" \/ (p = "primary" /\ pc[p] = "gone")
    PROVE  NoData
<1> DEFINE q == Other(p)
<1>1. /\ "primary" \in Partner /\ q \in Partner /\ q # p /\ Other(q) = p
      /\ \A r \in Partner : r = p \/ r = q
      /\ FileTypeOK /\ TypeOK /\ Shape /\ script \in Scripts
  BY OtherPartner DEF Partner, FileInv, IInv, FileTypeOK
<1>2. ~Dirty /\ BarrierInv /\ \A t \in SyncTag : SyncOrder(t)
  BY <1>1 DEF FileInv, IInv, DirtyInv, Live, CleanInv
<1>3. /\ session[p] = session[q] /\ session[p] \in Nat \ {0} /\ session[q] \in Nat \ {0}
  BY <1>1 DEF Live, Partner, Other, TypeOK, Shape
<1>4. tag[q] = "disconn"
  <2>1. SyncsLeft(p) <= SyncsEntered(q)
    BY <1>1, <1>2 DEF BarrierInv
  <2>2. tag[q] \in {"conn", "handshake", "disconn"}
    BY <1>1 DEF TypeOK, Tag, SyncTag
  <2>3. CASE pc[p] = "idle"
    <3>1. SyncsLeft(p) = 2 * session[p]
      BY <2>3 DEF SyncsLeft, FileStep
    <3>2. tag[q] # "conn" /\ tag[q] # "handshake"
      BY <1>3, <2>1, <3>1 DEF SyncsLeft, SyncsEntered, SyncTag
    <3>3. QED
      BY <2>2, <3>2
  <2>4. CASE p = "primary" /\ pc[p] = "gone"
    <3>1. q = "secondary" /\ SyncOrder("disconn") /\ In("primary", "disconn", {"gone"})
      BY <1>2, <2>4 DEF Other, SyncTag, In
    <3>2. tag[q] = "disconn" \/ SyncsLeft(q) = SyncsLeft(p) + 1
      BY <2>4, <3>1 DEF SyncOrder, In
    <3>3. SyncsLeft(p) = 2 * session[p] - 1
      BY <2>4 DEF SyncsLeft, FileStep
    <3>4. SyncsLeft(q) = SyncsLeft(p) + 1 => tag[q] # "conn" /\ tag[q] # "handshake"
      BY <1>3, <3>3 DEF SyncsLeft
    <3>5. QED
      BY <2>2, <3>2, <3>4
  <2>5. QED
    BY <2>3, <2>4
<1>5. \A r \in Partner : tag[r] = "disconn" /\ pc[r] # "connected" /\ session[r] > 0
  BY <1>1, <1>3, <1>4 DEF Shape
<1>6. \A r \in Partner : done[r] = Len(script[r]) /\ io[r] = "ready"
  BY <1>5 DEF FileInv, ProgressInv, IoInv
<1>7. \A r \in Partner : \A op, i : Finished(r, op, i) = Cardinality(Positions(r, op, i))
  <2>1. ASSUME NEW r \in Partner, NEW op, NEW i
        PROVE  {n \in Positions(r, op, i) : n <= done[r]} = Positions(r, op, i)
    BY <1>1, <1>6, ScriptType DEF Positions
  <2>2. QED
    BY <2>1 DEF Finished
<1>8. ASSUME NEW r \in Partner, NEW i \in Id, BoxInv(r, i)
      PROVE  \A k \in {"tmp", "data", "avail"} : ~Exists(<<i, k>>)
  <2>1. Other(r) \in Partner
    BY OtherPartner
  <2>2. Finished(r, "export", i) = Finished(Other(r), "import", i)
    <3>1. Cardinality({n \in 1..Len(script[r]) :
                          script[r][n] = [op |-> "export", id |-> i]}) =
          Cardinality({n \in 1..Len(script[Other(r)]) :
                          script[Other(r)][n] = [op |-> "import", id |-> i]})
      BY <1>1, Zenon DEF Matched
    <3>2. Cardinality(Positions(r, "export", i)) =
          Cardinality(Positions(Other(r), "import", i))
      BY <3>1 DEF Positions
    <3>3. QED
      BY <1>7, <2>1, <3>2
  <2>3. ~Full(r, i)
    BY <1>1, <2>1, <2>2, FinishedType DEF Full
  <2>4. ~Busy(r, "export", i, {"write", "show"})
    BY <1>6 DEF Busy
  <2>5. QED
    BY <1>8, <2>3, <2>4 DEF BoxInv
<1>9. ASSUME NEW f \in DataFile PROVE ~Exists(f)
  <2>1. PICK i \in Id, k \in {"tmp", "data", "avail"} : f = <<i, k>>
    BY FileAssumption
  <2>2. PICK r \in Partner : Owns(script, r, i)
    BY <1>1 DEF OneWay
  <2>3. BoxInv(r, i)
    BY <2>2 DEF FileInv, BoxesInv
  <2>4. QED
    BY <1>8, <2>1, <2>3
<1>10. QED
  BY <1>9 DEF NoData

\* The steps of Connect() and Disconnect(), except the removal of the folder, leave
\* the data alone.
LEMMA DataFrame ==
    ASSUME TypeOK, NEW p \in Partner, Protocol(p), ~RemoveEntry(p), NEW f \in DataFile
    PROVE  dir'[f] = dir[f]
<1>1. /\ f \in File /\ f \notin ProtocolFile
      /\ \A k \in {"data", "avail"} :
            Mine(p, k) \in ProtocolFile /\ Theirs(p, k) \in ProtocolFile
  BY ConstantAssumption, FileNames, OtherPartner DEF File, Mine, Theirs, TypeOK
<1>2. QED
  BY <1>1 DEF Protocol, Open, Perms, Avail, Wait, RmAvail, Load, RmData, Gone,
              Check, RemoveFolder, CreateFolder, Create, RemovePath, TypeOK

\* A session begins and ends with the synchronisations of Connect() and Disconnect().
LEMMA LiveChange ==
    ASSUME TypeOK, Shape, Outside
    PROVE  /\ Live' /\ ~Live => \E p \in Partner : tag'[p] = "conn" /\ pc'[p] # "gone"
           /\ Live' /\ Live => /\ UNCHANGED <<run, session, ioVars>>
                               /\ \A f \in DataFile : dir'[f] = dir[f]
           /\ Live /\ ~Live' =>
                 \/ run < MaxRun
                 \/ \E p \in Partner :
                       /\ tag[p] = "disconn"
                       /\ pc[p] = "idle" \/ (p = "primary" /\ pc[p] = "gone")
<1> DEFINE Goal ==
           /\ Live' /\ ~Live => \E p \in Partner : tag'[p] = "conn" /\ pc'[p] # "gone"
           /\ Live' /\ Live => /\ UNCHANGED <<run, session, ioVars>>
                               /\ \A f \in DataFile : dir'[f] = dir[f]
           /\ Live /\ ~Live' =>
                 \/ run < MaxRun
                 \/ \E p \in Partner :
                       /\ tag[p] = "disconn"
                       /\ pc[p] = "idle" \/ (p = "primary" /\ pc[p] = "gone")
<1>1. ASSUME NEW p \in Partner, FileConnect(p) PROVE Goal
  <2>1. /\ pc[p] = "idle" /\ tag[p] = "disconn"
        /\ session'[p] = session[p] + 1 /\ tag'[p] = "conn"
        /\ pc'[p] \in {"remove_all", "open", "wait"}
    BY <1>1 DEF FileConnect, Connect, At, Shape, TypeOK, StartRemoveAll, Goto, SyncStart
  <2>2. ~(Live /\ Live')
    <3>1. session[p] \in Nat /\ \A r \in Partner : r # p => session'[r] = session[r]
      BY <1>1 DEF FileConnect, Connect, TypeOK
    <3>2. QED
      BY <2>1, <3>1 DEF Live, Partner
  <2>3. QED
    BY <2>1, <2>2
<1>2. ASSUME NEW p \in Partner, FileDisconnect(p) PROVE Goal
  <2>1. /\ UNCHANGED <<run, session, ioVars, dir>>
        /\ pc' = [pc EXCEPT ![p] = SyncStart(p)] /\ pc[p] = "connected"
    BY <1>2 DEF FileDisconnect, Disconnect, Goto, At, memory, fileVars
  <2>2. Live' <=> Live
    BY <2>1 DEF Live, SyncStart, TypeOK, Partner
  <2>3. QED
    BY <2>1, <2>2
<1>3. ASSUME NEW p \in Partner, Protocol(p), UNCHANGED fileVars PROVE Goal
  <2>1. UNCHANGED <<run, session, ioVars>>
    BY <1>3, ProtocolFacts DEF fileVars
  <2>2. Live => \A f \in DataFile : dir'[f] = dir[f]
    <3>1. Live => ~RemoveEntry(p)
      BY DEF Live, RemoveEntry, At, Shape
    <3>2. QED
      BY <1>3, <3>1, DataFrame
  <2>3. CASE p = "secondary"
    <3>1. pc'["primary"] = pc["primary"]
      BY <1>3, <2>3, ProtocolFacts DEF Partner
    <3>2. Live' <=> Live
      BY <2>1, <3>1 DEF Live
    <3>3. QED
      BY <2>1, <2>2, <3>2
  <2>4. CASE p = "primary"
    <3>1. CASE CreateFolder(p)
      <4>1. pc[p] = "create_dir" /\ tag'[p] = "conn" /\ pc'[p] = "open"
        BY <2>4, <3>1 DEF CreateFolder, At, Goto, SyncStart, Shape, TypeOK
      <4>2. ~Live
        BY <2>4, <4>1 DEF Live
      <4>3. QED
        BY <4>1, <4>2
    <3>2. CASE RemoveEntry(p) \/ RemoveFolder(p)
      <4>1. /\ pc[p] = "remove_all" /\ pc'[p] \in {"remove_all", "create_dir", "idle"}
        BY <3>2 DEF RemoveEntry, RemoveFolder, At, Goto, TypeOK
      <4>2. ~Live /\ ~Live'
        BY <2>4, <4>1 DEF Live
      <4>3. QED
        BY <4>2
    <3>3. CASE Gone(p)
      <4>1. /\ pc["primary"] = "gone"
            /\ tag[p] # "disconn" =>
                  pc'["primary"] \notin {"idle", "remove_all", "create_dir"}
        BY <2>4, <3>3 DEF Gone, At, Goto, TypeOK
      <4>2. (Live' => Live) /\ (tag[p] # "disconn" => (Live' <=> Live))
        BY <2>1, <4>1 DEF Live
      <4>3. QED
        BY <2>1, <2>2, <2>4, <4>1, <4>2
    <3>4. CASE \/ Open(p) \/ Perms(p) \/ Avail(p) \/ Wait(p) \/ RmAvail(p) \/ Load(p)
               \/ RmData(p) \/ Check(p)
      <4>1. /\ pc[p] \notin {"idle", "remove_all", "create_dir"}
            /\ pc'[p] \notin {"idle", "remove_all", "create_dir"}
        BY <3>4 DEF Open, Perms, Avail, Wait, RmAvail, Load, RmData, Check, At,
                    Goto, Throw, RemovePath, TypeOK
      <4>2. Live' <=> Live
        BY <2>1, <2>4, <4>1 DEF Live
      <4>3. QED
        BY <2>1, <2>2, <4>2
    <3>5. QED
      BY <1>3, <3>1, <3>2, <3>3, <3>4 DEF Protocol
  <2>5. QED
    BY <2>3, <2>4 DEF Partner
<1>4. ASSUME NEW p \in Partner, Crash(p), UNCHANGED fileVars PROVE Goal
  <2>1. UNCHANGED <<run, session, pc, ioVars, dir>>
    BY <1>4 DEF Crash, memory, fileVars
  <2>2. QED
    BY <2>1 DEF Live
<1>5. ASSUME FileRestart PROVE Goal
  <2>1. run < MaxRun /\ pc'["primary"] = "idle"
    BY <1>5 DEF FileRestart, Restart, Partner
  <2>2. QED
    BY <2>1 DEF Live
<1>6. ASSUME UNCHANGED allVars PROVE Goal
  <2>1. UNCHANGED <<run, session, pc, ioVars, dir>>
    BY <1>6 DEF allVars, vars, fileVars
  <2>2. QED
    BY <2>1 DEF Live
<1>7. QED
  BY <1>1, <1>2, <1>3, <1>4, <1>5, <1>6 DEF Outside

\* The files, after a step outside the exchange.
LEMMA OutsideBoxes ==
    ASSUME LeftoversRemoved, OneWay, UnreadRemoved, FileInv, Outside,
           IInv', FileTypeOK', \A r \in Partner : ProgressInv(r)' /\ IoInv(r)'
    PROVE  BoxesInv'
<1>1. /\ TypeOK /\ Shape /\ FileTypeOK /\ BoxesInv /\ UNCHANGED <<useAux, script>>
      /\ [Next]_vars /\ UNCHANGED program
  BY Outsides DEF FileInv, IInv, program
<1>2. NoData => NoData'
  BY <1>1, NoDataWritten DEF NoData
<1>3. ASSUME Live, ~Live', ~CommInFolder PROVE NoData
  <2>1. ~(run < MaxRun) /\ Matched
    BY <1>1, <1>3, ConstantAssumption
       DEF LeftoversRemoved, UnreadRemoved, Shape, TypeOK
  <2>2. PICK p \in Partner : /\ tag[p] = "disconn"
                             /\ pc[p] = "idle" \/ (p = "primary" /\ pc[p] = "gone")
    BY <1>1, <1>3, <2>1, LiveChange
  <2>3. QED
    BY <1>3, <2>1, <2>2, SessionEnds
<1>4. ASSUME ~CommInFolder, ~Live \/ ~Live' PROVE NoData'
  BY <1>1, <1>2, <1>3, <1>4 DEF BoxesInv
<1>5. ASSUME Live, Live', NEW p \in Partner, NEW i \in Id, Owns(script, p, i)
      PROVE  BoxInv(p, i)'
  <2>1. /\ UNCHANGED <<run, session, ioVars>>
        /\ \A f \in DataFile : dir'[f] = dir[f]
    BY <1>1, <1>5, LiveChange
  <2>2. BoxInv(p, i)
    BY <1>1, <1>5 DEF BoxesInv
  <2>3. \A k \in {"tmp", "data", "avail"} : dir'[<<i, k>>] = dir[<<i, k>>]
    BY <2>1, DataNames
  <2>4. UNCHANGED <<done, io, script>>
    BY <1>1, <2>1 DEF ioVars
  <2>5. ASSUME NEW r \in Partner, NEW op \in {"export", "import"}
        PROVE  /\ Finished(r, op, i)' = Finished(r, op, i)
               /\ \A steps \in SUBSET (IoStep \ {"ready"}) :
                     /\ Busy(r, op, i, steps)' <=> Busy(r, op, i, steps)
                     /\ Busy(r, op, i, steps) => done'[r] = done[r]
    BY <2>4 DEF Finished, Positions, Busy, Current
  <2>6. QED
    BY <1>1, <2>1, <2>2, <2>3, <2>5, BoxFrame
<1>6. Beginning' => AllBoxes'
  BY SessionBegins, PTL
<1>7. ASSUME ~Live, Live' PROVE AllBoxes'
  <2>1. \E p \in Partner : tag'[p] = "conn" /\ pc'[p] # "gone"
    BY <1>1, <1>7, LiveChange
  <2>2. Beginning'
    BY <1>4, <1>7, <2>1 DEF Beginning
  <2>3. QED
    BY <1>6, <2>2
<1>8. ASSUME Live' PROVE \A p \in Partner, i \in Id : Owns(script, p, i) => BoxInv(p, i)'
  <2>1. CASE Live
    BY <1>5, <1>8, <2>1
  <2>2. CASE ~Live
    BY <1>7, <1>8, <2>2 DEF AllBoxes
  <2>3. QED
    BY <2>1, <2>2
<1>9. QED
  BY <1>1, <1>4, <1>8 DEF BoxesInv

\* Every step of the coupled programs keeps the invariant.
LEMMA FileInvStep ==
    ASSUME LeftoversRemoved, OneWay, UnreadRemoved, FileInv, [FileNext]_allVars
    PROVE  FileInv'
<1>1. ASSUME NEW p \in Partner, Exchange(p) PROVE FileInv'
  BY <1>1, ExchangeStep
<1>2. CASE Outside
  <2>1. IInv' /\ FileTypeOK' /\ ImportsMatchExports'
    BY <1>2, InvStep, Outsides, OutsideType, OutsideResults DEF FileInv
  <2>2. \A r \in Partner : ProgressInv(r)' /\ IoInv(r)'
    BY <1>2, OutsideProgress
  <2>3. BoxesInv'
    BY <1>2, <2>1, <2>2, OutsideBoxes
  <2>4. QED
    BY <2>1, <2>2, <2>3 DEF FileInv
<1>3. QED
  BY <1>1, <1>2, Outsides

\* The coupled programs begin with an empty folder, or without one.
LEMMA FileInitInv ==
    ASSUME FileInit
    PROVE  FileInv
<1>1. IInv
  BY InitInv DEF FileInit, IInv, Init, TypeOK, Step, FileStep, Tag, SyncTag, File
<1>2. FileTypeOK
  <2>1. 0 \in 0..MaxOps /\ \A S : <<>> \in Seq(S)
    BY FileAssumption
  <2>2. QED
    BY <1>1, <2>1 DEF FileInit, FileTypeOK, IInv, IoStep
<1>3. ASSUME NEW p \in Partner
      PROVE  /\ ProgressInv(p) /\ IoInv(p) /\ received[p] = <<>>
  <2>1. /\ session[p] = 0 /\ done[p] = 0 /\ io[p] = "ready" /\ received[p] = <<>>
        /\ tag[p] = "disconn"
    BY DEF FileInit, Init
  <2>2. QED
    BY <1>2, <2>1, ScriptType, ConstantAssumption DEF ProgressInv, IoInv
<1>4. NoData /\ ~Live
  BY DEF FileInit, Init, NoData, Exists, File, Live, Partner
<1>5. ImportsMatchExports
  <2>1. \A p \in Partner : 1..Len(received[p]) = {}
    BY <1>3
  <2>2. QED
    BY <2>1 DEF ImportsMatchExports
<1>6. QED
  BY <1>1, <1>2, <1>3, <1>4, <1>5 DEF FileInv, BoxesInv

-----------------------------------------------------------------------------

\* Whatever the partners export and import, and how often they connect, the files of
\* the communication folder are the ones the invariant says.
THEOREM FileInvariant ==
    ASSUME LeftoversRemoved, OneWay, UnreadRemoved
    PROVE  FileSpec => []FileInv
<1>1. FileInit => FileInv
  BY FileInitInv
<1>2. FileInv /\ [FileNext]_allVars => FileInv'
  BY FileInvStep
<1>3. QED
  BY <1>1, <1>2, PTL DEF FileSpec

\* The k-th ImportData() under an identifier returns what the partner's k-th
\* ExportData() under it sent in the same session, complete, for programs of any
\* length: nothing is lost, repeated, reordered, torn or left over.
THEOREM ImportsMatchExportsAlways ==
    ASSUME LeftoversRemoved, OneWay, UnreadRemoved
    PROVE  FileSpec => []ImportsMatchExports
<1>1. FileInv => ImportsMatchExports
  BY DEF FileInv
<1>2. QED
  BY <1>1, FileInvariant, PTL

\* While data is exchanged the file-system calls of exports and imports never fail,
\* and neither do the ones of Connect() and Disconnect(): a partner is only ever
\* stopped by settings that differ.
THEOREM OnlyMismatchFailsWithData ==
    ASSUME LeftoversRemoved, OneWay, UnreadRemoved
    PROVE  FileSpec => []OnlyMismatchFails
<1>1. FileInv => OnlyMismatchFails
  BY InvariantImplies DEF FileInv
<1>2. QED
  BY <1>1, FileInvariant, PTL

\* Once both partners are back from Disconnect() no file is left, data included: the
\* partner that reads a message removes it, or the primary removes the folder.
THEOREM NothingLeftOverWithData ==
    ASSUME LeftoversRemoved, OneWay, UnreadRemoved
    PROVE  FileSpec => []NothingLeftOver
<1>1. ASSUME FileInv PROVE NothingLeftOver
  <2>1. CASE pc["primary"] = "idle"
    BY <1>1, <2>1, InvariantImplies, ConstantAssumption DEF FileInv, BoxesInv, Live, NoData
  <2>2. CASE pc["primary"] # "idle"
    BY <2>2 DEF NothingLeftOver, At, Partner
  <2>3. QED
    BY <2>1, <2>2
<1>2. QED
  BY <1>1, FileInvariant, PTL

\* The exchange of data leaves the handshake alone.
THEOREM LifeCycleWithData ==
    ASSUME LeftoversRemoved, OneWay, UnreadRemoved
    PROVE  FileSpec => [](FreshPartnerInfo /\ SameVerdict /\ ConnectedTogether)
<1>1. FileInv => FreshPartnerInfo /\ SameVerdict /\ ConnectedTogether
  BY InvariantImplies DEF FileInv
<1>2. QED
  BY <1>1, FileInvariant, PTL

\* The synchronisations around the exchange of data are the ones of a barrier.
THEOREM RefinementWithData ==
    ASSUME LeftoversRemoved, OneWay, UnreadRemoved
    PROVE  FileSpec => ImplementsRendezvous
<1>1. ASSUME FileInv, FileInv', [FileNext]_allVars
      PROVE  [Barrier!Next]_(Barrier!vars)
  <2>1. CASE Outside
    BY <1>1, <2>1, Outsides, BarrierStep DEF FileInv
  <2>2. ASSUME NEW p \in Partner, Exchange(p) PROVE UNCHANGED Barrier!vars
    <3>1. UNCHANGED <<run, session, pc, tag>>
      BY <2>2 DEF Exchange, memory
    <3>2. QED
      BY <3>1 DEF Barrier!vars, SyncsEntered, SyncsLeft
  <2>3. QED
    BY <1>1, <2>1, <2>2, Outsides
<1>2. FileInit => Barrier!Init
  BY BarrierInit DEF FileInit
<1>3. QED
  BY <1>1, <1>2, FileInvariant, PTL DEF FileSpec, ImplementsRendezvous, Barrier!Spec

-----------------------------------------------------------------------------
(* The exchange under an identifier is a mailbox.                           *)

\* There is a message in the box that the importer has not taken yet.
Holds(p, i) == Full(p, i) /\ ~Busy(Other(p), "import", i, {"remove"})

\* A complete file of this execution.
Lying(i) ==
    /\ Exists(<<i, "data">>)
    /\ dir[<<i, "data">>].run \in {run, Partial.run}
    /\ ~useAux \/ Exists(<<i, "avail">>)

WaitingInv ==
    /\ Live => \A p \in Partner, i \in Id : Owns(script, p, i) =>
                  Waiting(i) = IF Holds(p, i) THEN dir[<<i, "data">>] ELSE Absent
    /\ (\A p \in Partner : io[p] = "ready") =>
          \A i \in Id : Waiting(i) = IF Lying(i) THEN dir[<<i, "data">>] ELSE Absent

\* What the mailbox contains, in terms of the invariant.
LEMMA WaitingIs == FileInv => WaitingInv
<1> SUFFICES ASSUME FileInv PROVE WaitingInv
  OBVIOUS
<1> DEFINE reading(i, steps) == \E p \in Partner :
              /\ At(p, "connected") \/ status[p] = "crashed"
              /\ io[p] \in steps
              /\ Current(p).id = i
           announced(i) == ~useAux \/ Exists(<<i, "avail">>) \/ reading(i, {"read"})
<1>1. ASSUME NEW i
      PROVE  Waiting(i) = IF /\ Exists(<<i, "data">>)
                             /\ dir[<<i, "data">>].run \in {run, Partial.run}
                             /\ announced(i) /\ ~reading(i, {"remove"})
                          THEN dir[<<i, "data">>] ELSE Absent
  BY DEF Waiting
<1>2. ASSUME \A p \in Partner : io[p] = "ready", NEW i \in Id
      PROVE  Waiting(i) = IF Lying(i) THEN dir[<<i, "data">>] ELSE Absent
  <2>1. ~reading(i, {"read"}) /\ ~reading(i, {"remove"})
    BY <1>2
  <2>2. QED
    BY <1>1, <2>1 DEF Lying
<1>3. ASSUME Live, NEW p \in Partner, NEW i \in Id, Owns(script, p, i)
      PROVE  Waiting(i) = IF Holds(p, i) THEN dir[<<i, "data">>] ELSE Absent
  <2>1. BoxInv(p, i) /\ IInv /\ FileTypeOK /\ Other(p) \in Partner
    BY <1>3, OtherPartner DEF FileInv, BoxesInv
  <2>2. ASSUME NEW s \in {"read", "remove"}
        PROVE  reading(i, {s}) <=> Busy(Other(p), "import", i, {s})
    <3>1. ASSUME NEW r \in Partner, io[r] = s, Current(r).id = i
          PROVE  r = Other(p) /\ Busy(r, "import", i, {s})
      <4>1. done[r] < Len(script[r]) /\ Current(r).op = "import"
        BY <3>1 DEF FileInv, IoInv
      <4>2. Uses(script, r, "import", i) /\ Current(r) = [op |-> "import", id |-> i]
        BY <2>1, <3>1, <4>1, CurrentType DEF Uses, Current
      <4>3. r # p
        BY <1>3, <4>2 DEF Owns
      <4>4. QED
        BY <3>1, <4>2, <4>3 DEF Busy, Partner, Other
    <3>2. ASSUME Busy(Other(p), "import", i, {s}) PROVE reading(i, {s})
      <4>1. io[Other(p)] = s /\ Current(Other(p)).id = i
        BY <3>2 DEF Busy
      <4>2. pc[Other(p)] = "connected"
        BY <2>1, <4>1 DEF FileInv, IoInv
      <4>3. ~Dirty
        BY <2>1, <4>2, InSession
      <4>4. Verdict(Other(p)) /\ TypeOK
        BY <2>1, <4>3 DEF IInv, CleanInv
      <4>5. status[Other(p)] \in {"running", "crashed"}
        BY <2>1, <4>2, <4>4 DEF Verdict, TypeOK
      <4>6. QED
        BY <2>1, <4>1, <4>2, <4>5 DEF At
    <3>3. QED
      BY <3>1, <3>2
  <2>3. CASE Full(p, i)
    <3>1. Exists(<<i, "data">>) /\ dir[<<i, "data">>].run = run
      BY <2>1, <2>3 DEF BoxInv, IsExport
    <3>2. announced(i) \/ reading(i, {"remove"})
      <4>1. Exists(<<i, "avail">>) <=>
               useAux /\ ~Busy(Other(p), "import", i, {"read", "remove"})
        BY <2>1, <2>3 DEF BoxInv
      <4>2. Busy(Other(p), "import", i, {"read", "remove"}) =>
               \/ Busy(Other(p), "import", i, {"read"})
               \/ Busy(Other(p), "import", i, {"remove"})
        BY DEF Busy
      <4>3. useAux \in BOOLEAN
        BY <2>1, FileAssumption DEF FileTypeOK
      <4>4. QED
        BY <2>2, <4>1, <4>2, <4>3
    <3>3. QED
      BY <1>1, <2>2, <2>3, <3>1, <3>2 DEF Holds
  <2>4. CASE ~Full(p, i)
    <3>1. ~Exists(<<i, "avail">>) /\ (Exists(<<i, "data">>) => useAux)
      BY <2>1, <2>4 DEF BoxInv
    <3>2. ~reading(i, {"read"})
      <4>1. ~Busy(Other(p), "import", i, {"read"})
        BY <2>1, <2>4 DEF BoxInv, Busy
      <4>2. QED
        BY <2>2, <4>1
    <3>3. QED
      BY <1>1, <2>4, <3>1, <3>2 DEF Holds
  <2>5. QED
    BY <2>3, <2>4
<1>4. QED
  BY <1>2, <1>3 DEF WaitingInv

\* What may happen to the message waiting under one identifier.
MayChange(i) ==
    \/ Waiting(i)' = Waiting(i)
    \/ Waiting(i)' = Absent
    \/ Waiting(i) = Absent /\ Waiting(i)' \in Message /\ Waiting(i)'.run = run

\* Such a change is a step of the mailbox.
LEMMA MailboxMove ==
    ASSUME run' = run, NEW i \in Id, \A j \in Id : j # i => Waiting(j)' = Waiting(j),
           MayChange(i)
    PROVE  [Box!Next]_(Box!vars)
<1> DEFINE box == [j \in Id |-> Waiting(j)]
           new == [j \in Id |-> Waiting(j)']
<1> SUFFICES Box!Next \/ (run' = run /\ new = box)
  BY DEF Box!vars
<1>1. CASE Waiting(i)' = Waiting(i)
  BY <1>1
<1>2. CASE Waiting(i)' = Absent /\ Waiting(i) # Absent
  <2>1. box[i] # Absent /\ new = [box EXCEPT ![i] = Absent]
    BY <1>2
  <2>2. Box!Take(i)
    BY <2>1 DEF Box!Take
  <2>3. QED
    BY <2>2 DEF Box!Next
<1>3. CASE Waiting(i) = Absent /\ Waiting(i)' \in Message /\ Waiting(i)'.run = run
  <2>1. PICK m \in Message : m = Waiting(i)' /\ m.run = run
    BY <1>3
  <2>2. box[i] = Absent /\ new = [box EXCEPT ![i] = m]
    BY <1>3, <2>1
  <2>3. Box!Put(i)
    BY <2>1, <2>2 DEF Box!Put
  <2>4. QED
    BY <2>3 DEF Box!Next
<1>4. QED
  BY <1>1, <1>2, <1>3 DEF MayChange

\* A message in the box is one the exporter has written.
LEMMA ExportIsMessage ==
    ASSUME TypeOK, Shape, NEW m, NEW p, NEW i, NEW k, IsExport(m, p, i, k)
    PROVE  m \in Message /\ m.run = run
<1>1. m \in Message \cup {Partial} /\ m.run = run /\ run >= 1 /\ run \in Nat
  BY FileAssumption DEF IsExport, TypeOK, Shape
<1>2. Partial.run = 0
  BY DEF Partial
<1>3. QED
  BY <1>1, <1>2

\* An export puts its message into an empty box.
LEMMA ExportMails ==
    ASSUME FileInv, FileInv', OneWay, NEW p \in Partner, Exchange(p), NEW i,
           i = Current(p).id, Current(p).op = "export", WaitingInv, WaitingInv'
    PROVE  MayChange(i)
<1>1. /\ Moves(p) /\ At(p, "connected") /\ done[p] < Len(script[p]) /\ script' = script
      /\ run' = run /\ Live /\ Live'
  BY ExchangeStep, MovesLifeCycle DEF Moves, program, memory
<1>2. /\ i \in Id /\ BoxInv(p, i) /\ Owns(script, p, i)
      /\ \A steps : Busy(p, "export", i, steps) <=> io[p] \in steps
  <2>1. Owns(script, p, i)
    BY <1>1, Owner DEF FileInv
  <2>2. QED
    BY <1>1, <2>1, ExportFacts
<1>3. ~Full(p, i)
  <2>1. CASE io[p] = "ready"
    <3>1. SendGone(p)
      BY <2>1 DEF Exchange, SendOpen, SendWrite, SendShow, ReceiveWait, ReceiveRmAvail,
                  ReceiveRead, ReceiveRemove, Doing
    <3>2. QED
      BY <1>2, <3>1 DEF SendGone, DataPath, BoxInv
  <2>2. CASE io[p] # "ready"
    <3>1. io[p] \in {"open", "write", "show"}
      BY <2>2 DEF FileInv, IoInv
    <3>2. QED
      BY <1>2, <3>1 DEF BoxInv
  <2>3. QED
    BY <2>1, <2>2
<1>4. Waiting(i) = Absent
  BY <1>1, <1>2, <1>3 DEF WaitingInv, Holds
<1>5. /\ BoxInv(p, i)'
      /\ Waiting(i)' = IF Holds(p, i)' THEN dir'[<<i, "data">>] ELSE Absent
  BY <1>1, <1>2 DEF FileInv, BoxesInv, WaitingInv
<1>6. CASE Holds(p, i)'
  <2>1. IsExport(dir[<<i, "data">>], p, i, Finished(Other(p), "import", i))'
    BY <1>5, <1>6 DEF BoxInv, Holds
  <2>2. PICK c, n : c = dir'[<<i, "data">>] /\ n = Finished(Other(p), "import", i)'
    OBVIOUS
  <2>3. IsExport(c, p, i, n)
    BY <1>1, <2>1, <2>2, MovesTerms
  <2>4. c \in Message /\ c.run = run
    BY <2>3, ExportIsMessage DEF FileInv, IInv
  <2>5. QED
    BY <1>4, <1>5, <1>6, <2>2, <2>4 DEF MayChange
<1>7. CASE ~Holds(p, i)'
  BY <1>5, <1>7 DEF MayChange
<1>8. QED
  BY <1>6, <1>7

\* An import takes the message that is in the box.
LEMMA ImportMails ==
    ASSUME FileInv, FileInv', OneWay, NEW p \in Partner, Exchange(p), NEW i,
           i = Current(p).id, Current(p).op = "import", WaitingInv, WaitingInv'
    PROVE  MayChange(i)
<1>1. /\ Moves(p) /\ At(p, "connected") /\ done[p] < Len(script[p]) /\ script' = script
      /\ run' = run /\ Live /\ Live'
  BY ExchangeStep, MovesLifeCycle DEF Moves, program, memory
<1>2. PICK q \in Partner : q = Other(p) /\ Other(q) = p
  BY OtherPartner
<1>3. /\ i \in Id /\ BoxInv(q, i) /\ Owns(script, q, i) /\ TypeOK
      /\ Current(p) = [op |-> "import", id |-> i] /\ <<i, "data">> \in File
      /\ \A steps : Busy(p, "import", i, steps) <=> io[p] \in steps
  <2>1. Owns(script, q, i)
    BY <1>1, <1>2, Owner DEF FileInv
  <2>2. QED
    BY <1>1, <1>2, <2>1, ImportFacts
<1>4. /\ Waiting(i) = IF Holds(q, i) THEN dir[<<i, "data">>] ELSE Absent
      /\ Waiting(i)' = IF Holds(q, i)' THEN dir'[<<i, "data">>] ELSE Absent
      /\ BoxInv(q, i)'
  BY <1>1, <1>3 DEF FileInv, BoxesInv, WaitingInv
<1>5. CASE ReceiveRemove(p)
  <2>1. dir' = [dir EXCEPT ![<<i, "data">>] = Absent]
    BY <1>5 DEF ReceiveRemove, DataPath
  <2>2. dir'[<<i, "data">>] = Absent
    BY <1>3, <2>1 DEF TypeOK
  <2>3. QED
    BY <1>4, <2>2 DEF MayChange
<1>6. CASE ReceiveWait(p) \/ ReceiveRmAvail(p) \/ ReceiveRead(p)
  <2>1. /\ done' = done /\ dir'[<<i, "data">>] = dir[<<i, "data">>]
        /\ io[p] \in {"ready", "rm_avail", "read"}
    BY <1>3, <1>6
       DEF ReceiveWait, ReceiveRmAvail, ReceiveRead, Doing, Stay, Fail, ioVars, AvailPath,
           TypeOK
  <2>2. Full(q, i)' <=> Full(q, i)
    BY <1>1, <1>2, <1>3, <2>1, ImportTerms
  <2>3. ~Busy(p, "import", i, {"remove"})
    BY <1>3, <2>1
  <2>4. Holds(q, i)' => Holds(q, i)
    BY <1>2, <2>2, <2>3 DEF Holds
  <2>5. QED
    BY <1>4, <2>1, <2>4 DEF MayChange
<1>7. QED
  BY <1>5, <1>6
     DEF Exchange, SendGone, SendOpen, SendWrite, SendShow, Doing

\* Every step of an export or import is a step of the mailbox.
LEMMA ExchangeMails ==
    ASSUME FileInv, FileInv', OneWay, NEW p \in Partner, Exchange(p), WaitingInv,
           WaitingInv'
    PROVE  [Box!Next]_(Box!vars)
<1>1. /\ Moves(p) /\ done[p] < Len(script[p]) /\ script' = script /\ run' = run
      /\ Live /\ Live' /\ FileTypeOK
  BY ExchangeStep, MovesLifeCycle DEF Moves, program, memory, FileInv
<1>2. PICK i \in Id : i = Current(p).id
  BY <1>1, CurrentType
<1>3. MayChange(i)
  BY <1>1, <1>2, CurrentType, ExportMails, ImportMails
<1>4. ASSUME NEW j \in Id, j # i PROVE Waiting(j)' = Waiting(j)
  <2>1. PICK r \in Partner : Owns(script, r, j)
    BY <1>1 DEF OneWay, FileTypeOK
  <2>2. Other(r) \in Partner /\ {"remove"} \in SUBSET (IoStep \ {"ready"})
    BY OtherPartner DEF IoStep
  <2>3. /\ dir'[<<j, "data">>] = dir[<<j, "data">>]
        /\ Finished(r, "export", j)' = Finished(r, "export", j)
        /\ Finished(Other(r), "import", j)' = Finished(Other(r), "import", j)
        /\ Busy(Other(r), "import", j, {"remove"})' <=>
              Busy(Other(r), "import", j, {"remove"})
    BY <1>1, <1>2, <1>4, <2>2, OtherTerms
  <2>4. Holds(r, j)' <=> Holds(r, j)
    BY <2>3 DEF Holds, Full
  <2>5. QED
    BY <1>1, <2>1, <2>3, <2>4 DEF WaitingInv
<1>5. QED
  BY <1>1, <1>3, <1>4, MailboxMove

\* Outside the exchange data files are only ever removed, one by one.
LEMMA OutsideData ==
    ASSUME TypeOK, Shape, Outside
    PROVE  \E f : \A g \in DataFile : \/ dir'[g] = dir[g]
                                      \/ g = f /\ dir'[g] = Absent
<1>1. ASSUME NEW p \in Partner, Protocol(p), ~RemoveEntry(p), NEW g \in DataFile
      PROVE  dir'[g] = dir[g]
  BY <1>1, DataFrame
<1>2. ASSUME NEW p \in Partner, RemoveEntry(p)
      PROVE  \E f : \A g \in DataFile : dir'[g] = dir[g] \/ (g = f /\ dir'[g] = Absent)
  <2>1. PICK f \in File : dir' = [dir EXCEPT ![f] = Absent]
    BY <1>2 DEF RemoveEntry
  <2>2. \A g \in DataFile : dir'[g] = dir[g] \/ (g = f /\ dir'[g] = Absent)
    BY <2>1 DEF TypeOK, File
  <2>3. QED
    BY <2>2
<1>3. ASSUME dir' = dir
      PROVE  \E f : \A g \in DataFile : dir'[g] = dir[g] \/ (g = f /\ dir'[g] = Absent)
  BY <1>3
<1>4. ASSUME NEW p \in Partner, FileConnect(p) \/ FileDisconnect(p) \/ Crash(p)
      PROVE  dir' = dir
  BY <1>4 DEF FileConnect, FileDisconnect, Connect, Disconnect, Crash
<1>5. FileRestart \/ UNCHANGED allVars => dir' = dir
  BY DEF FileRestart, Restart, allVars, vars
<1>6. QED
  BY <1>1, <1>2, <1>3, <1>4, <1>5 DEF Outside

\* Nobody is inside an export or import outside a session.
LEMMA QuietOutside == FileInv /\ ~Live => \A p \in Partner : io[p] = "ready"
BY InSession DEF FileInv, IoInv

\* During a session a message that has been announced is one of this execution.
LEMMA AnnouncedInSession == FileInv /\ OneWay /\ Live => AnnouncedInv
<1> SUFFICES ASSUME FileInv, OneWay, Live, NEW i \in Id, Exists(<<i, "data">>),
                    useAux => Exists(<<i, "avail">>)
             PROVE  dir[<<i, "data">>].run \in 1..run
  BY DEF AnnouncedInv
<1>1. FileTypeOK /\ TypeOK /\ Shape /\ BoxesInv
  BY DEF FileInv, IInv
<1>2. PICK p \in Partner : Owns(script, p, i)
  BY <1>1 DEF OneWay, FileTypeOK
<1>3. BoxInv(p, i)
  BY <1>1, <1>2 DEF BoxesInv
<1>4. Full(p, i)
  BY <1>3 DEF BoxInv
<1>5. dir[<<i, "data">>].run = run
  BY <1>3, <1>4 DEF BoxInv, IsExport
<1>6. QED
  BY <1>1, <1>5 DEF TypeOK, Shape

\* Every step keeps what has been announced complete.
LEMMA AnnouncedStep ==
    ASSUME OneWay, FileInv, FileInv', AnnouncedInv, [FileNext]_allVars
    PROVE  AnnouncedInv'
<1>1. FileInv' /\ OneWay' /\ Live' => AnnouncedInv'
  BY AnnouncedInSession, PTL
<1>2. OneWay'
  BY DEF OneWay, Owns, Uses
<1>3. CASE Live'
  BY <1>1, <1>2, <1>3
<1>4. CASE ~Live'
  <2>1. ASSUME NEW p \in Partner, Exchange(p) PROVE FALSE
    BY <1>4, <2>1, ExchangeStep, MovesLifeCycle
  <2>2. Outside /\ TypeOK /\ Shape
    BY <2>1, Outsides DEF FileInv, IInv
  <2>3. PICK f : \A g \in DataFile : dir'[g] = dir[g] \/ (g = f /\ dir'[g] = Absent)
    BY <2>2, OutsideData
  <2>4. useAux' = useAux /\ run \in Nat /\ run' \in {run, run + 1}
    <3>1. useAux' = useAux /\ [Next]_vars
      BY <2>2, Outsides DEF program
    <3>2. ASSUME NEW p \in Partner, Operation(p) PROVE run' = run
      BY <2>2, <3>2, Counts
    <3>3. run' \in {run, run + 1}
      BY <3>1, <3>2 DEF Next, Crash, Restart, Terminated, vars, memory
    <3>4. QED
      BY <2>2, <3>1, <3>3 DEF TypeOK
  <2>5. ASSUME NEW i \in Id, Exists(<<i, "data">>)', useAux' => Exists(<<i, "avail">>)'
        PROVE  dir'[<<i, "data">>].run \in 1..run'
    <3>1. /\ dir'[<<i, "data">>] = dir[<<i, "data">>] /\ Exists(<<i, "data">>)
          /\ useAux => Exists(<<i, "avail">>)
      BY <2>3, <2>4, <2>5, DataNames DEF Exists
    <3>2. dir[<<i, "data">>].run \in 1..run
      BY <3>1 DEF AnnouncedInv
    <3>3. QED
      BY <2>4, <3>1, <3>2
  <2>6. QED
    BY <2>5 DEF AnnouncedInv
<1>5. QED
  BY <1>3, <1>4

\* The steps outside the exchange remove messages, or start a new execution.
LEMMA OutsideMails ==
    ASSUME FileInv, FileInv', OneWay, AnnouncedInv, Outside, WaitingInv, WaitingInv'
    PROVE  [Box!Next]_(Box!vars)
<1>1. FileTypeOK /\ TypeOK /\ Shape /\ UNCHANGED <<useAux, script>>
  BY Outsides DEF FileInv, IInv, program
<1>2. CASE FileRestart
  <2>1. /\ run' = run + 1 /\ dir' = dir /\ \A p \in Partner : io'[p] = "ready"
    BY <1>2 DEF FileRestart, Restart
  <2>2. ASSUME NEW i \in Id PROVE Waiting(i)' = Absent
    <3>1. Waiting(i)' = IF Lying(i)' THEN dir'[<<i, "data">>] ELSE Absent
      BY <2>1 DEF WaitingInv
    <3>2. Partial.run = 0 /\ run \in Nat
      BY <1>1 DEF Partial, TypeOK
    <3>3. ~Lying(i)'
      <4>1. SUFFICES ASSUME Lying(i)' PROVE FALSE
        OBVIOUS
      <4>2. /\ Exists(<<i, "data">>) /\ (useAux => Exists(<<i, "avail">>))
            /\ dir[<<i, "data">>].run \in {run + 1, 0}
        BY <1>1, <2>1, <3>2, <4>1 DEF Lying, Exists
      <4>3. dir[<<i, "data">>].run \in 1..run
        BY <4>2 DEF AnnouncedInv
      <4>4. QED
        BY <3>2, <4>2, <4>3
    <3>4. QED
      BY <3>1, <3>3
  <2>3. Box!Restart
    BY <2>1, <2>2 DEF Box!Restart
  <2>4. QED
    BY <2>3 DEF Box!Next
<1>3. CASE ~FileRestart
  <2>1. run' = run /\ io' = io
    <3>1. ASSUME NEW p \in Partner, Protocol(p), UNCHANGED fileVars
          PROVE  run' = run /\ io' = io
      BY <1>1, <3>1, ProtocolFacts DEF fileVars, ioVars
    <3>2. ASSUME NEW p \in Partner, FileConnect(p) PROVE run' = run /\ io' = io
      BY <3>2 DEF FileConnect, Connect
    <3>3. ASSUME NEW p \in Partner, FileDisconnect(p) PROVE run' = run /\ io' = io
      BY <3>3 DEF FileDisconnect, Disconnect, memory, fileVars, ioVars
    <3>4. ASSUME NEW p \in Partner, Crash(p), UNCHANGED fileVars
          PROVE  run' = run /\ io' = io
      BY <3>4 DEF Crash, memory, fileVars, ioVars
    <3>5. ASSUME UNCHANGED allVars PROVE run' = run /\ io' = io
      BY <3>5 DEF allVars, vars, fileVars, ioVars
    <3>6. QED
      BY <1>3, <3>1, <3>2, <3>3, <3>4, <3>5 DEF Outside
  <2>2. ASSUME \A i \in Id : Waiting(i)' = Waiting(i) PROVE UNCHANGED Box!vars
    BY <2>1, <2>2 DEF Box!vars
  <2>3. CASE Live /\ Live'
    <3>1. UNCHANGED ioVars /\ \A f \in DataFile : dir'[f] = dir[f]
      BY <1>1, <2>3, LiveChange
    <3>2. ASSUME NEW i \in Id PROVE Waiting(i)' = Waiting(i)
      <4>1. PICK p \in Partner : Owns(script, p, i)
        BY <1>1 DEF OneWay, FileTypeOK
      <4>2. Holds(p, i)' <=> Holds(p, i)
        BY <1>1, <3>1 DEF Holds, Full, Finished, Positions, Busy, Current, ioVars
      <4>3. dir'[<<i, "data">>] = dir[<<i, "data">>]
        BY <3>1, DataNames
      <4>4. QED
        BY <1>1, <2>3, <4>1, <4>2, <4>3 DEF WaitingInv
    <3>3. QED
      BY <2>2, <3>2
  <2>4. CASE ~(Live /\ Live')
    <3>1. FileInv' /\ ~Live' => (\A p \in Partner : io[p] = "ready")'
      BY QuietOutside, PTL
    <3>2. \A p \in Partner : io[p] = "ready" /\ io'[p] = "ready"
      BY <2>1, <2>4, <3>1, QuietOutside
    <3>3. PICK f : \A g \in DataFile : dir'[g] = dir[g] \/ (g = f /\ dir'[g] = Absent)
      BY <1>1, OutsideData
    <3>4. \A i \in Id :
             /\ Waiting(i) = IF Lying(i) THEN dir[<<i, "data">>] ELSE Absent
             /\ Waiting(i)' = IF Lying(i)' THEN dir'[<<i, "data">>] ELSE Absent
      BY <3>2 DEF WaitingInv
    <3>5. ASSUME NEW i \in Id PROVE MayChange(i)
      <4>1. ASSUME Lying(i)' PROVE Lying(i) /\ dir'[<<i, "data">>] = dir[<<i, "data">>]
        BY <1>1, <2>1, <3>3, <4>1, DataNames DEF Lying, Exists
      <4>2. QED
        BY <3>4, <4>1 DEF MayChange
    <3>6. ASSUME NEW i \in Id, f \notin Files(i) PROVE Waiting(i)' = Waiting(i)
      <4>1. \A k \in {"data", "avail"} : dir'[<<i, k>>] = dir[<<i, k>>]
        BY <3>3, <3>6, DataNames DEF Files
      <4>2. Lying(i)' <=> Lying(i)
        BY <1>1, <2>1, <4>1 DEF Lying, Exists
      <4>3. QED
        BY <3>4, <4>1, <4>2
    <3>7. CASE \E i \in Id : f \in Files(i)
      <4>1. PICK i \in Id : f \in Files(i)
        BY <3>7
      <4>2. \A j \in Id : j # i => f \notin Files(j)
        BY <4>1 DEF Files
      <4>3. QED
        BY <2>1, <3>5, <3>6, <4>1, <4>2, MailboxMove
    <3>8. CASE ~\E i \in Id : f \in Files(i)
      BY <2>2, <3>6, <3>8
    <3>9. QED
      BY <3>7, <3>8
  <2>5. QED
    BY <2>3, <2>4
<1>4. QED
  BY <1>2, <1>3

\* Under every identifier the data, .avail and temporary files are a mailbox for one
\* message, in every execution: a message is put into an empty box, is complete when
\* it can be seen, and is taken once.
THEOREM MailboxRefinement ==
    ASSUME LeftoversRemoved, OneWay, UnreadRemoved
    PROVE  FileSpec => ImplementsMailbox
<1>1. FileInit => AnnouncedInv /\ Box!Init
  <2>1. ASSUME FileInit PROVE AnnouncedInv /\ Box!Init
    <3>1. \A i \in Id : ~Exists(<<i, "data">>)
      BY <2>1, DataNames DEF FileInit, Init, Exists
    <3>2. \A i \in Id : Waiting(i) = Absent
      BY <3>1 DEF Waiting
    <3>3. QED
      BY <2>1, <3>1, <3>2 DEF AnnouncedInv, Box!Init, FileInit, Init
  <2>2. QED
    BY <2>1
<1>2. FileInv /\ FileInv' /\ AnnouncedInv /\ [FileNext]_allVars => AnnouncedInv'
  BY AnnouncedStep
<1>3. ASSUME FileInv, FileInv', AnnouncedInv, WaitingInv, WaitingInv', [FileNext]_allVars
      PROVE  [Box!Next]_(Box!vars)
  BY <1>3, Outsides, OutsideMails, ExchangeMails
<1>4. QED
  BY <1>1, <1>2, <1>3, WaitingIs, FileInvariant, PTL
     DEF FileSpec, ImplementsMailbox, Box!Spec
=============================================================================
