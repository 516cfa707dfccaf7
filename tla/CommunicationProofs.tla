------------------------ MODULE CommunicationProofs ------------------------
(***************************************************************************)
(* The theorems about the life cycle of a connection.  First come lemmas:  *)
(* what the inductive invariant says about the calls a partner is about to *)
(* make, and that every step of a partner preserves it.                    *)
(***************************************************************************)
EXTENDS CommunicationInv, Integers, TLAPS

\* The two partners of a connection and their names.
LEMMA OtherPartner ==
    /\ Other("primary") = "secondary"
    /\ Other("secondary") = "primary"
    /\ \A p \in Partner : Other(p) \in Partner /\ Other(p) # p /\ Other(Other(p)) = p
BY DEF Other, Partner

\* The names of the synchronisation and compatibility files.
LEMMA FileNames ==
    ASSUME NEW p \in Partner, NEW t \in Tag, NEW k \in {"data", "avail"}
    PROVE  <<p, t, k>> \in ProtocolFile /\ <<p, t, k>> \in File
BY DEF ProtocolFile, File

\* What GetMyInfo() returns.
LEMMA InfoType ==
    ASSUME TypeOK, NEW p \in Partner
    PROVE  MyInfo(p) \in Info
BY DEF TypeOK, MyInfo, Info

\* A file that has been written is not absent.
LEMMA MyInfoPresent ==
    ASSUME TypeOK, NEW p \in Partner
    PROVE  MyInfo(p) # Absent
BY InfoType, ConstantAssumption

\* A partner that creates a file finds the folder the primary created.
LEMMA FolderThere ==
    ASSUME IInv, ~Dirty, NEW p \in Partner,
           pc[p] \in {"open", "perms", "avail"}
    PROVE  folder
<1> USE OtherPartner DEF IInv, TypeOK, Shape, CleanInv, Partner, Tag, SyncTag,
                         Step, FileStep
<1>1. CASE p = "primary"
  BY <1>1, ConstantAssumption DEF FolderInv
<1>2. CASE p = "secondary" /\ tag[p] \in SyncTag
  BY <1>2, ConstantAssumption DEF FolderInv, SyncOrder, In
<1>3. CASE p = "secondary" /\ tag[p] = "handshake"
  BY <1>3, ConstantAssumption DEF FolderInv, BarrierInv, SyncsLeft, SyncsEntered
<1> QED
  BY <1>1, <1>2, <1>3

\* Until I have announced my information the other partner is at most waiting.
LEMMA BeforeAnnouncing ==
    ASSUME IInv, ~Dirty, NEW p \in Partner, tag[p] = "handshake",
           pc[p] \in {"gone", "open", "perms", "avail"}
    PROVE  \/ In(Other(p), "conn", {"gone"})
           \/ In(Other(p), "handshake", {"gone", "open", "perms", "avail", "wait"})
<1> DEFINE q == Other(p)
<1> USE DEF IInv, TypeOK, Shape, CleanInv, Partner, Tag, SyncTag, Step, FileStep
<1>1. /\ q \in Partner /\ Other(q) = p
      /\ session[p] \in Nat \ {0} /\ session[q] \in Nat
  BY OtherPartner
<1>2. ~Announced(p)
  BY DEF Announced, Disconnecting, In
<1>3. SyncsLeft(p) = 2 * session[p] - 1 /\ SyncsEntered(p) = SyncsLeft(p)
  BY DEF SyncsLeft, SyncsEntered
<1>4. SyncsLeft(q) <= SyncsLeft(p)
  BY <1>1, <1>3 DEF BarrierInv
<1>5. ~Found(q)
  <2>1. Found(q) => Announced(p) \/ SyncsLeft(p) = SyncsLeft(q) + 1
    BY <1>1 DEF HandshakeOrder
  <2>2. Found(q) => SyncsLeft(q) = 2 * session[q] - 1
    BY DEF Found, Disconnecting, In, SyncsLeft
  <2>3. QED
    BY <1>1, <1>2, <1>3, <2>1, <2>2
<1>6. /\ SyncsLeft(p) <= SyncsEntered(q)
      /\ SyncsLeft(p) > SyncsLeft(q) => tag[q] \in SyncTag /\ pc[q] = "gone"
  BY <1>1 DEF BarrierInv
<1>7. QED
  BY <1>1, <1>3, <1>4, <1>5, <1>6
     DEF Found, Disconnecting, In, SyncsLeft, SyncsEntered

\* While the primary writes its synchronisation file the secondary waits for it.
LEMMA BeforeAnswer ==
    ASSUME IInv, ~Dirty, NEW t \in SyncTag,
           In("primary", t, {"open", "perms", "avail"})
    PROVE  ~In("secondary", t, {"open", "perms", "avail", "gone"})
<1> USE DEF IInv, TypeOK, Shape, CleanInv, Partner, Tag, SyncTag, Step, FileStep
<1>1. ~In("secondary", t, {"open", "perms", "avail"})
  BY DEF SyncOrder, In
<1>2. ~In("secondary", t, {"gone"})
  BY DEF SyncOrder, In, SyncsLeft
<1>3. QED
  BY <1>1, <1>2 DEF In

\* AddFilePermissions() finds the file that was just written: nobody removes a
\* file before it is announced.
LEMMA MineThere ==
    ASSUME IInv, ~Dirty, NEW p \in Partner, pc[p] \in {"perms", "avail"}
    PROVE  Exists(Mine(p, "data"))
<1> USE
            DEF IInv, TypeOK, Shape, CleanInv, Partner, Tag, SyncTag, Step,
                FileStep, Mine
<1>1. CASE tag[p] \in SyncTag /\ p = "secondary"
  BY <1>1 DEF SyncFiles, SyncOrder, In
<1>2. CASE tag[p] \in SyncTag /\ p = "primary"
  BY <1>2, BeforeAnswer DEF SyncFiles, In
<1>3. CASE tag[p] = "handshake"
  BY <1>3, BeforeAnnouncing DEF HandshakeFiles, Wrote, In
<1> QED
  BY <1>1, <1>2, <1>3

\* RemovePath() and the reading of the compatibility file find the files of the
\* other partner.
LEMMA TheirsThere ==
    ASSUME IInv, ~Dirty, NEW p \in Partner
    PROVE  /\ pc[p] = "rm_avail" => Exists(Theirs(p, "avail"))
           /\ pc[p] \in {"rm_avail", "load", "rm_data"} => Exists(Theirs(p, "data"))
<1> USE OtherPartner
            DEF IInv, TypeOK, Shape, CleanInv, Partner, Tag, SyncTag, Step,
                FileStep, Theirs
<1>1. CASE tag[p] \in SyncTag
  BY <1>1 DEF SyncFiles, SyncOrder, In
<1>2. CASE tag[p] = "handshake"
  BY <1>2
     DEF HandshakeOrder, HandshakeFiles, Found, Wrote, Announced,
         Disconnecting, BarrierInv, SyncsLeft, SyncsEntered, In
<1> QED
  BY <1>1, <1>2

-----------------------------------------------------------------------------

\* What every step inside SynchronizeAll or the exchange of the handshake has
\* in common: it moves one partner and leaves the barrier as it is.
LEMMA FileStepFrame ==
    ASSUME IInv, ~Dirty, NEW p \in Partner,
           NEW s \in FileStep \cup {"check", "connected"},
           pc[p] \in FileStep \cup {"check"},
           pc[p] \in {"gone", "check"} \/ s \in {"load", "check", "connected"}
              => tag[p] = "handshake",
           pc' = [pc EXCEPT ![p] = s],
           \A f \in DataFile : dir'[f] = dir[f],
           UNCHANGED <<run, session, setting, trace, tag, folder, listing>>
    PROVE  /\ ~Dirty' /\ Shape' /\ BarrierInv' /\ FolderInv' /\ DataInv'
           /\ \A r \in Partner : /\ SyncsLeft(r)' = SyncsLeft(r)
                                 /\ SyncsEntered(r)' = SyncsEntered(r)
                                 /\ MyInfo(r)' = MyInfo(r)
           /\ pc'[p] = s /\ pc'[Other(p)] = pc[Other(p)]
           /\ \A r \in Partner : tag[r] \in Tag /\ pc[r] \in Step
<1>1. /\ TypeOK /\ Shape /\ BarrierInv /\ FolderInv /\ DataInv
      /\ Other(p) \in Partner /\ Other(p) # p /\ Other(Other(p)) = p
  BY OtherPartner DEF IInv, CleanInv
<1>2. /\ pc'[p] = s /\ pc'[Other(p)] = pc[Other(p)]
      /\ \A r \in Partner : tag[r] \in Tag /\ pc[r] \in Step
  BY <1>1 DEF TypeOK
<1>3. ~Dirty' /\ Shape'
  BY <1>1, <1>2 DEF Dirty, Cleaned, Shape, Partner, FileStep
<1>4. \A r \in Partner : /\ SyncsLeft(r)' = SyncsLeft(r)
                         /\ SyncsEntered(r)' = SyncsEntered(r)
                         /\ MyInfo(r)' = MyInfo(r)
  BY <1>1 DEF SyncsLeft, SyncsEntered, MyInfo, TypeOK, FileStep, SyncTag, Tag
<1>5. BarrierInv'
  BY <1>1, <1>2, <1>4 DEF BarrierInv, Partner, Tag, SyncTag
<1>6. FolderInv'
  BY <1>1, <1>2 DEF FolderInv, Partner, FileStep
<1>7. DataInv'
  BY <1>1, <1>2 DEF DataInv, Exists, Partner, FileStep
<1>8. QED
  BY <1>2, <1>3, <1>4, <1>5, <1>6, <1>7


\* The steps that write, announce, find and remove a file.
LEMMA FileActionStep ==
    ASSUME IInv, ~Dirty, NEW p \in Partner,
           \/ Open(p) \/ Perms(p) \/ Avail(p) \/ Wait(p) \/ RmAvail(p) \/ RmData(p)
           \/ Gone(p) /\ tag[p] = "handshake"
    PROVE  ~Dirty' /\ Shape' /\ CleanInv'
<1> DEFINE q == Other(p)
           s == CASE pc[p] = "open"     -> "perms"
                  [] pc[p] = "perms"    -> "avail"
                  [] pc[p] = "avail"    -> IF p = "secondary" /\ tag[p] \in SyncTag
                                           THEN "gone" ELSE "wait"
                  [] pc[p] = "wait"     -> "rm_avail"
                  [] pc[p] = "rm_avail" -> IF tag[p] = "handshake" THEN "load"
                                           ELSE "rm_data"
                  [] pc[p] = "rm_data"  -> IF tag[p] = "handshake" THEN "check"
                                           ELSE IF p = "primary" THEN "gone"
                                           ELSE "open"
                  [] pc[p] = "gone"     -> "open"
           written(f) == \/ pc[p] = "open" /\ f = Mine(p, "data")
                         \/ pc[p] = "avail" /\ f = Mine(p, "avail")
           removed(f) == \/ pc[p] = "rm_avail" /\ f = Theirs(p, "avail")
                         \/ pc[p] = "rm_data" /\ f = Theirs(p, "data")
<1>1. /\ TypeOK /\ Shape /\ CleanInv
      /\ pc[p] \in {"open", "perms", "avail", "wait", "rm_avail", "rm_data", "gone"}
      /\ pc[p] = "gone" => tag[p] = "handshake"
      /\ q \in Partner /\ q # p /\ Other(q) = p /\ p \in {"primary", "secondary"}
      /\ HandshakeFiles(p) /\ HandshakeFiles(q) /\ Verdict(p) /\ Verdict(q)
      /\ HandshakeOrder(p) /\ HandshakeOrder(q) /\ tag[p] \in Tag
  BY OtherPartner DEF Open, Perms, Avail, Wait, RmAvail, RmData, Gone, At,
                      IInv, CleanInv, Partner, TypeOK
<1>2. /\ pc' = [pc EXCEPT ![p] = s]
      /\ UNCHANGED <<memory, status, tag, folder, listing>>
      /\ pc[p] = "wait" => Exists(<<q, tag[p], "avail">>)
      /\ dir' = CASE pc[p] = "open" -> [dir EXCEPT ![Mine(p, "data")] = MyInfo(p)]
                  [] pc[p] = "avail" -> [dir EXCEPT ![Mine(p, "avail")] = MyInfo(p)]
                  [] pc[p] = "rm_avail" -> [dir EXCEPT ![Theirs(p, "avail")] = Absent]
                  [] pc[p] = "rm_data" -> [dir EXCEPT ![Theirs(p, "data")] = Absent]
                  [] OTHER -> dir
  <2>1. /\ pc[p] \in {"open", "perms", "avail"} => folder
        /\ pc[p] = "perms" => Exists(Mine(p, "data"))
        /\ pc[p] = "rm_avail" => Exists(Theirs(p, "avail"))
        /\ pc[p] = "rm_data" => Exists(Theirs(p, "data"))
    BY FolderThere, MineThere, TheirsThere
  <2>2. QED
    BY <1>1, <2>1 DEF Open, Perms, Avail, Wait, RmAvail, RmData, Gone, At, Goto,
                      Throw, Create, RemovePath, Theirs, memory
<1>3. /\ \A f \in File : Exists(f)' <=> written(f) \/ (Exists(f) /\ ~removed(f))
      /\ \A f \in File : Exists(f)' => dir'[f] = IF written(f) THEN MyInfo(p) ELSE dir[f]
      /\ \A f \in DataFile : dir'[f] = dir[f]
  <2>1. \A k \in {"data", "avail"} : Mine(p, k) \in ProtocolFile /\ Theirs(p, k) \in ProtocolFile
    BY <1>1, FileNames DEF Mine, Theirs
  <2>2. MyInfo(p) # Absent
    BY <1>1, MyInfoPresent
  <2>3. QED
    BY <1>1, <1>2, <2>1, <2>2, ConstantAssumption DEF TypeOK, Exists, File
<1>4. \A r \in Partner, t \in Tag, k \in {"data", "avail"} :
         Exists(<<r, t, k>>)' <=>
            \/ pc[p] = "open" /\ r = p /\ t = tag[p] /\ k = "data"
            \/ pc[p] = "avail" /\ r = p /\ t = tag[p] /\ k = "avail"
            \/ /\ Exists(<<r, t, k>>)
               /\ ~(pc[p] = "rm_avail" /\ r = q /\ t = tag[p] /\ k = "avail")
               /\ ~(pc[p] = "rm_data" /\ r = q /\ t = tag[p] /\ k = "data")
  BY <1>1, <1>3, FileNames DEF Mine, Theirs
<1>5. /\ ~Dirty' /\ Shape' /\ BarrierInv' /\ FolderInv' /\ DataInv'
      /\ \A r \in Partner : /\ SyncsLeft(r)' = SyncsLeft(r)
                            /\ SyncsEntered(r)' = SyncsEntered(r)
                            /\ MyInfo(r)' = MyInfo(r)
      /\ pc'[p] = s /\ pc'[q] = pc[q] /\ tag' = tag
      /\ tag[q] \in Tag /\ pc[q] \in Step
  <2>1. /\ s \in FileStep \cup {"check", "connected"}
        /\ pc[p] \in FileStep \cup {"check"}
        /\ pc[p] \in {"gone", "check"} \/ s \in {"load", "check", "connected"}
              => tag[p] = "handshake"
    BY <1>1 DEF FileStep
  <2>2. UNCHANGED <<run, session, setting, trace, tag, folder, listing>>
    BY <1>2 DEF memory
  <2>3. pc' = [pc EXCEPT ![p] = s] /\ \A f \in DataFile : dir'[f] = dir[f]
    BY <1>2, <1>3
  <2> HIDE DEF s
  <2>4. QED
    BY <1>1, <2>1, <2>2, <2>3, FileStepFrame
<1>6. ASSUME NEW t \in SyncTag PROVE SyncOrder(t)' /\ SyncFiles(t)'
  <2>1. SyncOrder(t) /\ SyncFiles(t)
    BY <1>1 DEF CleanInv
  <2> USE DEF SyncOrder, SyncFiles, In, SyncTag, Tag, Partner
  <2>2. SyncOrder(t)'
    BY <1>1, <1>2, <1>5, <2>1, OtherPartner
  <2>3. SyncFiles(t)'
    BY <1>1, <1>2, <1>4, <1>5, <2>1, OtherPartner, BeforeAnswer
  <2>4. QED
    BY <2>2, <2>3
<1>7. HandshakeOrder(p)' /\ HandshakeOrder(q)'
  <2> USE DEF Announced, Found, Disconnecting, In, FileStep, SyncTag, Tag
  <2>1. HandshakeOrder(p)'
    BY <1>1, <1>2, <1>5 DEF HandshakeOrder, HandshakeFiles
  <2>2. HandshakeOrder(q)'
    BY <1>1, <1>5 DEF HandshakeOrder
  <2>3. QED
    BY <2>1, <2>2
<1>8. \A r \in {p, q} : LET f == <<r, "handshake", "data">>
                         IN  Exists(f)' => dir'[f] = MyInfo(r)
  BY <1>1, <1>3, FileNames DEF HandshakeFiles, Tag, Mine, Theirs
<1>9. HandshakeFiles(p)'
  <2>1. tag[p] = "handshake" /\ pc[p] \in {"gone", "open", "perms", "avail"} =>
           \/ In(q, "conn", {"gone"})
           \/ In(q, "handshake", {"gone", "open", "perms", "avail", "wait"})
    BY BeforeAnnouncing
  <2>2. QED
    BY <1>1, <1>4, <1>5, <1>8, <2>1
         DEF HandshakeFiles, Wrote, Announced, Disconnecting, In, FileStep, SyncTag, Tag
<1>10. HandshakeFiles(q)'
  <2>1. In(p, "conn", {"gone"})' => tag[q] = "conn"
    BY <1>1, <1>5, OtherPartner DEF CleanInv, SyncOrder, In, SyncTag
  <2>2. QED
    BY <1>1, <1>4, <1>5, <1>8, <2>1
         DEF HandshakeFiles, Wrote, Announced, Disconnecting, In, FileStep, SyncTag, Tag
<1>11. Verdict(p)' /\ Verdict(q)'
  <2>1. /\ Loaded(p)' <=> Loaded(p)
        /\ Accepted(p)' <=> Accepted(p)
        /\ Loaded(q)' <=> Loaded(q)
        /\ Accepted(q)' <=> Accepted(q)
        /\ pc'[p] # "connected"
    BY <1>1, <1>5 DEF Loaded, Accepted, Disconnecting, In, FileStep, SyncTag, Tag
  <2>2. /\ UNCHANGED <<run, session, setting, trace, partnerInfo, status, tag>>
        /\ MyInfo(p)' = MyInfo(p) /\ MyInfo(q)' = MyInfo(q) /\ pc'[q] = pc[q]
    BY <1>1, <1>2, <1>5 DEF memory
  <2>3. Verdict(p)'
    BY <1>1, <2>1, <2>2 DEF Verdict
  <2>4. Verdict(q)'
    BY <1>1, <2>1, <2>2 DEF Verdict
  <2>5. QED
    BY <2>3, <2>4
<1>12. QED
  BY <1>1, <1>4, <1>5, <1>6, <1>7, <1>9, <1>10, <1>11 DEF CleanInv, Partner

\* Who reads or has read a compatibility file reads the one of this session.
LEMMA SameSession ==
    ASSUME IInv, ~Dirty, NEW p \in Partner, tag[p] = "handshake",
           Wrote(Other(p)) \/ Found(p)
    PROVE  session[Other(p)] = session[p] /\ Wrote(Other(p))
<1> DEFINE q == Other(p)
<1>1. /\ TypeOK /\ CleanInv /\ q \in Partner /\ Other(q) = p
      /\ session[p] \in Nat /\ session[q] \in Nat
  BY OtherPartner DEF IInv, TypeOK
<1>2. SyncsLeft(p) = 2 * session[p] - 1 /\ SyncsEntered(p) = SyncsLeft(p)
  BY DEF SyncsLeft, SyncsEntered, SyncTag
<1>3. SyncsLeft(p) <= SyncsEntered(q) /\ SyncsLeft(q) <= SyncsEntered(p)
  BY <1>1 DEF CleanInv, BarrierInv
<1>4. Found(p) => Announced(q)
  BY <1>1, <1>2, <1>3 DEF CleanInv, HandshakeOrder
<1>5. Wrote(q)
  BY <1>4 DEF Announced, Wrote
<1>6. /\ SyncsLeft(q) = 2 * session[q] - 1
      /\ SyncsEntered(q) \in {2 * session[q] - 1, 2 * session[q]}
  BY <1>1, <1>5 DEF Wrote, Disconnecting, In, SyncsLeft, SyncsEntered, FileStep
<1>7. QED
  BY <1>1, <1>2, <1>3, <1>5, <1>6

\* A step that changes no more than the status of the partners and the files of
\* the exchange of data.
LEMMA StatusFrame ==
    ASSUME IInv, ~Dirty, UNCHANGED <<memory, pc, tag, folder>>, DataInv',
           \A f \in ProtocolFile : dir'[f] = dir[f],
           \A r \in Partner : status'[r] = "failed" =>
              \/ status[r] = "failed"
              \/ /\ tag[r] = "handshake" /\ pc[r] # "connected"
                 /\ session[Other(r)] = session[r]
                 /\ \/ setting[r] # setting[Other(r)]
                    \/ trace[r] # trace[Other(r)]
    PROVE  ~Dirty' /\ Shape' /\ CleanInv'
<1>1. /\ TypeOK /\ Shape /\ CleanInv
      /\ \A r \in Partner, t \in Tag, k \in {"data", "avail"} :
            dir'[<<r, t, k>>] = dir[<<r, t, k>>]
  BY FileNames DEF IInv
<1>2. ~Dirty' /\ Shape'
  BY <1>1 DEF Dirty, Cleaned, Shape, memory
<1>3. \A r \in Partner : /\ SyncsLeft(r)' = SyncsLeft(r)
                         /\ SyncsEntered(r)' = SyncsEntered(r)
  BY DEF SyncsLeft, SyncsEntered, memory
<1>4. BarrierInv' /\ FolderInv'
  BY <1>1, <1>3, OtherPartner DEF CleanInv, BarrierInv, FolderInv, memory
<1>5. \A t \in SyncTag : SyncOrder(t)' /\ SyncFiles(t)'
  BY <1>1, <1>3 DEF CleanInv, SyncOrder, SyncFiles, In, Exists, Partner, Tag
<1>6. \A r \in Partner : HandshakeOrder(r)'
  BY <1>1, <1>3, OtherPartner
     DEF CleanInv, HandshakeOrder, Announced, Found, Disconnecting, In
<1>7. ASSUME NEW r \in Partner PROVE HandshakeFiles(r)'
  <2>1. /\ HandshakeFiles(r)
        /\ \A k \in {"data", "avail"} :
              dir'[<<r, "handshake", k>>] = dir[<<r, "handshake", k>>]
    BY <1>1 DEF CleanInv, Tag
  <2>2. QED
    BY <2>1 DEF HandshakeFiles, Wrote, Announced, Disconnecting, In, Exists, MyInfo,
                memory
<1>8. \A r \in Partner : Verdict(r)'
  BY <1>1 DEF CleanInv, Verdict, Loaded, Accepted, Disconnecting, In, MyInfo, memory
<1>9. QED
  BY <1>2, <1>4, <1>5, <1>6, <1>7, <1>8 DEF CleanInv

\* A partner that is refused by the handshake leaves everything as it is.
LEMMA FailedStep ==
    ASSUME IInv, ~Dirty, NEW p \in Partner, tag[p] = "handshake",
           pc[p] # "connected", session[Other(p)] = session[p],
           setting[p] # setting[Other(p)] \/ trace[p] # trace[Other(p)],
           status' = [status EXCEPT ![p] = "failed"],
           UNCHANGED <<memory, pc, tag, folder, dir, listing>>
    PROVE  ~Dirty' /\ Shape' /\ CleanInv'
<1>1. \A r \in Partner : r # p => status'[r] = status[r]
  BY DEF IInv, TypeOK
<1>2. DataInv'
  BY DEF IInv, CleanInv, DataInv, Exists
<1>3. QED
  BY <1>1, <1>2, StatusFrame

\* Reading the compatibility file in the exchange of HandShake().
LEMMA LoadStep ==
    ASSUME IInv, ~Dirty, NEW p \in Partner, Load(p)
    PROVE  ~Dirty' /\ Shape' /\ CleanInv'
<1> DEFINE q == Other(p)
           f == <<q, "handshake", "data">>
<1>1. /\ TypeOK /\ Shape /\ CleanInv /\ pc[p] = "load" /\ tag[p] = "handshake"
      /\ q \in Partner /\ q # p /\ Other(q) = p /\ p \in {"primary", "secondary"}
      /\ HandshakeFiles(p) /\ HandshakeFiles(q) /\ Verdict(p) /\ Verdict(q)
      /\ HandshakeOrder(p) /\ HandshakeOrder(q)
  BY OtherPartner DEF Load, At, IInv, CleanInv, Shape, Partner
<1>2. Exists(f) /\ f \in File /\ Theirs(p, "data") = f
  BY <1>1, TheirsThere, FileNames DEF Theirs, Tag
<1>3. /\ dir[f] = MyInfo(q) /\ MyInfo(q) # Absent
      /\ session[q] = session[p] /\ Wrote(q)
  BY <1>1, <1>2, SameSession, MyInfoPresent DEF HandshakeFiles
<1>4. CASE pc' = [pc EXCEPT ![p] = "rm_data"]
  <2>1. /\ partnerInfo' = [partnerInfo EXCEPT ![p] = MyInfo(q)]
        /\ UNCHANGED <<run, status, tag, session, setting, trace, folder, dir, listing>>
    BY <1>1, <1>2, <1>3, <1>4 DEF Load, At, Goto, Throw, TypeOK
  <2>2. /\ ~Dirty' /\ Shape' /\ BarrierInv' /\ FolderInv' /\ DataInv'
        /\ \A r \in Partner : /\ SyncsLeft(r)' = SyncsLeft(r)
                              /\ SyncsEntered(r)' = SyncsEntered(r)
                              /\ MyInfo(r)' = MyInfo(r)
        /\ pc'[p] = "rm_data" /\ pc'[q] = pc[q]
        /\ \A r \in Partner : tag[r] \in Tag /\ pc[r] \in Step
    <3>1. pc[p] \in FileStep \cup {"check"}
      BY <1>1 DEF FileStep
    <3>2. "rm_data" \in FileStep \cup {"check", "connected"}
      BY DEF FileStep
    <3>3. UNCHANGED <<run, session, setting, trace, tag, folder, dir, listing>>
      BY <2>1
    <3>4. QED
      BY <1>1, <1>4, <2>1, <3>1, <3>2, <3>3, FileStepFrame
  <2>3. \A t \in SyncTag : SyncOrder(t)' /\ SyncFiles(t)'
    BY <1>1, <2>1, <2>2, OtherPartner
       DEF CleanInv, SyncOrder, SyncFiles, In, Exists, SyncTag, Partner
  <2>4. HandshakeOrder(p)' /\ HandshakeOrder(q)'
    BY <1>1, <2>1, <2>2 DEF HandshakeOrder, Announced, Found, Disconnecting, In
  <2>5. HandshakeFiles(p)' /\ HandshakeFiles(q)'
    BY <1>1, <2>1, <2>2
       DEF HandshakeFiles, Wrote, Announced, Disconnecting, In, Exists
  <2>6. Verdict(p)'
    <3>1. partnerInfo'[p] = MyInfo(q)
      BY <1>1, <2>1 DEF TypeOK
    <3>2. ~Accepted(p)'
      BY <1>1, <2>1, <2>2 DEF Accepted, Disconnecting, In
    <3>3. QED
      BY <1>1, <1>3, <2>1, <2>2, <3>1, <3>2 DEF Verdict, MyInfo
  <2>7. Verdict(q)'
    BY <1>1, <2>1, <2>2 DEF Verdict, Loaded, Accepted, Disconnecting, In, TypeOK
  <2>8. QED
    BY <1>1, <2>2, <2>3, <2>4, <2>5, <2>6, <2>7 DEF CleanInv, Partner
<1>5. CASE pc' # [pc EXCEPT ![p] = "rm_data"]
  <2>1. /\ status' = [status EXCEPT ![p] = "failed"]
        /\ dir[f].trace # trace[p]
        /\ UNCHANGED <<memory, pc, tag, folder, dir, listing>>
    <3>1. dir = [dir EXCEPT ![f] = dir[f]]
      BY <1>1, <1>2 DEF TypeOK
    <3>2. QED
      BY <1>1, <1>2, <1>5, <3>1 DEF Load, At, Goto, Throw, memory
  <2>2. trace[q] # trace[p]
    BY <1>3, <2>1 DEF MyInfo
  <2>3. QED
    BY <1>1, <1>3, <2>1, <2>2, FailedStep
<1>6. QED
  BY <1>4, <1>5

\* The compatibility checks of HandShake().
LEMMA CheckStep ==
    ASSUME IInv, ~Dirty, NEW p \in Partner, Check(p)
    PROVE  ~Dirty' /\ Shape' /\ CleanInv'
<1> DEFINE q == Other(p)
<1>1. /\ TypeOK /\ Shape /\ CleanInv /\ pc[p] = "check" /\ tag[p] = "handshake"
      /\ q \in Partner /\ q # p /\ Other(q) = p /\ p \in {"primary", "secondary"}
      /\ HandshakeFiles(p) /\ HandshakeFiles(q) /\ Verdict(p) /\ Verdict(q)
      /\ HandshakeOrder(p) /\ HandshakeOrder(q)
  BY OtherPartner DEF Check, At, IInv, CleanInv, Shape, Partner
<1>2. session[q] = session[p] /\ Wrote(q)
  BY <1>1, SameSession DEF Found, In
<1>3. /\ partnerInfo[p] = MyInfo(q)
      /\ partnerInfo[p].setting = setting[q] /\ partnerInfo[p].trace = trace[q]
  BY <1>1, <1>2 DEF Verdict, Loaded, In, MyInfo
<1>4. CASE setting[p] = setting[q] /\ trace[p] = trace[q]
  <2>1. /\ pc' = [pc EXCEPT ![p] = "connected"]
        /\ UNCHANGED <<memory, run, status, tag, session, setting, trace, folder, dir,
                       listing>>
    BY <1>3, <1>4 DEF Check, Goto, memory
  <2>2. /\ ~Dirty' /\ Shape' /\ BarrierInv' /\ FolderInv' /\ DataInv'
        /\ \A r \in Partner : /\ SyncsLeft(r)' = SyncsLeft(r)
                              /\ SyncsEntered(r)' = SyncsEntered(r)
                              /\ MyInfo(r)' = MyInfo(r)
        /\ pc'[p] = "connected" /\ pc'[q] = pc[q]
        /\ \A r \in Partner : tag[r] \in Tag /\ pc[r] \in Step
    <3>1. pc[p] \in FileStep \cup {"check"}
      BY <1>1 DEF FileStep
    <3>2. "connected" \in FileStep \cup {"check", "connected"}
      BY DEF FileStep
    <3>3. UNCHANGED <<run, session, setting, trace, tag, folder, dir, listing>>
      BY <2>1
    <3>4. QED
      BY <1>1, <1>4, <2>1, <3>1, <3>2, <3>3, FileStepFrame
  <2>3. \A t \in SyncTag : SyncOrder(t)' /\ SyncFiles(t)'
    BY <1>1, <2>1, <2>2, OtherPartner
       DEF CleanInv, SyncOrder, SyncFiles, In, Exists, SyncTag, Partner
  <2>4. HandshakeOrder(p)' /\ HandshakeOrder(q)'
    BY <1>1, <2>1, <2>2 DEF HandshakeOrder, Announced, Found, Disconnecting, In
  <2>5. HandshakeFiles(p)' /\ HandshakeFiles(q)'
    BY <1>1, <2>1, <2>2
       DEF HandshakeFiles, Wrote, Announced, Disconnecting, In, Exists
  <2>6. Verdict(p)' /\ Verdict(q)'
    <3>1. /\ Loaded(q)' <=> Loaded(q)
          /\ Accepted(q)' <=> Accepted(q)
          /\ Loaded(p)
      BY <1>1, <2>1, <2>2 DEF Loaded, Accepted, Disconnecting, In
    <3>2. status[p] # "failed"
      BY DEF Check, At
    <3>3. QED
      BY <1>1, <1>4, <2>1, <2>2, <3>1, <3>2 DEF Verdict, memory
  <2>7. QED
    BY <1>1, <2>2, <2>3, <2>4, <2>5, <2>6 DEF CleanInv, Partner
<1>5. CASE ~(setting[p] = setting[q] /\ trace[p] = trace[q])
  <2>1. /\ status' = [status EXCEPT ![p] = "failed"]
        /\ UNCHANGED <<memory, pc, tag, folder, dir, listing>>
    BY <1>3, <1>5 DEF Check, Throw
  <2>2. QED
    BY <1>1, <1>2, <1>5, <2>1, FailedStep
<1>6. QED
  BY <1>4, <1>5

\* Outside the primary's synchronisations and handshake there are no files but
\* the data remove_all() has found.
LEMMA NoFiles ==
    ASSUME IInv, ~Dirty, pc["primary"] \in {"idle", "remove_all", "create_dir"}
    PROVE  \A f \in ProtocolFile : ~Exists(f)
<1>1. TypeOK /\ Shape /\ CleanInv
  BY DEF IInv
<1>2. "primary" \in Partner /\ "secondary" \in Partner /\ tag["primary"] \in SyncTag
  BY <1>1 DEF Partner, Shape, SyncTag
<1>3. \A t \in SyncTag, k \in {"data", "avail"}, r \in Partner : ~Exists(<<r, t, k>>)
  BY <1>1, <1>2 DEF CleanInv, SyncFiles, In, Partner
<1>4. \A k \in {"data", "avail"}, r \in Partner : ~Exists(<<r, "handshake", k>>)
  BY <1>1, <1>2, OtherPartner
     DEF CleanInv, HandshakeFiles, Wrote, Announced, Disconnecting, In, Partner,
         FileStep, SyncTag
<1>5. QED
  BY <1>3, <1>4 DEF ProtocolFile, Tag, SyncTag, Partner

\* Partners in synchronisations of the same kind are in the same one.
LEMMA SameSync ==
    ASSUME IInv, ~Dirty, NEW t \in SyncTag, NEW p \in Partner,
           In(p, t, FileStep), In(Other(p), t, FileStep)
    PROVE  SyncsLeft(p) = SyncsLeft(Other(p))
<1> DEFINE q == Other(p)
<1>1. /\ q \in Partner /\ Other(q) = p
      /\ session[p] \in Nat /\ session[q] \in Nat
  BY OtherPartner DEF IInv, TypeOK
<1>2. SyncsLeft(p) <= SyncsEntered(q) /\ SyncsLeft(q) <= SyncsEntered(p)
  BY <1>1 DEF IInv, CleanInv, BarrierInv
<1>3. QED
  BY <1>1, <1>2 DEF SyncsLeft, SyncsEntered, In, SyncTag

\* Who has nothing to do but to leave a synchronisation has been answered.
LEMMA Leaving ==
    ASSUME IInv, ~Dirty, NEW t \in SyncTag, NEW p \in Partner, In(p, t, {"gone"})
    PROVE  \/ In(Other(p), t, {"wait", "rm_avail", "rm_data", "gone"})
           \/ SyncsLeft(Other(p)) = SyncsLeft(p) + 1
<1>1. SyncOrder(t) /\ p \in {"primary", "secondary"}
  BY DEF IInv, CleanInv, Partner
<1>2. QED
  BY <1>1, OtherPartner DEF SyncOrder, In


\* WaitUntilFileIsRemoved() at the end of a synchronisation.
LEMMA LeaveSyncStep ==
    ASSUME IInv, ~Dirty, NEW p \in Partner, Gone(p), tag[p] \in SyncTag
    PROVE  ~Dirty' /\ Shape' /\ CleanInv'
<1> DEFINE q == Other(p)
           s == IF tag[p] = "conn" THEN "gone"
                ELSE IF p = "primary" /\ CommInFolder THEN "remove_all" ELSE "idle"
           u == IF tag[p] = "conn" THEN "handshake" ELSE "disconn"
<1>1. /\ TypeOK /\ Shape /\ CleanInv
      /\ q \in Partner /\ q # p /\ Other(q) = p /\ p \in {"primary", "secondary"}
      /\ HandshakeFiles(p) /\ HandshakeFiles(q) /\ Verdict(p) /\ Verdict(q)
      /\ HandshakeOrder(p) /\ HandshakeOrder(q) /\ BarrierInv /\ FolderInv
  BY OtherPartner DEF IInv, CleanInv, Partner
<1>2. /\ pc[p] = "gone" /\ tag[p] \in SyncTag /\ ~Exists(<<p, tag[p], "data">>)
      /\ pc' = [pc EXCEPT ![p] = s] /\ tag' = [tag EXCEPT ![p] = u]
      /\ UNCHANGED <<memory, status, folder, dir>>
      /\ IF s = "remove_all" THEN listing' = {f \in File : Exists(f)}
         ELSE listing' = listing
  BY <1>1 DEF Gone, At, Goto, StartRemoveAll, Mine, memory, TypeOK, SyncTag
<1>3. /\ pc'[p] = s /\ pc'[q] = pc[q] /\ tag'[p] = u /\ tag'[q] = tag[q]
      /\ tag[p] \in Tag /\ tag[q] \in Tag /\ pc[q] \in Step
      /\ session[p] \in Nat /\ session[q] \in Nat /\ session' = session
  BY <1>1, <1>2 DEF TypeOK, memory
<1>4. session[p] > 0 /\ SyncsLeft(p) \in Int /\ SyncsLeft(q) \in Int
  BY <1>1, <1>2, <1>3 DEF Shape, SyncsLeft, Tag, SyncTag
<1>5. \A r \in Partner, t \in Tag, k \in {"data", "avail"} :
         Exists(<<r, t, k>>)' <=> Exists(<<r, t, k>>)
  BY <1>2 DEF Exists
<1>6. /\ SyncsLeft(p)' = SyncsLeft(p) + 1
      /\ SyncsEntered(p) = SyncsLeft(p) + 1 /\ SyncsEntered(p)' = SyncsEntered(p)
      /\ SyncsLeft(q)' = SyncsLeft(q) /\ SyncsEntered(q)' = SyncsEntered(q)
      /\ MyInfo(p)' = MyInfo(p) /\ MyInfo(q)' = MyInfo(q)
      /\ \/ SyncsEntered(q) = SyncsLeft(q)
         \/ /\ SyncsEntered(q) = SyncsLeft(q) + 1
            /\ tag[q] \in SyncTag /\ pc[q] \in FileStep
  BY <1>1, <1>2, <1>3, <1>4
     DEF SyncsLeft, SyncsEntered, MyInfo, memory, SyncTag, Tag, FileStep
<1>7. ~Dirty' /\ Shape'
  BY <1>1, <1>2, <1>3, <1>4
     DEF Dirty, Cleaned, Shape, SyncStart, SyncTag, Partner, memory
<1>8. /\ SyncsLeft(p) <= SyncsEntered(q) /\ SyncsLeft(q) <= SyncsEntered(p)
      /\ SyncsLeft(q) > SyncsLeft(p) => tag[p] \in SyncTag /\ pc[p] = "gone"
      /\ SyncsLeft(p) > SyncsLeft(q) => tag[q] \in SyncTag /\ pc[q] = "gone"
      /\ \A t \in SyncTag : In(q, t, FileStep) /\ In(p, t, FileStep) =>
            SyncsLeft(q) = SyncsLeft(p)
      /\ \A t \in SyncTag : In(q, t, {"gone"}) =>
            \/ In(p, t, {"wait", "rm_avail", "rm_data", "gone"})
            \/ SyncsLeft(p) = SyncsLeft(q) + 1
  BY <1>1, SameSync, Leaving DEF BarrierInv
<1>9. In(q, tag[p], {"gone"}) \/ SyncsLeft(q) = SyncsLeft(p) + 1
  BY <1>1, <1>2, <1>3, OtherPartner DEF CleanInv, SyncOrder, SyncFiles, In, SyncTag
<1>10. In(q, tag[p], {"gone"}) =>
          SyncsLeft(q) = SyncsLeft(p) /\ SyncsEntered(q) = SyncsLeft(q) + 1
  BY <1>2, <1>3, <1>8 DEF In, SyncTag, FileStep, SyncsEntered
<1>11. tag[p] = "disconn" => /\ tag[q] # "handshake" /\ ~In(q, "conn", {"gone"})
                             /\ Disconnecting(q) => In(q, "disconn", {"gone"})
  <2>1. /\ tag[p] = "disconn" => SyncsLeft(p) = 2 * session[p] - 1
        /\ tag[q] = "handshake" \/ Disconnecting(q) => SyncsLeft(q) = 2 * session[q] - 1
    BY <1>2, <1>3, <1>4 DEF SyncsLeft, FileStep, Disconnecting, In
  <2>2. tag[p] = "disconn" => ~In(q, "conn", {"gone"})
    BY <1>2, <1>4, <1>8, <1>9 DEF In, SyncTag
  <2>3. QED
    BY <1>2, <1>3, <1>4, <1>9, <2>1, <2>2 DEF In
<1>12. BarrierInv'
  <2>1. SyncsLeft(p)' <= SyncsEntered(q)' /\ SyncsLeft(q)' <= SyncsEntered(p)'
    BY <1>2, <1>3, <1>4, <1>6, <1>8, <1>9, <1>10 DEF In, SyncTag, FileStep
  <2>2. SyncsLeft(q)' > SyncsLeft(p)' => tag'[p] \in SyncTag /\ pc'[p] = "gone"
    BY <1>2, <1>3, <1>4, <1>6, <1>8
  <2>3. SyncsLeft(p)' > SyncsLeft(q)' => tag'[q] \in SyncTag /\ pc'[q] = "gone"
    BY <1>2, <1>3, <1>4, <1>6, <1>8, <1>9, <1>10 DEF In, SyncTag
  <2>4. QED
    BY <1>1, <2>1, <2>2, <2>3 DEF BarrierInv, Partner
<1>13. ASSUME NEW t \in SyncTag PROVE SyncOrder(t)' /\ SyncFiles(t)'
  <2>1. SyncOrder(t) /\ SyncFiles(t)
    BY <1>1 DEF CleanInv
  <2>2. SyncOrder(t)'
    <3>1. CASE tag[p] = "conn"
      BY <1>1, <1>2, <1>3, <1>4, <1>6, <1>8, <1>9, <1>10, <2>1, <3>1, OtherPartner
         DEF SyncOrder, In, SyncTag, FileStep
    <3>2. CASE tag[p] = "disconn"
      BY <1>1, <1>2, <1>3, <1>4, <1>6, <1>8, <1>9, <1>10, <2>1, <3>2, OtherPartner
         DEF SyncOrder, In, SyncTag, FileStep
    <3>3. QED
      BY <1>2, <3>1, <3>2 DEF SyncTag
  <2>3. SyncFiles(t)'
    BY <1>1, <1>2, <1>3, <1>5, <1>8, <2>1, OtherPartner, BeforeAnswer
       DEF SyncFiles, In, SyncTag, Tag, Partner
  <2>4. QED
    BY <2>2, <2>3
<1> USE DEF Wrote, Announced, Found, Loaded, Accepted, Disconnecting, In, FileStep,
            SyncTag, Tag
<1>14. HandshakeOrder(p)' /\ HandshakeOrder(q)'
  BY <1>1, <1>2, <1>3, <1>4, <1>6, <1>8, <1>9, <1>10, <1>11, <1>12
     DEF HandshakeOrder, BarrierInv
<1>15. HandshakeFiles(p)'
  <2>1. CASE tag[p] = "conn"
    <3>1. ~Wrote(p) /\ ~Announced(p) /\ ~Wrote(p)' /\ ~Announced(p)'
      BY <1>2, <1>3, <2>1
    <3> HIDE DEF Wrote, Announced, Disconnecting
    <3>2. QED
      BY <1>1, <1>5, <3>1 DEF HandshakeFiles
  <2>2. CASE tag[p] = "disconn"
    BY <1>1, <1>2, <1>3, <1>5, <1>6, <1>11, <2>2 DEF HandshakeFiles
  <2>3. QED
    BY <1>2, <2>1, <2>2
<1>16. HandshakeFiles(q)'
  BY <1>1, <1>2, <1>3, <1>4, <1>5, <1>6, <1>8, <1>11 DEF HandshakeFiles
<1>17. Verdict(p)' /\ Verdict(q)'
  BY <1>1, <1>2, <1>3, <1>6 DEF Verdict, memory
<1>18. FolderInv' /\ DataInv'
  BY <1>1, <1>2, <1>3, OtherPartner
     DEF FolderInv, DataInv, CleanInv, Exists, File, memory
<1>19. QED
  BY <1>1, <1>7, <1>12, <1>13, <1>14, <1>15, <1>16, <1>17, <1>18
     DEF CleanInv, Partner

\* Disconnect, and the primary's last steps with the folder.
LEMMA EnterSyncStep ==
    ASSUME IInv, ~Dirty, NEW p \in Partner,
           Disconnect(p) \/ RemoveFolder(p) \/ CreateFolder(p)
    PROVE  ~Dirty' /\ Shape' /\ CleanInv'
<1> DEFINE q == Other(p)
           s == CASE pc[p] = "connected"  -> SyncStart(p)
                  [] pc[p] = "remove_all" -> IF tag[p] = "conn" THEN "create_dir"
                                             ELSE "idle"
                  [] pc[p] = "create_dir" -> "open"
           u == IF pc[p] = "connected" THEN "disconn" ELSE tag[p]
<1>1. /\ TypeOK /\ Shape /\ CleanInv
      /\ q \in Partner /\ q # p /\ Other(q) = p /\ p \in {"primary", "secondary"}
      /\ HandshakeFiles(p) /\ HandshakeFiles(q) /\ Verdict(p) /\ Verdict(q)
      /\ HandshakeOrder(p) /\ HandshakeOrder(q) /\ BarrierInv /\ FolderInv
  BY OtherPartner DEF IInv, CleanInv, Partner
<1>2. /\ \/ pc[p] = "connected" /\ tag[p] = "handshake" /\ folder' = folder
         \/ /\ pc[p] = "remove_all" /\ tag[p] \in SyncTag /\ folder' = FALSE
            /\ p = "primary" /\ CommInFolder
         \/ /\ pc[p] = "create_dir" /\ tag[p] = "conn" /\ folder' = TRUE
            /\ p = "primary" /\ CommInFolder
      /\ pc' = [pc EXCEPT ![p] = s] /\ tag' = [tag EXCEPT ![p] = u]
      /\ pc[p] = "remove_all" => listing = {}
      /\ UNCHANGED <<memory, status, dir, listing>>
  <2>1. CASE Disconnect(p)
    BY <1>1, <2>1 DEF Disconnect, At, Goto, Shape, memory, TypeOK
  <2>2. CASE RemoveFolder(p)
    <3>1. p = "primary" /\ pc[p] = "remove_all" /\ tag[p] \in SyncTag /\ CommInFolder
      BY <1>1, <2>2 DEF RemoveFolder, At, Shape
    <3>2. \A f \in File : ~Exists(f)
      BY <1>1, <2>2, <3>1, NoFiles DEF RemoveFolder, CleanInv, DataInv, File
    <3>3. QED
      BY <1>1, <2>2, <3>1, <3>2 DEF RemoveFolder, Goto, memory, TypeOK
  <2>3. CASE CreateFolder(p)
    BY <1>1, <2>3 DEF CreateFolder, At, Goto, Shape, SyncStart, memory, TypeOK
  <2>4. QED
    BY <2>1, <2>2, <2>3
<1>3. /\ pc'[p] = s /\ pc'[q] = pc[q] /\ tag'[p] = u /\ tag'[q] = tag[q]
      /\ tag[p] \in Tag /\ tag[q] \in Tag /\ pc[q] \in Step
      /\ session[p] \in Nat /\ session[q] \in Nat /\ session' = session
  BY <1>1, <1>2 DEF TypeOK, memory
<1>4. session[p] > 0 /\ SyncsLeft(p) \in Int /\ SyncsLeft(q) \in Int
  BY <1>1, <1>2, <1>3 DEF Shape, SyncsLeft, Tag, SyncTag
<1>5. \A r \in Partner, t \in Tag, k \in {"data", "avail"} :
         Exists(<<r, t, k>>)' <=> Exists(<<r, t, k>>)
  BY <1>2 DEF Exists
<1>6. /\ SyncsLeft(p)' = SyncsLeft(p) /\ SyncsEntered(p) = SyncsLeft(p)
      /\ SyncsEntered(p)' \in {SyncsLeft(p), SyncsLeft(p) + 1}
      /\ SyncsLeft(q)' = SyncsLeft(q) /\ SyncsEntered(q)' = SyncsEntered(q)
      /\ MyInfo(p)' = MyInfo(p) /\ MyInfo(q)' = MyInfo(q)
  BY <1>1, <1>2, <1>3, <1>4
     DEF SyncsLeft, SyncsEntered, MyInfo, memory, SyncStart, SyncTag, Tag, FileStep
<1>7. ~Dirty' /\ Shape'
  BY <1>1, <1>2, <1>3, <1>4
     DEF Dirty, Cleaned, Shape, SyncStart, SyncTag, Partner, memory
<1>8. /\ SyncsLeft(p) <= SyncsEntered(q) /\ SyncsLeft(q) <= SyncsEntered(p)
      /\ SyncsLeft(q) > SyncsLeft(p) => tag[p] \in SyncTag /\ pc[p] = "gone"
      /\ SyncsLeft(p) > SyncsLeft(q) => tag[q] \in SyncTag /\ pc[q] = "gone"
      /\ \A t \in SyncTag : In(q, t, FileStep) /\ In(p, t, FileStep) =>
            SyncsLeft(q) = SyncsLeft(p)
      /\ \A t \in SyncTag : In(q, t, {"gone"}) =>
            \/ In(p, t, {"wait", "rm_avail", "rm_data", "gone"})
            \/ SyncsLeft(p) = SyncsLeft(q) + 1
  BY <1>1, SameSync, Leaving DEF BarrierInv
<1>9. BarrierInv'
  <2>1. SyncsLeft(p)' <= SyncsEntered(q)' /\ SyncsLeft(q)' <= SyncsEntered(p)'
    BY <1>2, <1>3, <1>4, <1>6, <1>8
  <2>2. /\ ~(SyncsLeft(q)' > SyncsLeft(p)')
        /\ SyncsLeft(p)' > SyncsLeft(q)' => tag'[q] \in SyncTag /\ pc'[q] = "gone"
    BY <1>2, <1>3, <1>4, <1>6, <1>8
  <2>3. QED
    BY <1>1, <2>1, <2>2 DEF BarrierInv, Partner
<1>10. ASSUME NEW t \in SyncTag PROVE SyncOrder(t)' /\ SyncFiles(t)'
  <2>1. SyncOrder(t) /\ SyncFiles(t)
    BY <1>1 DEF CleanInv
  <2>2. SyncOrder(t)'
    BY <1>1, <1>2, <1>3, <1>4, <1>6, <1>8, <2>1, OtherPartner
       DEF SyncOrder, In, SyncTag, SyncStart, FileStep
  <2>3. SyncFiles(t)'
    BY <1>1, <1>2, <1>3, <1>5, <1>8, <2>1, OtherPartner
       DEF SyncFiles, In, SyncTag, Tag, Partner, SyncStart
  <2>4. QED
    BY <2>2, <2>3
<1> USE DEF Wrote, Announced, Found, Loaded, Accepted, Disconnecting, In, FileStep,
            SyncTag, Tag, SyncStart
<1>11. HandshakeOrder(p)' /\ HandshakeOrder(q)'
  BY <1>1, <1>2, <1>3, <1>4, <1>6, <1>8, <1>9 DEF HandshakeOrder
<1>12. HandshakeFiles(p)' /\ HandshakeFiles(q)'
  <2>1. CASE pc[p] = "connected"
    <3>1. Wrote(p) /\ Announced(p) /\ Wrote(p)' /\ Announced(p)'
      BY <1>2, <1>3, <2>1
    <3>2. tag[p] = "handshake" /\ tag'[p] = "disconn"
      BY <1>2, <1>3, <2>1
    <3>3. Wrote(q)' = Wrote(q) /\ Announced(q)' = Announced(q)
      BY <1>3
    <3> HIDE DEF Wrote, Announced, Disconnecting, SyncStart
    <3>4. QED
      BY <1>1, <1>2, <1>3, <1>5, <1>6, <2>1, <3>1, <3>2, <3>3 DEF HandshakeFiles
  <2>2. CASE pc[p] # "connected"
    <3>1. ~Wrote(p) /\ ~Announced(p) /\ ~Wrote(p)' /\ ~Announced(p)'
      BY <1>2, <1>3, <2>2
    <3>2. /\ tag[p] # "handshake" /\ tag'[p] # "handshake"
          /\ pc[p] # "gone" /\ pc'[p] # "gone"
      BY <1>2, <1>3, <2>2
    <3>3. Wrote(q)' = Wrote(q) /\ Announced(q)' = Announced(q)
      BY <1>3
    <3> HIDE DEF Wrote, Announced, Disconnecting, SyncStart
    <3>4. QED
      BY <1>1, <1>5, <3>1, <3>2, <3>3 DEF HandshakeFiles
  <2>3. QED
    BY <2>1, <2>2
<1>14. Verdict(p)' /\ Verdict(q)'
  BY <1>1, <1>2, <1>3, <1>6 DEF Verdict, memory
<1>15. FolderInv' /\ DataInv'
  BY <1>1, <1>2, <1>3, OtherPartner DEF FolderInv, DataInv, CleanInv, Exists, memory
<1>16. QED
  BY <1>1, <1>7, <1>9, <1>10, <1>11, <1>12, <1>14, <1>15 DEF CleanInv, Partner

\* Entering Connect().
LEMMA ConnectStep ==
    ASSUME IInv, ~Dirty, NEW p \in Partner, Connect(p)
    PROVE  ~Dirty' /\ Shape' /\ CleanInv'
<1> DEFINE q == Other(p)
           s == IF p = "primary" /\ CommInFolder THEN "remove_all" ELSE SyncStart(p)
<1>1. /\ TypeOK /\ Shape /\ CleanInv
      /\ q \in Partner /\ q # p /\ Other(q) = p /\ p \in {"primary", "secondary"}
      /\ HandshakeFiles(p) /\ HandshakeFiles(q) /\ Verdict(p) /\ Verdict(q)
      /\ HandshakeOrder(p) /\ HandshakeOrder(q) /\ BarrierInv /\ FolderInv
  BY OtherPartner DEF IInv, CleanInv, Partner
<1>2. /\ pc[p] = "idle" /\ tag[p] = "disconn" /\ status[p] = "running"
      /\ pc' = [pc EXCEPT ![p] = s] /\ tag' = [tag EXCEPT ![p] = "conn"]
      /\ session' = [session EXCEPT ![p] = @ + 1]
      /\ partnerInfo' = [partnerInfo EXCEPT ![p] = Absent]
      /\ UNCHANGED <<run, status, folder, dir>>
      /\ IF s = "remove_all" THEN listing' = {f \in File : Exists(f)}
         ELSE listing' = listing
  BY <1>1 DEF Connect, At, Goto, StartRemoveAll, SyncStart, Shape
<1>3. /\ pc'[p] = s /\ pc'[q] = pc[q] /\ tag'[p] = "conn" /\ tag'[q] = tag[q]
      /\ tag[q] \in Tag /\ pc[q] \in Step
      /\ session[p] \in Nat /\ session[q] \in Nat
      /\ session'[p] = session[p] + 1 /\ session'[q] = session[q]
      /\ partnerInfo'[p] = Absent /\ partnerInfo'[q] = partnerInfo[q]
      /\ setting'[q] = setting[q] /\ trace'[q] = trace[q]
  BY <1>1, <1>2 DEF TypeOK, Connect
<1>4. /\ SyncsLeft(p) = 2 * session[p] /\ SyncsEntered(p) = 2 * session[p]
      /\ SyncsLeft(p)' = 2 * session[p]
      /\ SyncsEntered(p)' \in {2 * session[p], 2 * session[p] + 1}
      /\ SyncsLeft(q)' = SyncsLeft(q) /\ SyncsEntered(q)' = SyncsEntered(q)
      /\ MyInfo(q)' = MyInfo(q)
      /\ SyncsLeft(q) \in Int /\ SyncsEntered(q) \in Int
  BY <1>1, <1>2, <1>3 DEF SyncsLeft, SyncsEntered, MyInfo, SyncTag, Tag, FileStep
<1>5. ~Dirty' /\ Shape'
  BY <1>1, <1>2, <1>3 DEF Dirty, Cleaned, Shape, SyncStart, SyncTag, Partner
<1>6. /\ SyncsLeft(p) <= SyncsEntered(q) /\ SyncsLeft(q) <= SyncsEntered(p)
      /\ SyncsLeft(q) > SyncsLeft(p) => pc[p] = "gone"
      /\ SyncsLeft(p) > SyncsLeft(q) => tag[q] \in SyncTag /\ pc[q] = "gone"
  BY <1>1 DEF BarrierInv
<1>7. BarrierInv'
  <2>1. /\ SyncsLeft(p)' <= SyncsEntered(q)' /\ SyncsLeft(q)' <= SyncsEntered(p)'
        /\ ~(SyncsLeft(q)' > SyncsLeft(p)')
        /\ SyncsLeft(p)' > SyncsLeft(q)' => tag'[q] \in SyncTag /\ pc'[q] = "gone"
    BY <1>2, <1>3, <1>4, <1>6
  <2>2. QED
    BY <1>1, <1>4, <2>1 DEF BarrierInv, Partner
<1>8. ASSUME NEW t \in SyncTag PROVE SyncOrder(t)' /\ SyncFiles(t)'
  <2>1. SyncOrder(t) /\ SyncFiles(t)
    BY <1>1 DEF CleanInv
  <2>2. CASE p = "primary"
    BY <1>1, <1>2, <1>3, <1>4, <2>1, <2>2, OtherPartner
       DEF SyncOrder, SyncFiles, In, Exists, SyncStart
  <2>3. CASE p = "secondary"
    BY <1>1, <1>2, <1>3, <1>4, <2>1, <2>3, OtherPartner
       DEF SyncOrder, SyncFiles, In, Exists, SyncStart
  <2>4. QED
    BY <1>1, <2>2, <2>3
<1>9. HandshakeOrder(p)' /\ HandshakeOrder(q)'
  BY <1>1, <1>2, <1>3, <1>4
     DEF HandshakeOrder, Announced, Found, Disconnecting, In, FileStep
<1>10. HandshakeFiles(p)'
  <2>1. ~Wrote(p) /\ ~Announced(p) /\ ~Wrote(p)' /\ ~Announced(p)'
    BY <1>2, <1>3 DEF Wrote, Announced, Disconnecting, In, FileStep
  <2>2. QED
    BY <1>1, <1>2, <2>1 DEF HandshakeFiles, Exists
<1>11. HandshakeFiles(q)'
  BY <1>1, <1>2, <1>3, <1>4
     DEF HandshakeFiles, Exists, Wrote, Announced, Disconnecting, In, SyncStart
<1>12. Verdict(p)'
  BY <1>1, <1>2, <1>3 DEF Verdict, Loaded, Accepted, Disconnecting, In, SyncStart
<1>13. Verdict(q)'
  <2>1. tag[q] # "handshake" /\ (tag[q] = "disconn" => session[q] <= session[p])
    <3>1. tag[q] = "handshake" =>
             SyncsLeft(q) = 2 * session[q] - 1 /\ SyncsEntered(q) = SyncsLeft(q)
      BY DEF SyncsLeft, SyncsEntered, SyncTag
    <3>2. tag[q] = "disconn" => SyncsLeft(q) \in {2 * session[q] - 1, 2 * session[q]}
      BY DEF SyncsLeft
    <3>3. QED
      BY <1>3, <1>4, <1>6, <3>1, <3>2
  <2>2. Accepted(q) => tag[q] # "conn"
    BY <1>1 DEF Accepted, Disconnecting, In, Shape
  <2>3. status[q] # "failed"
    BY <1>1, <1>3, <2>1 DEF Verdict
  <2>4. /\ Loaded(q)' <=> Loaded(q)
        /\ Accepted(q)' <=> Accepted(q)
    BY <1>3 DEF Loaded, Accepted, Disconnecting, In
  <2>5. session'[p] = session'[q] => partnerInfo[q] = Absent /\ ~Accepted(q)
    BY <1>1, <1>3, <2>1, <2>2 DEF Verdict, Tag, SyncTag
  <2>6. QED
    BY <1>1, <1>2, <1>3, <2>3, <2>4, <2>5 DEF Verdict
<1>14. FolderInv'
  BY <1>1, <1>2, <1>3, OtherPartner DEF FolderInv, SyncStart
<1>15. DataInv'
  BY <1>1, <1>2, <1>3, OtherPartner
     DEF CleanInv, DataInv, Exists, File, SyncStart
<1>16. QED
  BY <1>1, <1>5, <1>7, <1>8, <1>9, <1>10, <1>11, <1>12, <1>13, <1>14, <1>15
     DEF CleanInv, Partner

\* Once the leftovers are gone remove_all() finds unread data only: it does not
\* remove a file of the other partner's next synchronisation.
LEMMA RemoveEntryStep ==
    ASSUME IInv, ~Dirty, NEW p \in Partner, RemoveEntry(p)
    PROVE  ~Dirty' /\ Shape' /\ CleanInv'
<1>1. p = "primary" /\ pc[p] = "remove_all" /\ dir \in [File -> Info \cup DataContent \cup {Absent}]
  BY DEF RemoveEntry, At, IInv, Shape, TypeOK
<1>2. PICK f \in File : /\ dir' = [dir EXCEPT ![f] = Absent]
                        /\ listing' = listing \ {f}
  BY DEF RemoveEntry
<1>3. \A g \in ProtocolFile : dir'[g] = dir[g]
  BY <1>1, <1>2, NoFiles DEF Exists, File
<1>4. DataInv'
  BY <1>1, <1>2 DEF RemoveEntry, IInv, CleanInv, DataInv, Exists, File
<1>5. UNCHANGED <<memory, status, pc, tag, folder>>
  BY DEF RemoveEntry
<1>6. QED
  BY <1>3, <1>4, <1>5, StatusFrame

\* Before the folder is cleaned only the primary moves, and it only cleans.
LEMMA DirtyStep ==
    ASSUME LeftoversRemoved, IInv, Dirty, NEW p \in Partner, Operation(p)
    PROVE  Shape' /\ IF Dirty' THEN DirtyInv' ELSE CleanInv'
<1>1. /\ TypeOK /\ Shape /\ DirtyInv /\ CommInFolder /\ SafeStart
      /\ run \in Nat /\ run > 1 /\ MaxRun \in Nat /\ p \in {"primary", "secondary"}
  BY ConstantAssumption DEF IInv, Dirty, LeftoversRemoved, Shape, TypeOK, Partner
<1>2. pc["secondary"] = "idle" /\ tag["secondary"] = "disconn"
      /\ "primary" \in Partner /\ "secondary" \in Partner
  BY <1>1 DEF DirtyInv, Shape, Partner
<1>3. CASE Connect(p)
  <2>1. p = "primary" /\ pc[p] = "idle" /\ session[p] = 0
    BY <1>1, <1>3 DEF Connect, At, MayStart, Dirty, DirtyInv
  <2>2. /\ pc' = [pc EXCEPT ![p] = "remove_all"]
        /\ tag' = [tag EXCEPT ![p] = "conn"]
        /\ session' = [session EXCEPT ![p] = 1]
        /\ partnerInfo' = [partnerInfo EXCEPT ![p] = Absent]
        /\ listing' = {f \in File : Exists(f)}
        /\ UNCHANGED <<run, status, dir>>
    BY <1>1, <1>3, <2>1 DEF Connect, Goto, StartRemoveAll, TypeOK
  <2>3. Shape' /\ Dirty'
    BY <1>1, <1>2, <2>1, <2>2 DEF Shape, Dirty, Cleaned, TypeOK, Partner, SyncTag
  <2>4. DirtyInv'
    BY <1>1, <1>2, <2>1, <2>2 DEF DirtyInv, TypeOK, Partner, Exists
  <2>5. QED
    BY <2>3, <2>4
<1>4. CASE RemoveEntry(p)
  <2>1. PICK f \in File : /\ dir' = [dir EXCEPT ![f] = Absent]
                          /\ listing' = listing \ {f}
    BY <1>4 DEF RemoveEntry
  <2>2. UNCHANGED <<memory, status, pc, tag>> /\ p = "primary" /\ pc[p] = "remove_all"
    BY <1>1, <1>2, <1>4 DEF RemoveEntry, At
  <2>3. Shape' /\ Dirty'
    BY <1>1, <2>2 DEF Shape, Dirty, Cleaned, memory
  <2>4. \A g \in File : Exists(g)' => g \in listing'
    BY <1>1, <2>1, <2>2 DEF DirtyInv, Exists, TypeOK
  <2>5. DirtyInv'
    BY <1>1, <2>2, <2>4 DEF DirtyInv, memory
  <2>6. QED
    BY <2>3, <2>5
<1>5. CASE RemoveFolder(p)
  <2>1. p = "primary" /\ pc[p] = "remove_all" /\ listing = {} /\ tag[p] = "conn"
    BY <1>1, <1>2, <1>5 DEF RemoveFolder, At, DirtyInv
  <2>2. pc' = [pc EXCEPT ![p] = "create_dir"] /\ UNCHANGED <<memory, status, tag, dir>>
    BY <1>5, <2>1 DEF RemoveFolder, Goto
  <2>3. Shape' /\ Dirty'
    BY <1>1, <1>2, <2>1, <2>2
       DEF Shape, Dirty, Cleaned, memory, TypeOK, Partner, DirtyInv
  <2>4. DirtyInv'
    BY <1>1, <1>2, <2>1, <2>2 DEF DirtyInv, memory, TypeOK, Exists
  <2>5. QED
    BY <2>3, <2>4
<1>6. CASE CreateFolder(p)
  <2>1. /\ p = "primary" /\ pc[p] = "create_dir" /\ tag[p] = "conn"
        /\ session[p] = 1 /\ session["secondary"] = 0
        /\ \A f \in File : ~Exists(f)
        /\ \A r \in Partner : status[r] # "failed" /\ partnerInfo[r] = Absent
    BY <1>1, <1>2, <1>6 DEF CreateFolder, At, DirtyInv
  <2>2. /\ pc' = [pc EXCEPT ![p] = "open"] /\ folder' = TRUE
        /\ UNCHANGED <<memory, status, tag, dir>>
    BY <1>6, <2>1 DEF CreateFolder, Goto, SyncStart
  <2>3. /\ pc'["primary"] = "open" /\ pc'["secondary"] = "idle"
        /\ tag'["primary"] = "conn" /\ tag'["secondary"] = "disconn"
        /\ session'["primary"] = 1 /\ session'["secondary"] = 0
        /\ \A r \in Partner : status'[r] # "failed" /\ partnerInfo'[r] = Absent
        /\ \A f \in File : ~Exists(f)'
    BY <1>1, <1>2, <2>1, <2>2 DEF memory, TypeOK, Exists
  <2>4. Shape' /\ ~Dirty'
    BY <1>1, <2>2, <2>3 DEF Shape, Dirty, Cleaned, Partner, memory
  <2>5. BarrierInv'
    BY <2>3, OtherPartner
       DEF BarrierInv, SyncsLeft, SyncsEntered, FileStep, SyncTag, Partner
  <2>6. ASSUME NEW t \in SyncTag PROVE SyncOrder(t)' /\ SyncFiles(t)'
    <3>1. \A r \in Partner, k \in {"data", "avail"} : ~Exists(<<r, t, k>>)'
      BY <2>3, FileNames DEF Tag
    <3>2. QED
      BY <1>2, <2>3, <3>1 DEF SyncOrder, SyncFiles, In
  <2>7. \A r \in Partner : HandshakeOrder(r)' /\ HandshakeFiles(r)' /\ Verdict(r)'
    <3>1. \A r \in Partner, k \in {"data", "avail"} : ~Exists(<<r, "handshake", k>>)'
      BY <2>3, FileNames DEF Tag
    <3>2. \A r \in Partner : /\ ~Wrote(r)' /\ ~Announced(r)' /\ ~Found(r)'
                             /\ ~Loaded(r)' /\ ~Accepted(r)'
      BY <2>3
         DEF Wrote, Announced, Found, Loaded, Accepted, Disconnecting, In,
             Partner, FileStep
    <3>3. QED
      BY <2>3, <3>1, <3>2 DEF HandshakeOrder, HandshakeFiles, Verdict
  <2>8. FolderInv'
    BY <1>1, <2>2, <2>3 DEF FolderInv
  <2>9. DataInv'
    BY <2>3 DEF DataInv, File
  <2>10. QED
    BY <2>4, <2>5, <2>6, <2>7, <2>8, <2>9 DEF CleanInv
<1>7. QED
  <2>1. pc[p] \in {"idle", "remove_all", "create_dir"}
    BY <1>1, <1>2 DEF DirtyInv
  <2>2. QED
    BY <1>3, <1>4, <1>5, <1>6, <2>1
       DEF Operation, Protocol, Open, Perms, Avail, Wait, RmAvail, Load, RmData,
           Gone, Check, Disconnect, At

\* A program that is killed leaves the files and the other partner alone.
LEMMA CrashStep ==
    ASSUME IInv, NEW p \in Partner, Crash(p)
    PROVE  Shape' /\ IF Dirty' THEN DirtyInv' ELSE CleanInv'
<1>1. /\ \A r \in Partner : status'[r] = "failed" => status[r] = "failed"
      /\ UNCHANGED <<memory, pc, tag, folder, dir, listing>>
  BY DEF Crash, IInv, TypeOK
<1>2. CASE Dirty
  BY <1>1, <1>2 DEF IInv, Shape, Dirty, Cleaned, DirtyInv, Exists, memory
<1>3. CASE ~Dirty
  <2>1. DataInv'
    BY <1>1, <1>3 DEF IInv, CleanInv, DataInv, Exists
  <2>2. QED
    BY <1>1, <1>3, <2>1, StatusFrame
<1>4. QED
  BY <1>2, <1>3

\* A new execution starts with whatever is in the folder.
LEMMA RestartStep ==
    ASSUME IInv, Restart
    PROVE  Shape' /\ IF Dirty' THEN DirtyInv' ELSE CleanInv'
<1>1. run' = run + 1 /\ run' <= MaxRun /\ run' > 1
  BY ConstantAssumption DEF Restart, IInv, TypeOK, Shape
<1>2. Shape' /\ Dirty' /\ DirtyInv'
  BY <1>1 DEF Restart, Shape, Dirty, Cleaned, DirtyInv, Partner, IInv
<1>3. QED
  BY <1>2

\* The first execution starts with an empty file system.
LEMMA InitInv ==
    ASSUME Init
    PROVE  Shape /\ ~Dirty /\ CleanInv
<1>1. /\ \A r \in Partner : /\ pc[r] = "idle" /\ tag[r] = "disconn" /\ session[r] = 0
                            /\ status[r] = "running" /\ partnerInfo[r] = Absent
      /\ \A f \in File : ~Exists(f)
      /\ run = 1 /\ folder = ~CommInFolder /\ "primary" \in Partner
  BY DEF Init, Exists, Partner
<1>2. Shape /\ ~Dirty /\ FolderInv
  <2>1. Shape /\ ~Dirty
    BY <1>1 DEF Shape, Dirty, Partner
  <2>2. CASE CommInFolder
    BY <1>1, <2>1, <2>2 DEF FolderInv
  <2>3. CASE ~CommInFolder
    BY <1>1, <2>1, <2>3 DEF FolderInv
  <2>4. QED
    BY <2>1, <2>2, <2>3
<1>3. BarrierInv
  BY <1>1, OtherPartner DEF BarrierInv, SyncsLeft, SyncsEntered, FileStep, SyncTag
<1>4. \A t \in SyncTag : SyncOrder(t) /\ SyncFiles(t)
  <2>1. \A r \in Partner, t \in SyncTag, k \in {"data", "avail"} : ~Exists(<<r, t, k>>)
    BY <1>1, FileNames DEF Tag
  <2>2. QED
    BY <1>1, <2>1 DEF SyncOrder, SyncFiles, In, Partner
<1>5. \A r \in Partner : HandshakeOrder(r) /\ HandshakeFiles(r) /\ Verdict(r)
  <2>1. \A r \in Partner, k \in {"data", "avail"} : ~Exists(<<r, "handshake", k>>)
    BY <1>1, FileNames DEF Tag
  <2>2. \A r \in Partner : ~Wrote(r) /\ ~Announced(r) /\ ~Found(r) /\ ~Loaded(r) /\ ~Accepted(r)
    BY <1>1
       DEF Wrote, Announced, Found, Loaded, Accepted, Disconnecting, In,
           FileStep
  <2>3. QED
    BY <1>1, <2>1, <2>2 DEF HandshakeOrder, HandshakeFiles, Verdict
<1>6. QED
  BY <1>1, <1>2, <1>3, <1>4, <1>5 DEF CleanInv, DataInv, File

\* Every step of a partner after the leftovers are gone.
LEMMA CleanStep ==
    ASSUME IInv, ~Dirty, NEW p \in Partner, Operation(p)
    PROVE  ~Dirty' /\ Shape' /\ CleanInv'
<1>1. CASE Gone(p)
  BY <1>1, FileActionStep, LeaveSyncStep DEF Gone, SyncTag
<1>2. QED
  BY <1>1, FileActionStep, LoadStep, CheckStep, ConnectStep, EnterSyncStep,
     RemoveEntryStep DEF Operation, Protocol

-----------------------------------------------------------------------------
(* The theorems.                                                            *)


\* Writing or removing one file of the protocol keeps the folder well typed.
LEMMA DirType ==
    ASSUME TypeOK, NEW f \in ProtocolFile, NEW c \in Info \cup {Absent}
    PROVE  LET d == [dir EXCEPT ![f] = c]
           IN  /\ d \in [File -> Info \cup DataContent \cup {Absent}]
               /\ \A g \in ProtocolFile : d[g] \in Info \cup {Absent}
<1>1. f \in File
  BY DEF File
<1>2. [dir EXCEPT ![f] = c] \in [File -> Info \cup DataContent \cup {Absent}]
  BY <1>1 DEF TypeOK
<1>3. \A g \in ProtocolFile : [dir EXCEPT ![f] = c][g] \in Info \cup {Absent}
  BY <1>1 DEF TypeOK, File
<1> QED
  BY <1>2, <1>3

\* Creating one file of the protocol keeps the folder well typed.
LEMMA CreateType ==
    ASSUME TypeOK, NEW p \in Partner, NEW f \in ProtocolFile, Create(p, f)
    PROVE  /\ dir' \in [File -> Info \cup DataContent \cup {Absent}]
           /\ \A g \in ProtocolFile : dir'[g] \in Info \cup {Absent}
<1>1. dir[f] \in Info \cup {Absent}
  BY DEF TypeOK
<1>2. (IF folder THEN MyInfo(p) ELSE dir[f]) \in Info \cup {Absent}
  BY <1>1, InfoType
<1> QED
  BY <1>2, DirType DEF Create

\* Every step of Connect(), Disconnect() and the world around keeps the types.
LEMMA TypeStep ==
    ASSUME TypeOK, [Next]_vars
    PROVE  TypeOK'
<1> USE DEF Goto, Throw, Mine, Theirs, Step, FileStep, SyncTag, Tag, memory
<1>1. ASSUME NEW p \in Partner, Open(p) PROVE TypeOK'
  <2>1. Create(p, Mine(p, "data")) /\ Mine(p, "data") \in ProtocolFile
    BY <1>1, FileNames DEF TypeOK, Open
  <2>2. QED
    BY <1>1, <2>1, CreateType DEF TypeOK, Open, Create, At
<1>2. ASSUME NEW p \in Partner, Perms(p) PROVE TypeOK'
  BY <1>2 DEF TypeOK, Perms, At
<1>3. ASSUME NEW p \in Partner, Avail(p) PROVE TypeOK'
  <2>1. Create(p, Mine(p, "avail")) /\ Mine(p, "avail") \in ProtocolFile
    BY <1>3, FileNames DEF TypeOK, Avail
  <2>2. QED
    BY <1>3, <2>1, CreateType DEF TypeOK, Avail, Create, At
<1>4. ASSUME NEW p \in Partner, Wait(p) PROVE TypeOK'
  BY <1>4 DEF TypeOK, Wait, At
<1>5. ASSUME NEW p \in Partner, RmAvail(p) PROVE TypeOK'
  <2>1. Theirs(p, "avail") \in ProtocolFile
    BY OtherPartner, FileNames DEF TypeOK
  <2>2. QED
    BY <1>5, <2>1, DirType DEF TypeOK, RmAvail, RemovePath, At
<1>6. ASSUME NEW p \in Partner, Load(p) PROVE TypeOK'
  <2>1. Theirs(p, "data") \in ProtocolFile
    BY OtherPartner, FileNames DEF TypeOK
  <2>2. dir[Theirs(p, "data")] \in Info \cup {Absent}
    BY <2>1 DEF TypeOK
  <2>3. (IF folder /\ ~Exists(Theirs(p, "data")) THEN MyInfo(p)
         ELSE dir[Theirs(p, "data")]) \in Info \cup {Absent}
    BY <2>2, InfoType
  <2>4. /\ dir' \in [File -> Info \cup DataContent \cup {Absent}]
        /\ \A g \in ProtocolFile : dir'[g] \in Info \cup {Absent}
    BY <1>6, <2>1, <2>3, DirType DEF TypeOK, Load
  <2>5. QED
    BY <1>6, <2>2, <2>4 DEF TypeOK, Load, At
<1>7. ASSUME NEW p \in Partner, RmData(p) PROVE TypeOK'
  <2>1. Theirs(p, "data") \in ProtocolFile
    BY OtherPartner, FileNames DEF TypeOK
  <2>2. QED
    BY <1>7, <2>1, DirType DEF TypeOK, RmData, RemovePath, At
<1>8. ASSUME NEW p \in Partner, Gone(p) PROVE TypeOK'
  BY <1>8 DEF TypeOK, Gone, StartRemoveAll, At
<1>9. ASSUME NEW p \in Partner, Check(p) PROVE TypeOK'
  BY <1>9 DEF TypeOK, Check, At
<1>10. ASSUME NEW p \in Partner, Connect(p) PROVE TypeOK'
  BY <1>10 DEF TypeOK, Connect, StartRemoveAll, SyncStart, At
<1>11. ASSUME NEW p \in Partner, Disconnect(p) PROVE TypeOK'
  BY <1>11 DEF TypeOK, Disconnect, SyncStart, At
<1>12. ASSUME NEW p \in Partner, RemoveEntry(p) PROVE TypeOK'
  BY <1>12 DEF TypeOK, RemoveEntry, At
<1>13. ASSUME NEW p \in Partner, RemoveFolder(p) PROVE TypeOK'
  BY <1>13 DEF TypeOK, RemoveFolder, At
<1>14. ASSUME NEW p \in Partner, CreateFolder(p) PROVE TypeOK'
  BY <1>14 DEF TypeOK, CreateFolder, SyncStart, At
<1>15. ASSUME NEW p \in Partner, Crash(p) PROVE TypeOK'
  BY <1>15 DEF TypeOK, Crash
<1>16. ASSUME Restart PROVE TypeOK'
  BY <1>16 DEF TypeOK, Restart
<1>17. CASE UNCHANGED vars
  BY <1>17 DEF TypeOK, vars
<1>18. QED
  BY <1>1, <1>2, <1>3, <1>4, <1>5, <1>6, <1>7, <1>8, <1>9, <1>10, <1>11,
     <1>12, <1>13, <1>14, <1>15, <1>16, <1>17
     DEF Next, Operation, Protocol, Terminated

\* Every variable keeps its type: the files hold what GetMyInfo() wrote, and
\* the positions of the partners are the ones of Connect() and Disconnect().
THEOREM TypeCorrect == Spec => []TypeOK
<1>1. Init => TypeOK
  BY DEF Init, TypeOK, Step, FileStep, Tag, SyncTag, File
<1>2. QED
  BY <1>1, TypeStep, PTL DEF Spec

-----------------------------------------------------------------------------

\* Every step keeps the invariant.
LEMMA InvStep ==
    ASSUME LeftoversRemoved, IInv, [Next]_vars
    PROVE  IInv'
<1>1. TypeOK'
  BY TypeStep DEF IInv
<1>2. SUFFICES Shape' /\ IF Dirty' THEN DirtyInv' ELSE CleanInv'
  BY <1>1 DEF IInv
<1>3. CASE UNCHANGED vars /\ Dirty
  BY <1>3 DEF vars, IInv, Shape, Dirty, Cleaned, DirtyInv, Exists
<1>4. CASE UNCHANGED vars /\ ~Dirty
  <2>1. DataInv'
    BY <1>4 DEF vars, IInv, CleanInv, DataInv, Exists
  <2>2. QED
    BY <1>4, <2>1, StatusFrame DEF vars, memory
<1>5. QED
  BY <1>3, <1>4, CleanStep, DirtyStep, CrashStep, RestartStep DEF Next, Terminated

\* The invariant that relates the positions of the partners in Connect() and
\* Disconnect() to the files that exist.
THEOREM Inductive ==
    ASSUME LeftoversRemoved
    PROVE  Spec => []IInv
<1>1. Init => IInv
  BY InitInv DEF IInv, Init, TypeOK, Step, FileStep, Tag, SyncTag, File
<1>2. IInv /\ [Next]_vars => IInv'
  BY InvStep
<1>3. QED
  BY <1>1, <1>2, PTL DEF Spec

\* Connect() and Disconnect() write no data.
LEMMA NoDataWritten ==
    ASSUME TypeOK, [Next]_vars, NEW f \in DataFile, ~Exists(f)
    PROVE  ~Exists(f)'
<1>1. /\ f \in File /\ f \notin ProtocolFile
      /\ \A p \in Partner, k \in {"data", "avail"} :
            Mine(p, k) \in ProtocolFile /\ Theirs(p, k) \in ProtocolFile
  BY ConstantAssumption, FileNames, OtherPartner DEF File, Mine, Theirs, TypeOK
<1>2. ASSUME NEW p \in Partner, Operation(p) PROVE ~Exists(f)'
  BY <1>1, <1>2
     DEF Operation, Protocol, Open, Perms, Avail, Wait, RmAvail, Load, RmData, Gone,
         Check, Connect, Disconnect, RemoveEntry, RemoveFolder, CreateFolder, Create,
         RemovePath, Exists, TypeOK
<1>3. QED
  BY <1>2 DEF Next, Crash, Restart, Terminated, vars, Exists

\* What the invariant says about the properties of module Communication.
LEMMA InvariantImplies ==
    ASSUME IInv
    PROVE  /\ OnlyMismatchFails /\ FreshPartnerInfo /\ SameVerdict
           /\ ConnectedTogether
           /\ CommInFolder \/ (\A f \in DataFile : ~Exists(f)) => NothingLeftOver
<1>1. CASE Dirty
  BY <1>1 DEF IInv, DirtyInv, Shape, Partner, OnlyMismatchFails, FreshPartnerInfo,
              SameVerdict, ConnectedTogether, NothingLeftOver, Other
<1>2. CASE ~Dirty
  <2>1. OnlyMismatchFails /\ FreshPartnerInfo
    BY <1>2 DEF IInv, CleanInv, Verdict, OnlyMismatchFails, FreshPartnerInfo
  <2>2. ConnectedTogether
    <3>1. SUFFICES ASSUME NEW p \in Partner, pc[p] = "connected"
                   PROVE  /\ session[Other(p)] = session[p]
                          /\ SyncsLeft(Other(p)) = SyncsLeft(p)
      BY DEF ConnectedTogether
    <3>2. tag[p] = "handshake" /\ Found(p)
      BY <3>1 DEF IInv, Shape, Found, In
    <3>3. session[Other(p)] = session[p] /\ Wrote(Other(p))
      BY <1>2, <3>2, SameSession
    <3>4. QED
      BY <3>2, <3>3 DEF Wrote, Disconnecting, In, SyncsLeft, FileStep
  <2>3. SameVerdict
    BY <1>2, OtherPartner DEF SameVerdict, IInv, CleanInv, Verdict, Accepted
  <2>4. CommInFolder \/ (\A f \in DataFile : ~Exists(f)) => NothingLeftOver
    <3>1. SUFFICES ASSUME \A p \in Partner : At(p, "idle") /\ session[p] > 0,
                          CommInFolder \/ \A f \in DataFile : ~Exists(f)
                   PROVE  (\A f \in File : ~Exists(f)) /\ folder = ~CommInFolder
      BY DEF NothingLeftOver
    <3>2. pc["primary"] = "idle" /\ session["primary"] > 0
      BY <3>1 DEF At, Partner
    <3>3. \A f \in File : ~Exists(f)
      BY <1>2, <3>1, <3>2, NoFiles DEF IInv, CleanInv, DataInv, File
    <3>4. folder = ~CommInFolder
      BY <1>2, <3>2, ConstantAssumption DEF IInv, CleanInv, FolderInv, TypeOK
    <3>5. QED
      BY <3>3, <3>4
  <2>5. QED
    BY <2>1, <2>2, <2>3, <2>4
<1>3. QED
  BY <1>1, <1>2

\* Connect and Disconnect throw for incompatible settings and for nothing else:
\* RemovePath, AddFilePermissions and the existence checks always find the file
\* they expect, in every execution and whatever an earlier one left behind.
THEOREM OnlyMismatchFailsHolds ==
    ASSUME LeftoversRemoved
    PROVE  Spec => []OnlyMismatchFails
BY InvariantImplies, Inductive, PTL

\* HandShake never judges a compatibility file of an earlier session or an
\* earlier execution.
THEOREM FreshPartnerInfoHolds ==
    ASSUME LeftoversRemoved
    PROVE  Spec => []FreshPartnerInfo
BY InvariantImplies, Inductive, PTL

\* HandShake cannot accept on one side and refuse on the other.
THEOREM SameVerdictHolds ==
    ASSUME LeftoversRemoved
    PROVE  Spec => []SameVerdict
BY InvariantImplies, Inductive, PTL

\* A partner for which Connect has returned has its partner in the same session.
THEOREM ConnectedTogetherHolds ==
    ASSUME LeftoversRemoved
    PROVE  Spec => []ConnectedTogether
BY InvariantImplies, Inductive, PTL

\* Once both partners are back from Disconnect the file system is as it was.
THEOREM NothingLeftOverHolds ==
    ASSUME LeftoversRemoved
    PROVE  Spec => []NothingLeftOver
<1> DEFINE NoData == \A f \in DataFile : ~Exists(f)
<1>1. Init => NoData
  BY DEF Init, Exists, File
<1>2. TypeOK /\ NoData /\ [Next]_vars => NoData'
  BY NoDataWritten
<1>3. IInv /\ NoData => NothingLeftOver
  BY InvariantImplies
<1> HIDE DEF NoData
<1>4. QED
  BY <1>1, <1>2, <1>3, TypeCorrect, Inductive, PTL DEF Spec

\* What one step of partner p does to the numbers of synchronisations.
LEMMA Counts ==
    ASSUME TypeOK, Shape, NEW p \in Partner, Operation(p)
    PROVE  /\ run' = run
           /\ SyncsLeft(Other(p))' = SyncsLeft(Other(p))
           /\ SyncsEntered(Other(p))' = SyncsEntered(Other(p))
           /\ \/ /\ SyncsLeft(p)' = SyncsLeft(p)
                 /\ SyncsEntered(p)' = SyncsEntered(p)
              \/ /\ SyncsEntered(p) = SyncsLeft(p)
                 /\ SyncsLeft(p)' = SyncsLeft(p)
                 /\ SyncsEntered(p)' = SyncsEntered(p) + 1
              \/ /\ SyncsEntered(p) = SyncsLeft(p) + 1
                 /\ SyncsLeft(p)' = SyncsLeft(p) + 1
                 /\ SyncsEntered(p)' = SyncsEntered(p)
                 /\ pc[p] = "gone"
<1> DEFINE q == Other(p)
<1>1. /\ q \in Partner /\ q # p
      /\ session[p] \in Nat /\ tag[p] \in Tag /\ pc[p] \in Step
  BY OtherPartner DEF TypeOK
<1>2. run' = run /\ pc'[q] = pc[q] /\ tag'[q] = tag[q] /\ session'[q] = session[q]
  BY <1>1 DEF Operation, Protocol, Open, Perms, Avail, Wait, RmAvail, Load, RmData,
       Gone, Check, Connect, Disconnect, RemoveEntry, RemoveFolder, CreateFolder,
       Goto, Throw, RemovePath, StartRemoveAll, memory, TypeOK
<1>3. SyncsLeft(q)' = SyncsLeft(q) /\ SyncsEntered(q)' = SyncsEntered(q)
  BY <1>2 DEF SyncsLeft, SyncsEntered
<1> USE DEF SyncsLeft, SyncsEntered, SyncTag, Tag, FileStep, At, Goto, Throw
<1>4. CASE Open(p) \/ Perms(p) \/ Avail(p) \/ Wait(p) \/ RmAvail(p) \/ RmData(p)
  BY <1>1, <1>2, <1>3, <1>4
     DEF Open, Perms, Avail, Wait, RmAvail, RmData, RemovePath, memory, TypeOK
<1>5. CASE Load(p) \/ Check(p) \/ RemoveEntry(p) \/ RemoveFolder(p)
  BY <1>1, <1>2, <1>3, <1>5
     DEF Load, Check, RemoveEntry, RemoveFolder, memory, TypeOK, Shape
<1>6. CASE Gone(p)
  BY <1>1, <1>2, <1>3, <1>6 DEF Gone, StartRemoveAll, memory, TypeOK, Shape
<1>7. CASE Connect(p)
  BY <1>1, <1>2, <1>3, <1>7 DEF Connect, StartRemoveAll, SyncStart, TypeOK, Shape
<1>8. CASE Disconnect(p) \/ CreateFolder(p)
  BY <1>1, <1>2, <1>3, <1>8
     DEF Disconnect, CreateFolder, SyncStart, memory, TypeOK, Shape
<1>9. QED
  BY <1>4, <1>5, <1>6, <1>7, <1>8 DEF Operation, Protocol

\* The counters of the barrier are integers.
LEMMA CountType ==
    ASSUME TypeOK, Shape, NEW p \in Partner
    PROVE  SyncsLeft(p) \in Int /\ SyncsEntered(p) \in Int
BY DEF TypeOK, SyncsLeft, SyncsEntered, Tag, SyncTag

\* Every step of Connect(), Disconnect() and the world around is a step of the
\* barrier, or nothing the barrier sees.
LEMMA BarrierStep ==
    ASSUME LeftoversRemoved, IInv, IInv', [Next]_vars
    PROVE  [Barrier!Next]_(Barrier!vars)
<1> DEFINE e == [r \in Partner |-> SyncsEntered(r)]
           l == [r \in Partner |-> SyncsLeft(r)]
<1> SUFFICES Barrier!Next \/ UNCHANGED <<run, e, l>>
  BY DEF Barrier!vars
<1>1. ASSUME NEW p \in Partner, Operation(p)
      PROVE  Barrier!Next \/ UNCHANGED <<run, e, l>>
  <2> DEFINE q == Other(p)
  <2>1. /\ TypeOK /\ Shape /\ q \in Partner /\ q # p
        /\ \A r \in Partner : r = p \/ r = q
    BY OtherPartner DEF IInv, Partner
  <2>2. CASE SyncsLeft(p)' = SyncsLeft(p) /\ SyncsEntered(p)' = SyncsEntered(p)
    BY <1>1, <2>1, <2>2, Counts
  <2>3. CASE /\ SyncsEntered(p) = SyncsLeft(p)
             /\ SyncsLeft(p)' = SyncsLeft(p)
             /\ SyncsEntered(p)' = SyncsEntered(p) + 1
    <3>1. run' = run /\ l' = l /\ e' = [e EXCEPT ![p] = @ + 1] /\ e[p] = l[p]
      BY <1>1, <2>1, <2>3, Counts
    <3>2. QED
      BY <3>1 DEF Barrier!Next, Barrier!Enter
  <2>4. CASE /\ SyncsEntered(p) = SyncsLeft(p) + 1
             /\ SyncsLeft(p)' = SyncsLeft(p) + 1
             /\ SyncsEntered(p)' = SyncsEntered(p)
             /\ pc[p] = "gone"
    <3>1. ~Dirty
      BY <2>1, <2>4, OtherPartner DEF IInv, DirtyInv, Partner, Shape
    <3>2. CleanInv'
      BY <1>1, <3>1, CleanStep
    <3>3. SyncsLeft(p)' <= SyncsEntered(q)'
      BY <3>2 DEF CleanInv, BarrierInv
    <3>4. SyncsLeft(p) < SyncsEntered(p) /\ SyncsLeft(p) < SyncsEntered(q)
      BY <1>1, <2>1, <2>4, <3>3, Counts, CountType
    <3>5. run' = run /\ e' = e /\ l' = [l EXCEPT ![p] = @ + 1]
      BY <1>1, <2>1, <2>4, Counts
    <3>6. l[p] < e[p] /\ \A r \in Partner : l[p] < e[r]
      BY <2>1, <3>4
    <3>7. QED
      BY <3>5, <3>6 DEF Barrier!Next, Barrier!Leave
  <2>5. QED
    BY <1>1, <2>1, <2>2, <2>3, <2>4, Counts
<1>2. ASSUME Restart PROVE Barrier!Next
  <2>1. \A r \in Partner : SyncsEntered(r)' = 0 /\ SyncsLeft(r)' = 0
    BY <1>2 DEF Restart, SyncsEntered, SyncsLeft, FileStep
  <2>2. QED
    BY <1>2, <2>1 DEF Restart, Barrier!Next, Barrier!Restart
<1>3. CASE \/ UNCHANGED vars
           \/ \E p \in Partner : Crash(p)
  <2>1. UNCHANGED <<run, pc, tag, session>>
    BY <1>3 DEF vars, memory, Crash
  <2>2. \A r \in Partner : /\ SyncsEntered(r)' = SyncsEntered(r)
                           /\ SyncsLeft(r)' = SyncsLeft(r)
    BY <2>1 DEF SyncsEntered, SyncsLeft
  <2>3. QED
    BY <2>1, <2>2
<1>4. QED
  BY <1>1, <1>2, <1>3 DEF Next, Terminated

\* No execution has entered a synchronisation when it starts.
LEMMA BarrierInit ==
    ASSUME Init
    PROVE  Barrier!Init
<1>1. \A r \in Partner : SyncsEntered(r) = 0 /\ SyncsLeft(r) = 0
  BY DEF Init, SyncsEntered, SyncsLeft, FileStep
<1>2. QED
  BY <1>1 DEF Barrier!Init, Init

\* SynchronizeAll() is a barrier: with files that appear and disappear one by one
\* it does what module Rendezvous says, in every execution.
THEOREM Refinement ==
    ASSUME LeftoversRemoved
    PROVE  Spec => ImplementsRendezvous
BY BarrierInit, BarrierStep, Inductive, PTL
   DEF Spec, ImplementsRendezvous, Barrier!Spec
=============================================================================
