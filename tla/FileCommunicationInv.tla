------------------------ MODULE FileCommunicationInv ------------------------
(***************************************************************************)
(* The inductive invariant behind the theorems of FileCommunicationProofs. *)
(* While both partners are in the same session it says, for every          *)
(* identifier, which files of it exist and what they contain, from the     *)
(* numbers of exports and imports the partners have finished.              *)
(***************************************************************************)
EXTENDS FileCommunication, CommunicationInv

Uses(s, p, op, i) == \E n \in 1..Len(s[p]) : s[p][n] = [op |-> op, id |-> i]

\* p exports what is exchanged under identifier i: if anybody uses it, p exports
\* it and the other partner imports it.
Owns(s, p, i) == ~Uses(s, p, "import", i) /\ ~Uses(s, Other(p), "export", i)

\* The assumption of the theorems on the coupled programs: an identifier is used in
\* one direction.
OneWay == \A s \in Scripts, i \in Id : \E p \in Partner : Owns(s, p, i)

\* Everything that is exported is imported, too.
Matched ==
    \A s \in Scripts, p \in Partner, i \in Id :
        Cardinality({n \in 1..Len(s[p]) : s[p][n] = [op |-> "export", id |-> i]}) =
        Cardinality({n \in 1..Len(s[Other(p)]) :
                        s[Other(p)][n] = [op |-> "import", id |-> i]})

\* Data nobody imports does not reach the next session: the primary removes it with
\* the folder, or there is none.
UnreadRemoved == CommInFolder \/ Matched

\* Both partners are in the same session, and its folder is there.
Live ==
    /\ session["primary"] = session["secondary"]
    /\ pc["primary"] \notin {"idle", "remove_all", "create_dir"}

NoData == \A f \in DataFile : ~Exists(f)

\* How many exports (or imports) under identifier i partner p has finished.
Finished(p, op, i) == Cardinality({n \in Positions(p, op, i) : n <= done[p]})

Busy(p, op, i, steps) ==
    io[p] \in steps /\ Current(p) = [op |-> op, id |-> i]

\* The message of p's export number k (from 0) under identifier i.
IsExport(m, p, i, k) ==
    /\ m \in DataContent
    /\ m.from = p
    /\ m.run = run
    /\ m.session = session[p]
    /\ m.no \in Positions(p, "export", i)
    /\ Nth(p, m.no) = k

\* Where a partner is in its script.
ProgressInv(p) ==
    /\ session[p] <= MaxSession
    /\ done[p] <= Len(script[p])
    /\ tag[p] # "disconn" /\ pc[p] # "connected" => done[p] = 0
    /\ tag[p] = "disconn" /\ session[p] > 0 => done[p] = Len(script[p])
    /\ Len(received[p]) = IF io[p] = "remove" THEN done[p] + 1 ELSE done[p]

IoInv(p) ==
    io[p] # "ready" =>
        /\ pc[p] = "connected" /\ done[p] < Len(script[p])
        /\ \/ Current(p).op = "export" /\ io[p] \in {"open", "write", "show"}
           \/ /\ Current(p).op = "import" /\ io[p] \in {"rm_avail", "read", "remove"}
              /\ io[p] = "rm_avail" => useAux

\* There is an export of p under i that the other partner has not finished importing.
Full(p, i) == Finished(p, "export", i) = Finished(Other(p), "import", i) + 1

BoxInv(p, i) ==
    LET q     == Other(p)
        write == Busy(p, "export", i, {"write", "show"})
        read  == Busy(q, "import", i, {"read", "remove"})
    IN  /\ Finished(p, "export", i) = Finished(q, "import", i) \/ Full(p, i)
        /\ Busy(p, "export", i, {"open", "write", "show"}) => ~Full(p, i)
        /\ Busy(q, "import", i, {"rm_avail", "read", "remove"}) => Full(p, i)
        /\ Exists(<<i, "data">>)  <=> Full(p, i) \/ (useAux /\ write)
        /\ Exists(<<i, "tmp">>)   <=> ~useAux /\ write
        /\ Exists(<<i, "avail">>) <=> useAux /\ Full(p, i) /\ ~read
        /\ Busy(p, "export", i, {"show"}) =>
              dir[<<i, IF useAux THEN "data" ELSE "tmp">>] = MyMessage(p)
        /\ Full(p, i) =>
              IsExport(dir[<<i, "data">>], p, i, Finished(q, "import", i))

BoxesInv ==
    /\ Live => \A p \in Partner, i \in Id : Owns(script, p, i) => BoxInv(p, i)
    /\ ~Live /\ ~CommInFolder => NoData

\* The files of every identifier are the ones of a mailbox that the exporter fills
\* and the importer empties, and every import has returned what it should.
FileInv ==
    /\ IInv
    /\ FileTypeOK
    /\ \A p \in Partner : ProgressInv(p) /\ IoInv(p)
    /\ BoxesInv
    /\ ImportsMatchExports

\* Whatever was left behind, a message that has been announced is complete and no
\* newer than the execution.
AnnouncedInv ==
    \A i \in Id :
        Exists(<<i, "data">>) /\ (useAux => Exists(<<i, "avail">>)) =>
            dir[<<i, "data">>].run \in 1..run
=============================================================================
