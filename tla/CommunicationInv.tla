-------------------------- MODULE CommunicationInv --------------------------
(***************************************************************************)
(* The inductive invariant behind the theorems of CommunicationProofs.     *)
(* It says, for every file of the protocol, at which pairs of positions of *)
(* the two partners the file exists, and which pairs of positions occur.   *)
(* It holds when the leftovers of a crash cannot reach a new execution:    *)
(* the primary starts first and cleans the folder, or nothing is killed.   *)
(***************************************************************************)
EXTENDS Communication

\* The assumption of the theorems: there are no leftovers, or the primary is
\* started first and removes them (docs/communication.md, "Removing leftovers").
LeftoversRemoved == MaxRun = 1 \/ (SafeStart /\ CommInFolder)

In(p, t, steps) == tag[p] = t /\ pc[p] \in steps

\* Which steps go with which part of Connect and Disconnect.
Shape ==
    /\ run >= 1 /\ (run > 1 => run <= MaxRun)
    /\ \A p \in Partner :
        /\ pc[p] = "idle" => tag[p] = "disconn"
        /\ pc[p] = "remove_all" =>
              p = "primary" /\ CommInFolder /\ tag[p] \in SyncTag
        /\ pc[p] = "create_dir" =>
              p = "primary" /\ CommInFolder /\ tag[p] = "conn"
        /\ pc[p] \in {"load", "check", "connected"} => tag[p] = "handshake"
        /\ session[p] = 0 => pc[p] = "idle"

\* An execution after a crash, before the primary has cleaned the folder.
Dirty == run > 1 /\ ~Cleaned

DirtyInv ==
    /\ session["secondary"] = 0
    /\ pc["primary"] \in {"idle", "remove_all", "create_dir"}
    /\ pc["primary"] = "idle" => session["primary"] = 0
    /\ pc["primary"] # "idle" => session["primary"] = 1 /\ tag["primary"] = "conn"
    /\ pc["primary"] = "remove_all" => \A f \in File : Exists(f) => f \in listing
    /\ pc["primary"] = "create_dir" => \A f \in File : ~Exists(f)
    /\ \A p \in Partner : status[p] # "failed" /\ partnerInfo[p] = Absent

\* Neither partner leaves a synchronisation the other one has not entered, and
\* the one that is behind has nothing to do but to leave it, too.
BarrierInv ==
    \A p \in Partner :
        /\ SyncsLeft(p) <= SyncsEntered(Other(p))
        /\ SyncsLeft(p) > SyncsLeft(Other(p)) =>
              tag[Other(p)] \in SyncTag /\ pc[Other(p)] = "gone"

SyncOrder(t) ==
    /\ In("secondary", t, {"rm_avail", "rm_data", "open", "perms", "avail"}) =>
          In("primary", t, {"wait"})
    /\ In("primary", t, {"rm_avail", "rm_data"}) => In("secondary", t, {"gone"})
    /\ In("primary", t, {"gone"}) =>
          \/ In("secondary", t, {"gone"})
          \/ SyncsLeft("secondary") = SyncsLeft("primary") + 1
    /\ In("secondary", t, {"gone"}) =>
          \/ In("primary", t, {"wait", "rm_avail", "rm_data", "gone"})
          \/ SyncsLeft("primary") = SyncsLeft("secondary") + 1

SyncFiles(t) ==
    /\ Exists(<<"primary", t, "data">>) <=>
          /\ In("primary", t, {"perms", "avail", "wait"})
          /\ ~In("secondary", t, {"open", "perms", "avail", "gone"})
    /\ Exists(<<"primary", t, "avail">>) <=>
          /\ In("primary", t, {"wait"})
          /\ ~In("secondary", t, {"rm_data", "open", "perms", "avail", "gone"})
    /\ Exists(<<"secondary", t, "data">>) <=>
          /\ In("secondary", t, {"perms", "avail", "gone"})
          /\ In("primary", t, {"wait", "rm_avail", "rm_data"})
    /\ Exists(<<"secondary", t, "avail">>) <=>
          /\ In("secondary", t, {"gone"})
          /\ In("primary", t, {"wait", "rm_avail"})

\* How far a partner is with its own and with the other's compatibility file.
Disconnecting(p) == In(p, "disconn", FileStep)

Wrote(p) ==
    \/ tag[p] = "handshake" /\ pc[p] \notin {"gone", "open"}
    \/ Disconnecting(p)

Announced(p) ==
    \/ tag[p] = "handshake" /\ pc[p] \notin {"gone", "open", "perms", "avail"}
    \/ Disconnecting(p)

Found(p) ==
    \/ In(p, "handshake", {"rm_avail", "load", "rm_data", "check", "connected"})
    \/ Disconnecting(p)

Loaded(p) ==
    \/ In(p, "handshake", {"rm_data", "check", "connected"})
    \/ Disconnecting(p)

Accepted(p) == pc[p] = "connected" \/ Disconnecting(p)

HandshakeFiles(p) ==
    LET q == Other(p)
    IN  /\ Exists(<<p, "handshake", "data">>) <=>
              /\ Wrote(p)
              /\ \/ In(q, "conn", {"gone"})
                 \/ tag[q] = "handshake" /\ pc[q] \notin {"check", "connected"}
        /\ Exists(<<p, "handshake", "avail">>) <=>
              /\ Announced(p)
              /\ \/ In(q, "conn", {"gone"})
                 \/ In(q, "handshake",
                       {"gone", "open", "perms", "avail", "wait", "rm_avail"})
        /\ Exists(<<p, "handshake", "data">>) =>
              dir[<<p, "handshake", "data">>] = MyInfo(p)

\* Only an announced file is found; its owner may already be a step further.
HandshakeOrder(p) ==
    Found(p) => \/ Announced(Other(p))
                \/ SyncsLeft(Other(p)) = SyncsLeft(p) + 1

Verdict(p) ==
    LET q == Other(p)
    IN  /\ Loaded(p) => partnerInfo[p] # Absent
        /\ partnerInfo[p] # Absent =>
              /\ tag[p] # "conn"
              /\ partnerInfo[p].run = run
              /\ partnerInfo[p].session = session[p]
              /\ session[q] = session[p] => partnerInfo[p] = MyInfo(q)
        /\ Accepted(p) /\ session[q] = session[p] =>
              setting[p] = setting[q] /\ trace[p] = trace[q]
        /\ status[p] = "failed" =>
              /\ tag[p] = "handshake"
              /\ pc[p] # "connected"
              /\ session[q] = session[p]
              /\ setting[p] # setting[q] \/ trace[p] # trace[q]

FolderInv ==
    IF CommInFolder
    THEN /\ pc["primary"] \notin {"idle", "remove_all", "create_dir"} => folder
         /\ pc["primary"] = "idle" /\ session["primary"] > 0 => ~folder
    ELSE folder

\* What the exchange of data left in the folder is still in the folder, or
\* remove_all() has found it.
DataInv ==
    CommInFolder =>
        /\ pc["primary"] = "remove_all" =>
              \A f \in DataFile : Exists(f) => f \in listing
        /\ \/ pc["primary"] = "idle"
           \/ pc["primary"] # "remove_all" /\ tag["primary"] = "conn"
           => \A f \in DataFile : ~Exists(f)

CleanInv ==
    /\ BarrierInv
    /\ \A t \in SyncTag : SyncOrder(t) /\ SyncFiles(t)
    /\ \A p \in Partner : HandshakeOrder(p) /\ HandshakeFiles(p) /\ Verdict(p)
    /\ FolderInv
    /\ DataInv

IInv == TypeOK /\ Shape /\ IF Dirty THEN DirtyInv ELSE CleanInv
=============================================================================
