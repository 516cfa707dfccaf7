----------------------------- MODULE RanksProofs -----------------------------
(***************************************************************************)
(* RanksMeet, NoHalfConnection, ImportsFromTwin and MatchingNeverThrows of *)
(* Ranks, for every number of ranks, program and size of the socket's      *)
(* buffer.                                                                 *)
(*                                                                         *)
(* A rank works through the list todo.  The invariant says of this list    *)
(* only which steps do not come before or after which others; this is kept *)
(* when a step is taken off the list, and is all that is needed about the  *)
(* order of the code.  That matching partners never throw needs more: how  *)
(* many messages and synchronisations are still to come.                   *)
(***************************************************************************)
EXTENDS Ranks, Integers, SequenceTheorems, FunctionTheorems, FiniteSetTheorems, TLAPS

-----------------------------------------------------------------------------
(* Lists of steps.                                                          *)

Without(s, steps) == \A i \in 1..Len(s) : s[i] \notin steps

Has(s, steps) == \E i \in 1..Len(s) : s[i] \in steps

\* None of the steps in later comes before one of the gate.
Guarded(s, gate, later) ==
    \A i \in 1..Len(s) : s[i] \in later => \E j \in 1..(i - 1) : s[j] \in gate

\* None of the steps in banned comes after one in first.
NotAfter(s, first, banned) ==
    \A i, j \in 1..Len(s) : i < j /\ s[i] \in first => s[j] \notin banned

LEMMA TailFacts ==
    ASSUME NEW S, NEW s \in Seq(S), s # << >>
    PROVE  /\ Tail(s) \in Seq(S) /\ Len(s) \in Nat /\ Len(s) > 0
           /\ Len(Tail(s)) = Len(s) - 1
           /\ Head(s) = s[1] /\ Head(s) \in S
           /\ \A i \in 1..Len(Tail(s)) : Tail(s)[i] = s[i + 1] /\ i + 1 \in 1..Len(s)
OBVIOUS

LEMMA ConcatFacts ==
    ASSUME NEW S, NEW s \in Seq(S), NEW t \in Seq(S)
    PROVE  /\ s \o t \in Seq(S)
           /\ Len(s) \in Nat /\ Len(t) \in Nat
           /\ Len(s \o t) = Len(s) + Len(t)
           /\ \A i \in 1..Len(s) : (s \o t)[i] = s[i]
           /\ \A i \in 1..Len(t) : (s \o t)[Len(s) + i] = t[i]
OBVIOUS

\* Every place of s \o t is one of s or one of t.
LEMMA ConcatPlaces ==
    ASSUME NEW S, NEW s \in Seq(S), NEW t \in Seq(S), NEW i \in 1..Len(s \o t)
    PROVE  \/ i \in 1..Len(s) /\ (s \o t)[i] = s[i]
           \/ \E k \in 1..Len(t) : i = Len(s) + k /\ (s \o t)[i] = t[k]
<1>1. CASE i \in 1..Len(s)
  BY <1>1, ConcatFacts
<1>2. CASE i \notin 1..Len(s)
  <2>1. i - Len(s) \in 1..Len(t) /\ i = Len(s) + (i - Len(s))
    BY <1>2, ConcatFacts
  <2> QED BY <2>1, ConcatFacts
<1> QED BY <1>1, <1>2

\* Taking off the first step.
LEMMA WithoutTail ==
    ASSUME NEW S, NEW s \in Seq(S), s # << >>, NEW K, Without(s, K)
    PROVE  Without(Tail(s), K) /\ Head(s) \notin K
BY TailFacts DEF Without

LEMMA NotAfterTail ==
    ASSUME NEW S, NEW s \in Seq(S), s # << >>, NEW F, NEW B, NotAfter(s, F, B)
    PROVE  NotAfter(Tail(s), F, B) /\ (Head(s) \in F => Without(Tail(s), B))
<1>1. NotAfter(Tail(s), F, B)
  <2> SUFFICES ASSUME NEW i \in 1..Len(Tail(s)), NEW j \in 1..Len(Tail(s)),
                      i < j, Tail(s)[i] \in F
               PROVE  Tail(s)[j] \notin B
    BY DEF NotAfter
  <2>1. i + 1 < j + 1 /\ i + 1 \in 1..Len(s) /\ j + 1 \in 1..Len(s)
    BY TailFacts
  <2> QED BY <2>1, TailFacts DEF NotAfter
<1>2. ASSUME Head(s) \in F, NEW j \in 1..Len(Tail(s)) PROVE Tail(s)[j] \notin B
  <2>1. 1 < j + 1 /\ 1 \in 1..Len(s) /\ j + 1 \in 1..Len(s)
    BY TailFacts
  <2> QED BY <1>2, <2>1, TailFacts DEF NotAfter
<1> QED BY <1>1, <1>2 DEF Without

LEMMA GuardedTail ==
    ASSUME NEW S, NEW s \in Seq(S), s # << >>, NEW G, NEW K, Guarded(s, G, K)
    PROVE  Head(s) \notin K /\ (Head(s) \notin G => Guarded(Tail(s), G, K))
<1>1. Head(s) \notin K
  <2>1. 1 \in 1..Len(s) /\ 1..(1 - 1) = {}
    BY TailFacts
  <2> QED BY <2>1, TailFacts DEF Guarded
<1>2. ASSUME Head(s) \notin G, NEW i \in 1..Len(Tail(s)), Tail(s)[i] \in K
      PROVE  \E j \in 1..(i - 1) : Tail(s)[j] \in G
  <2>1. PICK j \in 1..((i + 1) - 1) : s[j] \in G
    BY <1>2, TailFacts DEF Guarded
  <2>2. j # 1
    BY <1>2, <2>1, TailFacts
  <2>3. j - 1 \in 1..(i - 1) /\ j - 1 \in 1..Len(Tail(s)) /\ (j - 1) + 1 = j
    BY <1>2, <2>2, TailFacts
  <2>4. Tail(s)[j - 1] = s[j]
    BY <2>3, TailFacts
  <2> QED BY <2>1, <2>3, <2>4
<1> QED BY <1>1, <1>2 DEF Guarded

\* Putting lists together.
LEMMA WithoutSeq ==
    ASSUME NEW W, NEW s \in Seq(W), NEW K, \A w \in W : w \notin K
    PROVE  Without(s, K)
BY DEF Without

LEMMA WithoutConcat ==
    ASSUME NEW S, NEW s \in Seq(S), NEW t \in Seq(S), NEW K, Without(s, K), Without(t, K)
    PROVE  Without(s \o t, K)
BY ConcatPlaces DEF Without

LEMMA HasConcat ==
    ASSUME NEW S, NEW s \in Seq(S), NEW t \in Seq(S), NEW G, Has(s, G) \/ Has(t, G)
    PROVE  Has(s \o t, G)
<1>1. CASE Has(s, G)
  <2>1. PICK i \in 1..Len(s) : s[i] \in G
    BY <1>1 DEF Has
  <2>2. i \in 1..Len(s \o t) /\ (s \o t)[i] = s[i]
    BY <2>1, ConcatFacts
  <2> QED BY <2>1, <2>2 DEF Has
<1>2. CASE Has(t, G)
  <2>1. PICK i \in 1..Len(t) : t[i] \in G
    BY <1>2 DEF Has
  <2>2. Len(s) + i \in 1..Len(s \o t) /\ (s \o t)[Len(s) + i] = t[i]
    BY <2>1, ConcatFacts
  <2> QED BY <2>1, <2>2 DEF Has
<1> QED BY <1>1, <1>2

LEMMA NotAfterConcat ==
    ASSUME NEW S, NEW s \in Seq(S), NEW t \in Seq(S), NEW F, NEW B,
           NotAfter(s, F, B), NotAfter(t, F, B), Without(s, F) \/ Without(t, B)
    PROVE  NotAfter(s \o t, F, B)
<1> SUFFICES ASSUME NEW i \in 1..Len(s \o t), NEW j \in 1..Len(s \o t),
                    i < j, (s \o t)[i] \in F
             PROVE  (s \o t)[j] \notin B
  BY DEF NotAfter
<1>1. CASE j \in 1..Len(s)
  <2>1. i \in 1..Len(s) /\ (s \o t)[i] = s[i] /\ (s \o t)[j] = s[j]
    BY <1>1, ConcatFacts
  <2> QED BY <1>1, <2>1 DEF NotAfter
<1>2. ASSUME NEW k \in 1..Len(t), j = Len(s) + k, (s \o t)[j] = t[k]
      PROVE  (s \o t)[j] \notin B
  <2>1. CASE i \in 1..Len(s)
    BY <1>2, <2>1, ConcatFacts DEF Without
  <2>2. ASSUME NEW l \in 1..Len(t), i = Len(s) + l, (s \o t)[i] = t[l]
        PROVE  (s \o t)[j] \notin B
    <3>1. l < k /\ t[l] \in F
      BY <1>2, <2>2, ConcatFacts
    <3>2. t[k] \notin B
      BY <3>1 DEF NotAfter
    <3> QED BY <1>2, <3>2
  <2>3. i \in 1..Len(s) \/ \E l \in 1..Len(t) : i = Len(s) + l /\ (s \o t)[i] = t[l]
    BY ConcatPlaces
  <2> QED BY <2>1, <2>2, <2>3
<1>3. j \in 1..Len(s) \/ \E k \in 1..Len(t) : j = Len(s) + k /\ (s \o t)[j] = t[k]
  BY ConcatPlaces
<1> QED BY <1>1, <1>2, <1>3

LEMMA GuardedConcat ==
    ASSUME NEW S, NEW s \in Seq(S), NEW t \in Seq(S), NEW G, NEW K,
           Guarded(s, G, K), Guarded(t, G, K) \/ Has(s, G)
    PROVE  Guarded(s \o t, G, K)
<1> SUFFICES ASSUME NEW i \in 1..Len(s \o t), (s \o t)[i] \in K
             PROVE  \E j \in 1..(i - 1) : (s \o t)[j] \in G
  BY DEF Guarded
<1>1. CASE i \in 1..Len(s)
  <2>1. PICK j \in 1..(i - 1) : s[j] \in G
    BY <1>1, ConcatFacts DEF Guarded
  <2>2. j \in 1..Len(s)
    BY <1>1, ConcatFacts
  <2> QED BY <2>1, <2>2, ConcatFacts
<1>2. ASSUME NEW k \in 1..Len(t), i = Len(s) + k, (s \o t)[i] = t[k]
      PROVE  \E j \in 1..(i - 1) : (s \o t)[j] \in G
  <2>1. CASE Has(s, G)
    <3>1. PICK j \in 1..Len(s) : s[j] \in G
      BY <2>1 DEF Has
    <3>2. j \in 1..(i - 1) /\ (s \o t)[j] = s[j]
      BY <1>2, ConcatFacts
    <3> QED BY <3>1, <3>2
  <2>2. CASE Guarded(t, G, K)
    <3>1. PICK j \in 1..(k - 1) : t[j] \in G
      BY <1>2, <2>2 DEF Guarded
    <3>2. Len(s) + j \in 1..(i - 1) /\ j \in 1..Len(t)
      BY <1>2, <3>1, ConcatFacts
    <3>3. (s \o t)[Len(s) + j] = t[j]
      BY <3>2, ConcatFacts
    <3> QED BY <3>1, <3>2, <3>3
  <2> QED BY <2>1, <2>2
<1>3. i \in 1..Len(s) \/ \E k \in 1..Len(t) : i = Len(s) + k /\ (s \o t)[i] = t[k]
  BY ConcatPlaces
<1> QED BY <1>1, <1>2, <1>3

LEMMA GuardedWithout ==
    ASSUME NEW s, NEW G, NEW K, Without(s, K)
    PROVE  Guarded(s, G, K)
BY DEF Without, Guarded

LEMMA NotAfterWithout ==
    ASSUME NEW s, NEW F, NEW B, Without(s, F) \/ Without(s, B)
    PROVE  NotAfter(s, F, B)
BY DEF Without, NotAfter

LEMMA EmptyList ==
    ASSUME NEW G, NEW K
    PROVE  Without(<< >>, K) /\ Guarded(<< >>, G, K) /\ NotAfter(<< >>, G, K)
BY DEF Without, Guarded, NotAfter

-----------------------------------------------------------------------------
(* The invariant.                                                           *)

\* Steps that are not in the code of a rank.
Foreign(x) ==
    (IF x[1] = "primary" THEN {"connect", "look_up"}
     ELSE {"listen", "collect", "report", "accept", "open_port", "get_port"})
    \cup (IF Format = "socket" THEN {"bind"} ELSE {"listen", "collect", "report", "look_up"})
    \cup (IF Format = "mpi_inter" THEN {"accept", "connect"}
          ELSE {"open_port", "get_port", "join", "joined"})
    \cup (IF x[2] = 0 THEN {} ELSE {"collect", "open_port"})

\* What is always true of the list of a rank ...
ListInv(x) ==
    /\ self[x].todo \in Seq(StepName)
    /\ Without(self[x].todo, Foreign(x))
    /\ NotAfter(self[x].todo, {"close", "leave"}, {"send"})
    /\ NotAfter(self[x].todo, {"listen"}, {"listen"})

\* ... and what is true until a rank has passed a gate, or afterwards.
GateInv(x) ==
    /\ ~Agreed => /\ self[x].peer = Nobody
                  /\ Guarded(self[x].todo, {"judge", "get_info"},
                             {"broadcast", "accept", "connect", "joined"})
    /\ self[x].peer = Nobody =>
          Guarded(self[x].todo, {"accept", "connect", "joined"},
                  {"send", "receive", "close"})
    /\ self[x].closed => Without(self[x].todo, {"send"})
    /\ Format = "socket" /\ x[1] = "primary" =>
          IF self[x].port = 0
          THEN Guarded(self[x].todo, {"listen"}, {"collect", "report"})
          ELSE Without(self[x].todo, {"listen"})
    /\ Format = "mpi_inter" /\ x[1] = "secondary" /\ self[x].info = NoInfo =>
          Guarded(self[x].todo, {"judge", "get_info"}, {"join"})
    /\ Format = "mpi_inter" /\ x[1] = "primary" /\ part["primary"].infos = << >> =>
          Guarded(self[x].todo, {"open_port"}, {"offer"})

\* A rank 0 has told the truth, and does not pass on what does not fit.
HandShakeInv ==
    /\ \A p \in Partner :
          /\ part[p].offer # NoInfo => /\ part[p].offer.size = Size[p]
                                       /\ part[p].offer.setting = conn.setting[p]
          /\ ~Agreed => part[p].cast = NoInfo
    /\ Format = "mpi_inter" =>
          /\ part["primary"].offer # NoInfo => part["primary"].offer.ports # << >>
          /\ part["secondary"].cast # NoInfo => part["secondary"].cast.ports # << >>
          /\ \A x \in Ranks("secondary") :
                self[x].info # NoInfo => self[x].info.ports # << >>

\* The j-th port is the one rank j - 1 of the primary listens at.
Known(ports) == \A j \in 1..Len(ports) :
    /\ <<"primary", j - 1>> \in Proc
    /\ self[<<"primary", j - 1>>].port = ports[j]
    /\ ports[j] # 0

\* The ports of the primary's ranks differ, and the others know the right ones.
PortsInv ==
    /\ \A x \in Ranks("primary") :
          /\ self[x].port < FreePort
          /\ \A y \in Ranks("primary") :
                self[x].port # 0 /\ self[x].port = self[y].port => x = y
          /\ self[x].acceptor = "listening" => self[x].port # 0
          /\ self[x].letter # 0 => self[x].letter = self[x].port
    /\ \A x \in Ranks("secondary") : self[x].port # 0 =>
          Twin(x) \in Proc /\ self[x].port = self[Twin(x)].port
    /\ \A x \in Proc : Known(self[x].info.ports)
    /\ \A p \in Partner : /\ Known(part[p].infos)
                          /\ Known(part[p].offer.ports)
                          /\ Known(part[p].cast.ports)

\* A rank deals with ranks of the other partner only.
SideInv(x) ==
    /\ self[x].peer # Nobody => self[x].peer[1] = Other(x[1])
    /\ \A i \in 1..Len(self[x].backlog) : self[x].backlog[i][1] = Other(x[1])

RankInv ==
    /\ RanksTypeOK
    /\ self \in [Proc -> RankState]
    /\ \A x \in Proc : ListInv(x) /\ GateInv(x) /\ SideInv(x)
    /\ HandShakeInv
    /\ Format = "socket" => PortsInv

\* A rank, and what waits to be accepted, belongs to the same rank of the partner.
MeetInv == \A x \in Proc :
    /\ self[x].peer \in {Nobody, Twin(x)}
    /\ \A i \in 1..Len(self[x].backlog) : self[x].backlog[i] = Twin(x)

\* The messages of a rank are numbered, and those on the way are the next ones.
StreamInv == \A x \in Proc :
    /\ \A i \in 1..Len(self[x].received) : self[x].received[i] = <<Twin(x), i>>
    /\ \A i \in 1..Len(self[x].stream) :
          self[x].stream[i] = <<Twin(x), Len(self[x].received) + i>>
    /\ Twin(x) \in Proc /\ ~self[Twin(x)].closed =>
          self[Twin(x)].sent = Len(self[x].received) + Len(self[x].stream)

-----------------------------------------------------------------------------
(* Ranks and the lists they start with.                                      *)

LEMMA OtherPartner ==
    /\ Other("primary") = "secondary" /\ Other("secondary") = "primary"
    /\ "primary" \in Partner /\ "secondary" \in Partner
    /\ \A p \in Partner : Other(p) \in Partner /\ Other(p) # p /\ Other(Other(p)) = p
BY DEF Other, Partner

\* What the ranks of an instance are.
LEMMA ConnFacts ==
    ASSUME conn \in Instances
    PROVE  /\ Format \in {"socket", "local_socket", "mpi_inter"}
           /\ \A p \in Partner : /\ Size[p] \in Nat /\ Size[p] > 0 /\ Size[p] <= MaxRanks
                                 /\ conn.setting[p] \in Setting
                                 /\ conn.script[p] \in Seq(Op)
           /\ MaxRanks \in Nat
BY RanksAssumption DEF Instance, Format, Size

LEMMA ProcFacts ==
    ASSUME conn \in Instances, NEW x \in Proc
    PROVE  /\ x[1] \in Partner /\ x[2] \in Nat /\ x[2] < Size[x[1]]
           /\ x = <<x[1], x[2]>> /\ x \in AnyProc
           /\ Twin(x) \in AnyProc /\ Twin(x) # x /\ Twin(x) # Nobody /\ x # Nobody
           /\ Twin(Twin(x)) = x
           /\ Twin(x)[1] = Other(x[1]) /\ Twin(x)[2] = x[2]
           /\ Twin(x) \in Proc <=> x[2] < Size[Other(x[1])]
<1>1. x \in AnyProc /\ x[2] < Size[x[1]] /\ MaxRanks \in Nat
  BY ConnFacts DEF Proc
<1>2. x[1] \in Partner /\ x[2] \in 0..(MaxRanks - 1) /\ x = <<x[1], x[2]>>
  BY <1>1 DEF AnyProc
<1>3. /\ Other(x[1]) \in Partner /\ Other(x[1]) # x[1] /\ Other(Other(x[1])) = x[1]
      /\ "nobody" \notin Partner
  BY <1>2, OtherPartner DEF Partner
<1>4. Twin(x) = <<Other(x[1]), x[2]>> /\ Twin(x) \in AnyProc
  BY <1>2, <1>3 DEF Twin, AnyProc
<1>5. Twin(x)[1] = Other(x[1]) /\ Twin(x)[2] = x[2]
  BY <1>4
<1>6. Twin(Twin(x)) = x
  BY <1>2, <1>3, <1>5 DEF Twin
<1>7. Nobody[1] = "nobody"
  BY DEF Nobody
<1> QED BY <1>1, <1>2, <1>3, <1>4, <1>5, <1>6, <1>7 DEF Proc

LEMMA OneStep ==
    ASSUME NEW a
    PROVE  <<a>> \in Seq({a}) /\ Has(<<a>>, {a}) /\ Len(<<a>>) = 1 /\ <<a>>[1] = a
<1>1. <<a>> \in Seq({a}) /\ Len(<<a>>) = 1 /\ <<a>>[1] = a /\ 1 \in 1..Len(<<a>>)
  OBVIOUS
<1> QED BY <1>1 DEF Has

LEMMA SeqMono ==
    ASSUME NEW V, NEW W, NEW s \in Seq(V), \A v \in V : v \in W
    PROVE  s \in Seq(W)
OBVIOUS

LEMMA SyncList == \A r : SynchronizeAll(r) \in Seq(SyncSteps)
<1> TAKE r
<1> DEFINE a == <<"arrive", "depart">>
           b == IF r = 0 THEN <<"sync", "synced">> ELSE << >>
<1>1. a \in Seq(SyncSteps) /\ b \in Seq(SyncSteps)
  <2>1. <<"sync", "synced">> \in Seq(SyncSteps) /\ << >> \in Seq(SyncSteps)
    BY DEF SyncSteps
  <2>2. a \in Seq(SyncSteps)
    BY DEF SyncSteps
  <2> QED BY <2>1, <2>2
<1>2. SynchronizeAll(r) = (a \o b) \o a
  BY DEF SynchronizeAll
<1> HIDE DEF a, b
<1>3. a \o b \in Seq(SyncSteps)
  BY <1>1, ConcatFacts
<1> QED BY <1>1, <1>2, <1>3, ConcatFacts

LEMMA PrepareList ==
    ASSUME NEW x, x[1] \in Partner,
           Format \in {"socket", "local_socket", "mpi_inter"}
    PROVE  LET P == PrepareConnection(x[1], x[2])
           IN  /\ P \in Seq(PrepareSteps)
               /\ Without(P, Foreign(x))
               /\ NotAfter(P, {"listen"}, {"listen"})
               /\ Format = "socket" => Guarded(P, {"listen"}, {"collect", "report"})
               /\ Format = "mpi_inter" /\ x[1] = "primary" /\ x[2] = 0 => Has(P, {"open_port"})
<1> DEFINE P == PrepareConnection(x[1], x[2])
           W == {"listen", "collect", "report", "reported"}
           a == <<"listen">>
<1>1. ASSUME x[1] = "primary", Format = "socket",
             NEW V, NEW b \in Seq(V), P = a \o b,
             V \subseteq {"collect", "report", "reported"}, \A v \in V : v \notin Foreign(x)
      PROVE  /\ P \in Seq(PrepareSteps) /\ Without(P, Foreign(x))
             /\ NotAfter(P, {"listen"}, {"listen"})
             /\ Guarded(P, {"listen"}, {"collect", "report"})
  <2>1. a \in Seq({"listen"}) /\ Has(a, {"listen"}) /\ Len(a) = 1 /\ a[1] = "listen"
    BY OneStep
  <2> HIDE DEF a, P
  <2>2. a \in Seq(W) /\ b \in Seq(W)
    BY <1>1, <2>1, SeqMono
  <2>3. /\ Without(a, {"collect", "report"}) /\ Without(b, {"listen"})
        /\ NotAfter(a, {"listen"}, {"listen"})
    BY <1>1, <2>1, WithoutSeq DEF NotAfter
  <2>4. Without(a, Foreign(x)) /\ Without(b, Foreign(x))
    <3>1. \A v \in {"listen"} : v \notin Foreign(x)
      BY <1>1 DEF Foreign
    <3> QED BY <1>1, <2>1, <3>1, WithoutSeq
  <2>5. Guarded(a, {"listen"}, {"collect", "report"}) /\ NotAfter(b, {"listen"}, {"listen"})
    BY <2>3, GuardedWithout, NotAfterWithout
  <2>6. P \in Seq(W)
    BY <1>1, <2>2, ConcatFacts
  <2>7. NotAfter(P, {"listen"}, {"listen"})
    BY <1>1, <2>2, <2>3, <2>5, NotAfterConcat
  <2>8. Guarded(P, {"listen"}, {"collect", "report"})
    BY <1>1, <2>1, <2>2, <2>5, GuardedConcat
  <2>9. Without(P, Foreign(x))
    BY <1>1, <2>2, <2>4, WithoutConcat
  <2>10. P \in Seq(PrepareSteps)
    BY <2>6, SeqMono DEF PrepareSteps
  <2> QED BY <2>7, <2>8, <2>9, <2>10
<1>2. CASE x[1] = "primary" /\ Format = "socket"
  <2>1. CASE x[2] = 0
    <3> DEFINE V == {"collect"}
    <3>1. P = a \o <<"collect">> /\ <<"collect">> \in Seq(V)
      BY <1>2, <2>1 DEF PrepareConnection
    <3>2. \A v \in V : v \notin Foreign(x)
      BY <1>2, <2>1 DEF Foreign
    <3>3. V \subseteq {"collect", "report", "reported"}
      OBVIOUS
    <3> HIDE DEF a, P, V
    <3>4. /\ P \in Seq(PrepareSteps) /\ Without(P, Foreign(x))
          /\ NotAfter(P, {"listen"}, {"listen"})
          /\ Guarded(P, {"listen"}, {"collect", "report"})
      BY <1>1, <1>2, <3>1, <3>2, <3>3
    <3> QED BY <1>2, <3>4 DEF P
  <2>2. CASE x[2] # 0
    <3> DEFINE V == {"report", "reported"}
    <3>1. P = a \o <<"report", "reported">> /\ <<"report", "reported">> \in Seq(V)
      BY <1>2, <2>2 DEF PrepareConnection
    <3>2. \A v \in V : v \notin Foreign(x)
      BY <1>2, <2>2 DEF Foreign
    <3>3. V \subseteq {"collect", "report", "reported"}
      OBVIOUS
    <3> HIDE DEF a, P, V
    <3>4. /\ P \in Seq(PrepareSteps) /\ Without(P, Foreign(x))
          /\ NotAfter(P, {"listen"}, {"listen"})
          /\ Guarded(P, {"listen"}, {"collect", "report"})
      BY <1>1, <1>2, <3>1, <3>2, <3>3
    <3> QED BY <1>2, <3>4 DEF P
  <2> QED BY <2>1, <2>2
<1>3. ASSUME x[1] = "primary", Format = "mpi_inter", NEW step, P = <<step>>,
             step \in {"open_port", "get_port"}, step \notin Foreign(x),
             x[2] = 0 => step = "open_port"
      PROVE  /\ P \in Seq(PrepareSteps) /\ Without(P, Foreign(x))
             /\ NotAfter(P, {"listen"}, {"listen"})
             /\ x[2] = 0 => Has(P, {"open_port"})
  <2>1. P \in Seq({step}) /\ (x[2] = 0 => Has(P, {"open_port"}))
    BY <1>3, OneStep
  <2> HIDE DEF P
  <2>2. Without(P, Foreign(x)) /\ Without(P, {"listen"})
    <3>1. \A v \in {step} : v \notin Foreign(x) /\ v \notin {"listen"}
      BY <1>3
    <3> QED BY <2>1, <3>1, WithoutSeq
  <2>3. P \in Seq(PrepareSteps)
    BY <1>3, <2>1, SeqMono DEF PrepareSteps
  <2> QED BY <2>1, <2>2, <2>3, NotAfterWithout
<1>4. CASE x[1] = "primary" /\ Format = "mpi_inter"
  <2>1. CASE x[2] = 0
    <3>1. P = <<"open_port">> /\ "open_port" \notin Foreign(x)
      BY <1>4, <2>1 DEF PrepareConnection, Foreign
    <3> HIDE DEF P
    <3> QED BY <1>3, <1>4, <3>1 DEF P
  <2>2. CASE x[2] # 0
    <3>1. P = <<"get_port">> /\ "get_port" \notin Foreign(x)
      BY <1>4, <2>2 DEF PrepareConnection, Foreign
    <3> HIDE DEF P
    <3> QED BY <1>3, <1>4, <2>2, <3>1 DEF P
  <2> QED BY <2>1, <2>2
<1>5. CASE x[1] = "secondary" \/ (Format # "socket" /\ Format # "mpi_inter")
  <2>1. P = << >>
    BY <1>5 DEF PrepareConnection
  <2>2. << >> \in Seq(PrepareSteps)
    OBVIOUS
  <2> HIDE DEF P
  <2>3. /\ Without(P, Foreign(x)) /\ NotAfter(P, {"listen"}, {"listen"})
        /\ Guarded(P, {"listen"}, {"collect", "report"})
    BY <2>1, EmptyList
  <2> QED BY <1>5, <2>1, <2>2, <2>3 DEF P
<1> QED BY <1>2, <1>4, <1>5 DEF Partner

LEMMA ShakeList ==
    ASSUME NEW r
    PROVE  /\ HandShake(r) \in Seq(ShakeSteps)
           /\ Guarded(HandShake(r), {"judge", "get_info"}, {"broadcast"})
           /\ Has(HandShake(r), {"judge", "get_info"})
           /\ r # 0 => Without(HandShake(r), {"offer"})
<1> DEFINE H == HandShake(r)
<1>1. CASE r = 0
  <2>1. /\ H = <<"offer", "judge", "broadcast">> /\ Len(H) = 3
        /\ H[1] = "offer" /\ H[2] = "judge" /\ H[3] = "broadcast"
    BY <1>1 DEF HandShake
  <2>2. H \in Seq(ShakeSteps)
    BY <2>1 DEF ShakeSteps
  <2> HIDE DEF H
  <2>3. \A i \in 1..3 : i = 1 \/ i = 2 \/ i = 3
    OBVIOUS
  <2>4. 2 \in 1..(3 - 1) /\ 2 \in 1..3
    OBVIOUS
  <2>5. Guarded(H, {"judge", "get_info"}, {"broadcast"})
    BY <2>1, <2>3, <2>4 DEF Guarded
  <2>6. Has(H, {"judge", "get_info"})
    BY <2>1, <2>4 DEF Has
  <2> QED BY <1>1, <2>2, <2>5, <2>6 DEF H
<1>2. CASE r # 0
  <2>1. H = <<"get_info">>
    BY <1>2 DEF HandShake
  <2>2. H \in Seq({"get_info"}) /\ Has(H, {"get_info"})
    BY <2>1, OneStep
  <2> HIDE DEF H
  <2>3. Guarded(H, {"judge", "get_info"}, {"broadcast"}) /\ Without(H, {"offer"})
    BY <2>2, WithoutSeq, GuardedWithout
  <2>4. H \in Seq(ShakeSteps) /\ Has(H, {"judge", "get_info"})
    BY <2>2, SeqMono DEF ShakeSteps, Has
  <2> QED BY <2>3, <2>4 DEF H
<1> QED BY <1>1, <1>2

LEMMA DetailList ==
    ASSUME NEW x, x[1] \in Partner,
           Format \in {"socket", "local_socket", "mpi_inter"}
    PROVE  LET C == ConnectDetail(x[1], x[2])
           IN  /\ C \in Seq(DetailSteps \cup SyncSteps)
               /\ Has(C, {"accept", "connect", "joined"})
               /\ Without(C, Foreign(x))
<1> DEFINE C == ConnectDetail(x[1], x[2])
           W == DetailSteps \cup SyncSteps
           gate == {"accept", "connect", "joined"}
<1>1. ASSUME NEW V, C \in Seq(V), Has(C, gate), V \subseteq W, \A v \in V : v \notin Foreign(x)
      PROVE  C \in Seq(W) /\ Has(C, gate) /\ Without(C, Foreign(x))
  <2> HIDE DEF C, W, gate
  <2> QED BY <1>1, SeqMono, WithoutSeq
<1>2. CASE Format = "socket" /\ x[1] = "primary"
  <2>1. C = <<"accept">>
    BY <1>2 DEF ConnectDetail
  <2>2. C \in Seq({"accept"}) /\ Has(C, {"accept"})
    BY <2>1, OneStep
  <2>3. "accept" \notin Foreign(x)
    BY <1>2 DEF Foreign
  <2> HIDE DEF C
  <2>4. Has(C, gate) /\ {"accept"} \subseteq W
    BY <2>2 DEF DetailSteps, Has
  <2> QED BY <1>1, <2>2, <2>3, <2>4 DEF C
<1>3. CASE Format = "socket" /\ x[1] = "secondary"
  <2> DEFINE V == {"look_up", "connect"}
  <2>1. C = <<"look_up", "connect">> /\ Len(C) = 2 /\ C[2] = "connect"
    BY <1>3 DEF ConnectDetail
  <2>2. C \in Seq(V) /\ 2 \in 1..Len(C)
    BY <2>1
  <2>3. \A v \in V : v \notin Foreign(x)
    BY <1>3 DEF Foreign
  <2> HIDE DEF C
  <2>4. Has(C, gate) /\ V \subseteq W
    BY <2>1, <2>2 DEF DetailSteps, Has
  <2> QED BY <1>1, <2>2, <2>3, <2>4 DEF C
<1>4. CASE Format = "local_socket"
  <2> DEFINE S == SynchronizeAll(x[2])
  <2>1. S \in Seq(SyncSteps)
    BY SyncList
  <2>2. CASE x[1] = "primary"
    <3> DEFINE V == SyncSteps \cup {"unlink", "bind", "accept"}
               a == <<"unlink">>
               b == <<"bind">>
               c == <<"accept">>
    <3>1. C = (((a \o S) \o b) \o S) \o c
      BY <1>4, <2>2 DEF ConnectDetail, LocalSocket
    <3>2. a \in Seq(V) /\ b \in Seq(V) /\ c \in Seq(V) /\ Has(c, {"accept"})
      BY OneStep
    <3>3. S \in Seq(V)
      BY <2>1, SeqMono
    <3> HIDE DEF C, S, a, b, c
    <3>4. ((a \o S) \o b) \o S \in Seq(V)
      BY <3>2, <3>3, ConcatFacts
    <3>5. C \in Seq(V) /\ Has(C, {"accept"})
      BY <3>1, <3>2, <3>4, ConcatFacts, HasConcat
    <3>6. Has(C, gate) /\ V \subseteq W
      BY <3>5 DEF DetailSteps, Has
    <3>7. \A v \in V : v \notin Foreign(x)
      BY <1>4, <2>2 DEF Foreign, SyncSteps
    <3> HIDE DEF V
    <3> QED BY <1>1, <3>5, <3>6, <3>7 DEF C
  <2>3. CASE x[1] = "secondary"
    <3> DEFINE V == SyncSteps \cup {"connect"}
               c == <<"connect">>
    <3>1. C = (S \o S) \o c
      BY <1>4, <2>3 DEF ConnectDetail, LocalSocket
    <3>2. c \in Seq(V) /\ Has(c, {"connect"})
      BY OneStep
    <3>3. S \in Seq(V)
      BY <2>1, SeqMono
    <3> HIDE DEF C, S, c
    <3>4. S \o S \in Seq(V)
      BY <3>3, ConcatFacts
    <3>5. C \in Seq(V) /\ Has(C, {"connect"})
      BY <3>1, <3>2, <3>4, ConcatFacts, HasConcat
    <3>6. Has(C, gate) /\ V \subseteq W
      BY <3>5 DEF DetailSteps, Has
    <3>7. \A v \in V : v \notin Foreign(x)
      BY <1>4, <2>3 DEF Foreign, SyncSteps
    <3> HIDE DEF V
    <3> QED BY <1>1, <3>5, <3>6, <3>7 DEF C
  <2> QED BY <2>2, <2>3 DEF Partner
<1>5. CASE Format = "mpi_inter"
  <2> DEFINE V == {"join", "joined"}
  <2>1. C = <<"join", "joined">> /\ Len(C) = 2 /\ C[2] = "joined"
    BY <1>5 DEF ConnectDetail
  <2>2. C \in Seq(V) /\ 2 \in 1..Len(C)
    BY <2>1
  <2>3. \A v \in V : v \notin Foreign(x)
    BY <1>5 DEF Foreign
  <2> HIDE DEF C
  <2>4. Has(C, gate) /\ V \subseteq W
    BY <2>1, <2>2 DEF DetailSteps, Has
  <2> QED BY <1>1, <2>2, <2>3, <2>4 DEF C
<1> QED BY <1>2, <1>3, <1>4, <1>5 DEF Partner

LEMMA DisconnectList ==
    /\ DisconnectDetail \in Seq(LeaveSteps)
    /\ NotAfter(DisconnectDetail, {"close", "leave"}, {"send"})
<1>1. <<"leave", "left">> \in Seq(LeaveSteps) /\ <<"close">> \in Seq(LeaveSteps)
  BY DEF LeaveSteps
<1>3. DisconnectDetail \in Seq(LeaveSteps)
  BY <1>1 DEF DisconnectDetail
<1>4. \A v \in LeaveSteps : v \notin {"send"}
  BY DEF LeaveSteps
<1> QED BY <1>3, <1>4, WithoutSeq, NotAfterWithout

\* What the invariant says of the list with which a rank starts.
LEMMA StartList ==
    ASSUME NEW x, x[1] \in Partner, NEW script \in Seq(Op),
           Format \in {"socket", "local_socket", "mpi_inter"}
    PROVE  LET L == Connect(x[1], x[2]) \o script \o Disconnect(x[2])
           IN  /\ L \in Seq(StepName)
               /\ Without(L, Foreign(x))
               /\ NotAfter(L, {"close", "leave"}, {"send"})
               /\ NotAfter(L, {"listen"}, {"listen"})
               /\ Guarded(L, {"judge", "get_info"},
                          {"broadcast", "accept", "connect", "joined"})
               /\ Guarded(L, {"judge", "get_info"}, {"join"})
               /\ Guarded(L, {"accept", "connect", "joined"},
                          {"send", "receive", "close"})
               /\ Format = "socket" => Guarded(L, {"listen"}, {"collect", "report"})
               /\ Format = "mpi_inter" /\ x[1] = "primary" =>
                     Guarded(L, {"open_port"}, {"offer"})
<1> DEFINE a  == SynchronizeAll(x[2])
           b  == PrepareConnection(x[1], x[2])
           c  == HandShake(x[2])
           d  == ConnectDetail(x[1], x[2])
           e  == script
           f  == DisconnectDetail
           ab == a \o b
           ac == ab \o c
           ad == ac \o d
           ae == ad \o e
           fa == f \o a
           L  == ae \o fa
           N  == StepName
           F  == Foreign(x)
<1>1. Connect(x[1], x[2]) \o script \o Disconnect(x[2]) = L
  BY DEF Connect, Disconnect
<1>2. /\ a \in Seq(SyncSteps) /\ b \in Seq(PrepareSteps) /\ c \in Seq(ShakeSteps)
      /\ d \in Seq(DetailSteps \cup SyncSteps) /\ e \in Seq(Op) /\ f \in Seq(LeaveSteps)
  BY SyncList, PrepareList, ShakeList, DetailList, DisconnectList
<1>3. /\ Without(b, F) /\ NotAfter(b, {"listen"}, {"listen"})
      /\ Format = "socket" => Guarded(b, {"listen"}, {"collect", "report"})
      /\ Format = "mpi_inter" /\ x[1] = "primary" /\ x[2] = 0 => Has(b, {"open_port"})
  BY PrepareList
<1>4. /\ Guarded(c, {"judge", "get_info"}, {"broadcast"})
      /\ Has(c, {"judge", "get_info"})
      /\ x[2] # 0 => Without(c, {"offer"})
  BY ShakeList
<1>5. Has(d, {"accept", "connect", "joined"}) /\ Without(d, F)
  BY DetailList
<1>6. NotAfter(f, {"close", "leave"}, {"send"})
  BY DisconnectList
<1> HIDE DEF a, b, c, d, e, f
<1>7. /\ a \in Seq(N) /\ b \in Seq(N) /\ c \in Seq(N)
      /\ d \in Seq(N) /\ e \in Seq(N) /\ f \in Seq(N)
  <2>1. /\ \A v \in SyncSteps : v \in N
        /\ \A v \in PrepareSteps : v \in N
        /\ \A v \in ShakeSteps : v \in N
        /\ \A v \in DetailSteps \cup SyncSteps : v \in N
        /\ \A v \in Op : v \in N
        /\ \A v \in LeaveSteps : v \in N
    BY DEF StepName
  <2> QED BY <1>2, <2>1, SeqMono
<1>8. /\ ab \in Seq(N) /\ ac \in Seq(N) /\ ad \in Seq(N) /\ ae \in Seq(N)
      /\ fa \in Seq(N) /\ L \in Seq(N)
  BY <1>7, ConcatFacts
<1>9. ASSUME NEW K, Without(a, K), Without(b, K), Without(c, K), Without(d, K),
             Without(e, K), Without(f, K)
      PROVE  Without(L, K)
  <2>1. Without(ab, K) /\ Without(fa, K)
    BY <1>7, <1>9, WithoutConcat
  <2>2. Without(ac, K)
    BY <1>7, <1>8, <1>9, <2>1, WithoutConcat
  <2>3. Without(ad, K)
    BY <1>7, <1>8, <1>9, <2>2, WithoutConcat
  <2>4. Without(ae, K)
    BY <1>7, <1>8, <1>9, <2>3, WithoutConcat
  <2> QED BY <1>8, <2>1, <2>4, WithoutConcat
<1>10. ASSUME NEW G, NEW K, Guarded(ac, G, K), Has(ac, G)
       PROVE  Guarded(L, G, K)
  <2>1. Guarded(ad, G, K) /\ Has(ad, G)
    BY <1>7, <1>8, <1>10, GuardedConcat, HasConcat
  <2>2. Guarded(ae, G, K) /\ Has(ae, G)
    BY <1>7, <1>8, <2>1, GuardedConcat, HasConcat
  <2> QED BY <1>8, <2>2, GuardedConcat
<1>11. Without(L, F)
  <2>1. /\ \A v \in SyncSteps : v \notin F
        /\ \A v \in ShakeSteps : v \notin F
        /\ \A v \in Op : v \notin F
        /\ \A v \in LeaveSteps : v \notin F
    BY DEF Foreign, SyncSteps, ShakeSteps, Op, LeaveSteps
  <2>2. Without(a, F) /\ Without(c, F) /\ Without(e, F) /\ Without(f, F)
    BY <1>2, <2>1, WithoutSeq
  <2> QED BY <1>3, <1>5, <1>9, <2>2
<1>12. NotAfter(L, {"close", "leave"}, {"send"})
  <2> DEFINE K == {"close", "leave"}
  <2>1. /\ \A v \in SyncSteps : v \notin K /\ v \notin {"send"}
        /\ \A v \in PrepareSteps : v \notin K
        /\ \A v \in ShakeSteps : v \notin K
        /\ \A v \in DetailSteps \cup SyncSteps : v \notin K
        /\ \A v \in Op : v \notin K
        /\ \A v \in LeaveSteps : v \notin {"send"}
    BY DEF SyncSteps, PrepareSteps, ShakeSteps, DetailSteps, Op, LeaveSteps
  <2> HIDE DEF K
  <2>2. /\ Without(a, K) /\ Without(b, K) /\ Without(c, K) /\ Without(d, K) /\ Without(e, K)
        /\ Without(f, {"send"}) /\ Without(a, {"send"})
    BY <1>2, <2>1, WithoutSeq
  <2>3. Without(ab, K)
    BY <1>7, <2>2, WithoutConcat
  <2>4. Without(ac, K)
    BY <1>7, <1>8, <2>2, <2>3, WithoutConcat
  <2>5. Without(ad, K)
    BY <1>7, <1>8, <2>2, <2>4, WithoutConcat
  <2>6. Without(ae, K) /\ Without(fa, {"send"})
    BY <1>7, <1>8, <2>2, <2>5, WithoutConcat
  <2>7. NotAfter(ae, K, {"send"}) /\ NotAfter(fa, K, {"send"})
    BY <2>6, NotAfterWithout
  <2>8. NotAfter(L, K, {"send"})
    BY <1>8, <2>6, <2>7, NotAfterConcat
  <2> QED BY <2>8 DEF K
<1>13. NotAfter(L, {"listen"}, {"listen"})
  <2> DEFINE K == {"listen"}
  <2>1. /\ \A v \in SyncSteps : v \notin K
        /\ \A v \in ShakeSteps : v \notin K
        /\ \A v \in DetailSteps \cup SyncSteps : v \notin K
        /\ \A v \in Op : v \notin K
        /\ \A v \in LeaveSteps : v \notin K
    BY DEF SyncSteps, ShakeSteps, DetailSteps, Op, LeaveSteps
  <2>2. NotAfter(b, K, K)
    BY <1>3
  <2> HIDE DEF K
  <2>3. Without(a, K) /\ Without(c, K) /\ Without(d, K) /\ Without(e, K) /\ Without(f, K)
    BY <1>2, <2>1, WithoutSeq
  <2>4. /\ NotAfter(a, K, K) /\ NotAfter(c, K, K) /\ NotAfter(d, K, K)
        /\ NotAfter(e, K, K) /\ Without(fa, K)
    BY <1>7, <2>3, NotAfterWithout, WithoutConcat
  <2>5. NotAfter(ab, K, K)
    BY <1>7, <2>2, <2>3, <2>4, NotAfterConcat
  <2>6. NotAfter(ac, K, K)
    BY <1>7, <1>8, <2>3, <2>4, <2>5, NotAfterConcat
  <2>7. NotAfter(ad, K, K)
    BY <1>7, <1>8, <2>3, <2>4, <2>6, NotAfterConcat
  <2>8. NotAfter(ae, K, K) /\ NotAfter(fa, K, K)
    BY <1>7, <1>8, <2>3, <2>4, <2>7, NotAfterConcat, NotAfterWithout
  <2>9. NotAfter(L, K, K)
    BY <1>8, <2>4, <2>8, NotAfterConcat
  <2> QED BY <2>9 DEF K
<1>14. ASSUME NEW K, \A v \in SyncSteps : v \notin K,
              \A v \in PrepareSteps : v \notin K,
              Guarded(c, {"judge", "get_info"}, K)
       PROVE  Guarded(L, {"judge", "get_info"}, K)
  <2> DEFINE G == {"judge", "get_info"}
  <2> HIDE DEF G
  <2>1. Without(a, K) /\ Without(b, K)
    BY <1>2, <1>14, WithoutSeq
  <2>2. Guarded(ab, G, K)
    BY <1>7, <2>1, WithoutConcat, GuardedWithout
  <2>3. Guarded(ac, G, K) /\ Has(ac, G)
    BY <1>4, <1>7, <1>8, <1>14, <2>2, GuardedConcat, HasConcat DEF G
  <2> QED BY <1>10, <2>3 DEF G
<1>15. Guarded(L, {"judge", "get_info"}, {"broadcast", "accept", "connect", "joined"})
  <2> DEFINE K == {"broadcast", "accept", "connect", "joined"}
             J == {"accept", "connect", "joined"}
  <2>1. /\ \A v \in SyncSteps : v \notin K
        /\ \A v \in PrepareSteps : v \notin K
        /\ \A v \in ShakeSteps : v \notin J
    BY DEF SyncSteps, PrepareSteps, ShakeSteps
  <2>2. \A v : v \in K => v \in J \/ v \in {"broadcast"}
    OBVIOUS
  <2> HIDE DEF K, J
  <2>3. Without(c, J)
    BY <1>2, <2>1, WithoutSeq
  <2>4. Guarded(c, {"judge", "get_info"}, K)
    BY <1>4, <2>2, <2>3 DEF Guarded, Without
  <2>5. Guarded(L, {"judge", "get_info"}, K)
    BY <1>14, <2>1, <2>4
  <2> QED BY <2>5 DEF K
<1>16. Guarded(L, {"judge", "get_info"}, {"join"})
  <2> DEFINE K == {"join"}
  <2>1. /\ \A v \in SyncSteps : v \notin K
        /\ \A v \in PrepareSteps : v \notin K
        /\ \A v \in ShakeSteps : v \notin K
    BY DEF SyncSteps, PrepareSteps, ShakeSteps
  <2> HIDE DEF K
  <2>2. Guarded(c, {"judge", "get_info"}, K)
    BY <1>2, <2>1, WithoutSeq, GuardedWithout
  <2>3. Guarded(L, {"judge", "get_info"}, K)
    BY <1>14, <2>1, <2>2
  <2> QED BY <2>3 DEF K
<1>17. Guarded(L, {"accept", "connect", "joined"}, {"send", "receive", "close"})
  <2> DEFINE G == {"accept", "connect", "joined"}
             K == {"send", "receive", "close"}
  <2>1. /\ \A v \in SyncSteps : v \notin K
        /\ \A v \in PrepareSteps : v \notin K
        /\ \A v \in ShakeSteps : v \notin K
        /\ \A v \in DetailSteps \cup SyncSteps : v \notin K
    BY DEF SyncSteps, PrepareSteps, ShakeSteps, DetailSteps
  <2>2. Has(d, G)
    BY <1>5
  <2> HIDE DEF K, G
  <2>3. Without(a, K) /\ Without(b, K) /\ Without(c, K) /\ Without(d, K)
    BY <1>2, <2>1, WithoutSeq
  <2>4. Without(ab, K)
    BY <1>7, <2>3, WithoutConcat
  <2>5. Without(ac, K)
    BY <1>7, <1>8, <2>3, <2>4, WithoutConcat
  <2>6. Without(ad, K) /\ Has(ad, G)
    BY <1>7, <1>8, <2>2, <2>3, <2>5, WithoutConcat, HasConcat
  <2>7. Guarded(ad, G, K)
    BY <2>6, GuardedWithout
  <2>8. Guarded(ae, G, K) /\ Has(ae, G)
    BY <1>7, <1>8, <2>6, <2>7, GuardedConcat, HasConcat
  <2>9. Guarded(L, G, K)
    BY <1>8, <2>8, GuardedConcat
  <2> QED BY <2>9 DEF G, K
<1>18. ASSUME Format = "socket" PROVE Guarded(L, {"listen"}, {"collect", "report"})
  <2> DEFINE G == {"listen"}
             K == {"collect", "report"}
  <2>1. /\ \A v \in SyncSteps : v \notin K
        /\ \A v \in ShakeSteps : v \notin K
        /\ \A v \in DetailSteps \cup SyncSteps : v \notin K
        /\ \A v \in Op : v \notin K
        /\ \A v \in LeaveSteps : v \notin K
    BY DEF SyncSteps, ShakeSteps, DetailSteps, Op, LeaveSteps
  <2>2. Guarded(b, G, K)
    BY <1>3, <1>18
  <2> HIDE DEF K, G
  <2>3. Without(a, K) /\ Without(c, K) /\ Without(d, K) /\ Without(e, K) /\ Without(f, K)
    BY <1>2, <2>1, WithoutSeq
  <2>4. /\ Guarded(a, G, K) /\ Guarded(c, G, K) /\ Guarded(d, G, K)
        /\ Guarded(e, G, K) /\ Guarded(f, G, K)
    BY <2>3, GuardedWithout
  <2>5. Guarded(ab, G, K) /\ Guarded(fa, G, K)
    BY <1>7, <2>2, <2>4, GuardedConcat
  <2>6. Guarded(ac, G, K)
    BY <1>7, <1>8, <2>4, <2>5, GuardedConcat
  <2>7. Guarded(ad, G, K)
    BY <1>7, <1>8, <2>4, <2>6, GuardedConcat
  <2>8. Guarded(ae, G, K)
    BY <1>7, <1>8, <2>4, <2>7, GuardedConcat
  <2>9. Guarded(L, G, K)
    BY <1>8, <2>5, <2>8, GuardedConcat
  <2> QED BY <2>9 DEF G, K
<1>19. ASSUME Format = "mpi_inter", x[1] = "primary"
       PROVE  Guarded(L, {"open_port"}, {"offer"})
  <2> DEFINE G == {"open_port"}
             K == {"offer"}
  <2>1. /\ \A v \in SyncSteps : v \notin K
        /\ \A v \in PrepareSteps : v \notin K
        /\ \A v \in DetailSteps \cup SyncSteps : v \notin K
        /\ \A v \in Op : v \notin K
        /\ \A v \in LeaveSteps : v \notin K
    BY DEF SyncSteps, PrepareSteps, DetailSteps, Op, LeaveSteps
  <2>2. (x[2] = 0 => Has(b, G)) /\ (x[2] # 0 => Without(c, K))
    BY <1>3, <1>4, <1>19
  <2> HIDE DEF K, G
  <2>3. Without(a, K) /\ Without(b, K) /\ Without(d, K) /\ Without(e, K) /\ Without(f, K)
    BY <1>2, <2>1, WithoutSeq
  <2>4. CASE x[2] = 0
    <3>1. Guarded(ab, G, K) /\ Has(ab, G)
      BY <1>7, <2>2, <2>3, <2>4, WithoutConcat, GuardedWithout, HasConcat
    <3>2. Guarded(ac, G, K) /\ Has(ac, G)
      BY <1>7, <1>8, <3>1, GuardedConcat, HasConcat
    <3>3. Guarded(L, G, K)
      BY <1>10, <3>2
    <3> QED BY <3>3 DEF G, K
  <2>5. CASE x[2] # 0
    <3>1. Guarded(L, G, K)
      BY <1>9, <2>2, <2>3, <2>5, GuardedWithout
    <3> QED BY <3>1 DEF G, K
  <2> QED BY <2>4, <2>5
<1> HIDE DEF L
<1> QED BY <1>1, <1>8, <1>11, <1>12, <1>13, <1>15, <1>16, <1>17, <1>18, <1>19

-----------------------------------------------------------------------------
(* What a step of a rank does, field by field.                              *)

Types == /\ conn \in Instances
         /\ part \in [Partner -> PartState]
         /\ self \in [Proc -> RankState]

Gates == {"accept", "connect", "joined"}

TodoEffect(x) ==
    /\ self[x].todo # << >>
    /\ \A y \in Proc : y # x => self'[y].todo = self[y].todo
    /\ \/ self'[x].todo = Tail(self[x].todo)
       \/ self'[x].todo = << >>
       \/ self'[x].todo = self[x].todo /\ At(x, "collect")

PeerEffect(x) ==
    /\ \A y \in Proc : y # x => self'[y].peer = self[y].peer
    /\ \/ /\ At(x, "accept") /\ self[x].backlog # << >>
          /\ self'[x].peer = Head(self[x].backlog)
       \/ At(x, "connect") /\ self'[x].peer \in Server(x)
       \/ At(x, "joined") /\ self'[x].peer = Twin(x)
       \/ /\ self'[x].peer = self[x].peer
          /\ self'[x].todo = << >> \/ Head(self[x].todo) \notin Gates

PortEffect(x) ==
    /\ \A y \in Proc : y # x => self'[y].port = self[y].port
    /\ \/ At(x, "listen") /\ self'[x].port = FreePort
       \/ /\ At(x, "look_up") /\ Len(self[x].info.ports) = Size[x[1]]
          /\ self'[x].port = self[x].info.ports[Entry(x)]
       \/ At(x, "open_port") /\ self'[x].port = FreePort
       \/ At(x, "get_port") /\ self'[x].port = part[x[1]].portName
       \/ /\ At(x, "join")
          /\ self'[x].port = IF x[1] = "primary" THEN self[x].port ELSE self[x].info.ports[1]
       \/ self'[x].port = self[x].port /\ ~At(x, "listen")

InfoEffect(x) ==
    /\ \A y \in Proc : y # x => self'[y].info = self[y].info
    /\ \/ /\ At(x, "judge") /\ self'[x].info = part[Other(x[1])].offer
          /\ self'[x].info # NoInfo /\ Compatible(x[1], self'[x].info)
       \/ /\ At(x, "get_info") /\ self'[x].info = part[x[1]].cast
          /\ self'[x].info # NoInfo
       \/ /\ self'[x].info = self[x].info
          /\ self'[x].todo = << >> \/ Head(self[x].todo) \notin {"judge", "get_info"}

SocketEffect(x) == \A y \in Proc :
    /\ \/ self'[y].acceptor \in {self[y].acceptor, "closed"}
       \/ y = x /\ (At(x, "listen") \/ At(x, "bind"))
    /\ \/ self'[y].letter \in {self[y].letter, 0}
       \/ y = x /\ At(x, "report") /\ self'[y].letter = self[y].port
    /\ \/ self'[y].backlog = self[y].backlog
       \/ /\ At(x, "connect") /\ y \in Server(x)
          /\ self'[y].backlog = Append(self[y].backlog, x)

PartEffect(x) == \A p \in Partner :
    /\ \/ part'[p].infos = part[p].infos /\ (p = x[1] => ~At(x, "open_port"))
       \/ /\ At(x, "open_port") /\ p = x[1] /\ part'[p].infos = <<FreePort>>
       \/ /\ At(x, "collect") /\ p = "primary"
          /\ LET infos == IF part[x[1]].infos = << >> THEN <<self[x].port>>
                          ELSE part[x[1]].infos
             IN  \/ part'[p].infos = infos
                 \/ /\ Len(infos) < Size["primary"]
                    /\ self[<<"primary", Len(infos)>>].letter # 0
                    /\ part'[p].infos = Append(infos, self[<<"primary", Len(infos)>>].letter)
    /\ part'[p].offer # part[p].offer =>
          At(x, "offer") /\ p = x[1] /\ part'[p].offer = MyInfo(p)
    /\ part'[p].cast # part[p].cast =>
          At(x, "broadcast") /\ p = x[1] /\ part'[p].cast = self[x].info

CloseEffect(x) ==
    /\ \A y \in Proc : y # x => self'[y].closed = self[y].closed
    /\ \/ (At(x, "close") \/ At(x, "leave")) /\ self'[x].closed = TRUE
       \/ self'[x].closed = self[x].closed

StreamEffect(x) ==
    \/ \A y \in Proc : /\ self'[y].stream = self[y].stream
                       /\ self'[y].sent = self[y].sent
                       /\ self'[y].received = self[y].received
    \/ /\ At(x, "send")
       /\ \A y \in Proc :
            /\ self'[y].sent = IF y = x THEN self[y].sent + 1 ELSE self[y].sent
            /\ self'[y].stream = IF y = self[x].peer
                                 THEN Append(self[y].stream, <<x, self[x].sent + 1>>)
                                 ELSE self[y].stream
            /\ self'[y].received = self[y].received
    \/ /\ At(x, "receive") /\ self[x].stream # << >>
       /\ \A y \in Proc :
            /\ self'[y].sent = self[y].sent
            /\ self'[y].stream = IF y = x THEN Tail(self[y].stream) ELSE self[y].stream
            /\ self'[y].received = IF y = x THEN Append(self[y].received, Head(self[y].stream))
                                   ELSE self[y].received
    \/ /\ At(x, "close") /\ self'[x].closed = TRUE
       /\ \A y \in Proc :
            /\ self'[y].sent = self[y].sent
            /\ \/ self'[y].stream = self[y].stream
               \/ y = self[x].peer /\ self'[y].stream = << >>
            /\ self'[y].received = self[y].received

SelfEffects(x) == /\ TodoEffect(x) /\ PeerEffect(x) /\ PortEffect(x) /\ InfoEffect(x)
                  /\ SocketEffect(x) /\ CloseEffect(x) /\ StreamEffect(x)

Effects(x) == SelfEffects(x) /\ PartEffect(x)

\* A rank has a peer when it needs one, and does not connect to itself.
HasPeer(x) ==
    /\ At(x, "send") \/ At(x, "receive") \/ At(x, "close") =>
          self[x].peer \in Proc /\ self[x].peer # x
    /\ At(x, "connect") => x[1] # "primary"

\* Fields that an action leaves alone.
OthersKept(x) == \A y \in Proc : y # x => self'[y] = self[y]
PlaceKept(y)  == /\ self'[y].port = self[y].port
                 /\ self'[y].info = self[y].info
                 /\ self'[y].letter = self[y].letter
SocketKept(y) == self'[y].acceptor = self[y].acceptor /\ self'[y].backlog = self[y].backlog
PeerKept(y)   == self'[y].peer = self[y].peer /\ self'[y].closed = self[y].closed
StreamKept(y) == /\ self'[y].stream = self[y].stream
                 /\ self'[y].sent = self[y].sent
                 /\ self'[y].received = self[y].received
AllKept(y)    == PlaceKept(y) /\ SocketKept(y) /\ PeerKept(y) /\ StreamKept(y)

LEMMA AdvanceFields ==
    ASSUME Types, NEW x \in Proc, Advance(x)
    PROVE  OthersKept(x) /\ AllKept(x) /\ self'[x].todo = Tail(self[x].todo)
<1>1. /\ \A y \in Proc : y # x => self'[y] = self[y]
      /\ self'[x] = [self[x] EXCEPT !.todo = Tail(@)]
  BY DEF Types, Advance
<1> QED BY <1>1 DEF Types, RankState, OthersKept, AllKept, PlaceKept, SocketKept, PeerKept,
           StreamKept

LEMMA ThrowFields ==
    ASSUME Types, NEW x \in Proc,
           self' = [self EXCEPT ![x].status = "failed", ![x].todo = << >>]
    PROVE  OthersKept(x) /\ AllKept(x) /\ self'[x].todo = << >>
<1>1. /\ \A y \in Proc : y # x => self'[y] = self[y]
      /\ self'[x] = [self[x] EXCEPT !.status = "failed", !.todo = << >>]
  BY DEF Types
<1> QED BY <1>1 DEF Types, RankState, OthersKept, AllKept, PlaceKept, SocketKept, PeerKept,
           StreamKept

\* A step that only takes itself, or everything, off the list.
LEMMA QuietStep ==
    ASSUME NEW x \in Proc, OthersKept(x), AllKept(x), self[x].todo # << >>,
           \/ self'[x].todo = << >> /\ ~At(x, "listen")
           \/ /\ self'[x].todo = Tail(self[x].todo)
              /\ Head(self[x].todo) \notin Gates \cup {"listen", "judge", "get_info"}
    PROVE  SelfEffects(x)
BY DEF OthersKept, AllKept, PlaceKept, SocketKept, PeerKept, StreamKept, SelfEffects,
       TodoEffect, PeerEffect, PortEffect, InfoEffect, SocketEffect, CloseEffect,
       StreamEffect, Gates, At

LEMMA PartKept ==
    ASSUME NEW x \in Proc, part' = part, ~At(x, "open_port")
    PROVE  PartEffect(x)
BY DEF PartEffect

LEMMA StepEffects ==
    ASSUME Types, NEW x \in Proc, RankStep(x), HasPeer(x)
    PROVE  Effects(x)
<1> x[1] \in Partner
  BY ProcFacts DEF Types
<1> USE DEF Effects
<1>1. CASE Arrive(x)
  <2>1. /\ At(x, "arrive") /\ OthersKept(x)
        /\ self'[x] = [self[x] EXCEPT !.todo = Tail(@), !.arrived = @ + 1]
    BY <1>1 DEF Arrive, Types, OthersKept
  <2>2. AllKept(x) /\ self'[x].todo = Tail(self[x].todo)
    BY <2>1 DEF Types, RankState, AllKept, PlaceKept, SocketKept, PeerKept, StreamKept
  <2>3. SelfEffects(x)
    BY <2>1, <2>2, QuietStep DEF At, Gates
  <2> QED BY <1>1, <2>1, <2>3, PartKept DEF Arrive, At
<1>2. CASE Depart(x)
  <2>1. /\ At(x, "depart") /\ OthersKept(x) /\ AllKept(x)
        /\ self'[x].todo = Tail(self[x].todo)
    BY <1>2, AdvanceFields DEF Depart
  <2>2. SelfEffects(x)
    BY <2>1, QuietStep DEF At, Gates
  <2> QED BY <1>2, <2>1, <2>2, PartKept DEF Depart, At
<1>3. CASE Synced(x)
  <2>1. /\ At(x, "synced") /\ OthersKept(x) /\ AllKept(x)
        /\ self'[x].todo = Tail(self[x].todo)
    BY <1>3, AdvanceFields DEF Synced
  <2>2. SelfEffects(x)
    BY <2>1, QuietStep DEF At, Gates
  <2> QED BY <1>3, <2>1, <2>2, PartKept DEF Synced, At
<1>4. CASE Reported(x)
  <2>1. /\ At(x, "reported") /\ OthersKept(x) /\ AllKept(x)
        /\ self'[x].todo = Tail(self[x].todo)
    BY <1>4, AdvanceFields DEF Reported
  <2>2. SelfEffects(x)
    BY <2>1, QuietStep DEF At, Gates
  <2> QED BY <1>4, <2>1, <2>2, PartKept DEF Reported, At
<1>5. CASE Left(x)
  <2>1. /\ At(x, "left") /\ OthersKept(x) /\ AllKept(x)
        /\ self'[x].todo = Tail(self[x].todo)
    BY <1>5, AdvanceFields DEF Left
  <2>2. SelfEffects(x)
    BY <2>1, QuietStep DEF At, Gates
  <2> QED BY <1>5, <2>1, <2>2, PartKept DEF Left, At
<1>6. CASE Sync(x)
  <2>1. /\ At(x, "sync") /\ OthersKept(x) /\ AllKept(x)
        /\ self'[x].todo = Tail(self[x].todo)
    BY <1>6, AdvanceFields DEF Sync
  <2>2. SelfEffects(x)
    BY <2>1, QuietStep DEF At, Gates
  <2> QED BY <1>6, <2>1, <2>2 DEF Sync, At, PartEffect, Types, PartState
<1>7. CASE Offer(x)
  <2>1. /\ At(x, "offer") /\ OthersKept(x) /\ AllKept(x)
        /\ self'[x].todo = Tail(self[x].todo)
    BY <1>7, AdvanceFields DEF Offer
  <2>2. SelfEffects(x)
    BY <2>1, QuietStep DEF At, Gates
  <2> QED BY <1>7, <2>1, <2>2 DEF Offer, At, PartEffect, Types, PartState
<1>8. CASE Broadcast(x)
  <2>1. /\ At(x, "broadcast") /\ OthersKept(x) /\ AllKept(x)
        /\ self'[x].todo = Tail(self[x].todo)
    BY <1>8, AdvanceFields DEF Broadcast
  <2>2. SelfEffects(x)
    BY <2>1, QuietStep DEF At, Gates
  <2> QED BY <1>8, <2>1, <2>2 DEF Broadcast, At, PartEffect, Types, PartState
<1>9. CASE Unlink(x)
  <2>1. /\ At(x, "unlink") /\ OthersKept(x)
        /\ self'[x] = [self[x] EXCEPT !.todo = Tail(@)]
    BY <1>9 DEF Unlink, Types, OthersKept
  <2>2. /\ PlaceKept(x) /\ SocketKept(x) /\ PeerKept(x)
        /\ StreamKept(x) /\ self'[x].todo = Tail(self[x].todo)
    BY <2>1 DEF Types, RankState, AllKept, PlaceKept, SocketKept, PeerKept, StreamKept
  <2>4. SelfEffects(x)
    BY <2>1, <2>2 DEF SelfEffects, TodoEffect, PeerEffect, PortEffect,
           InfoEffect, SocketEffect, CloseEffect, StreamEffect, Gates, At,
           OthersKept, PlaceKept, SocketKept, PeerKept, StreamKept
  <2> QED BY <1>9, <2>1, <2>4, PartKept DEF Unlink, At
<1>10. CASE Listen(x)
  <2>1. /\ At(x, "listen") /\ OthersKept(x)
        /\ self'[x] = [self[x] EXCEPT !.todo = Tail(@), !.port = FreePort, !.acceptor = "listening"]
    BY <1>10 DEF Listen, Types, OthersKept
  <2>2. PeerKept(x) /\ StreamKept(x) /\ self'[x].todo = Tail(self[x].todo)
    BY <2>1 DEF Types, RankState, AllKept, PlaceKept, SocketKept, PeerKept, StreamKept
  <2>3. /\ self'[x].port = FreePort /\ self'[x].info = self[x].info
        /\ self'[x].letter = self[x].letter /\ self'[x].backlog = self[x].backlog
    BY <1>10, <2>1 DEF Listen, Types, RankState
  <2>4. SelfEffects(x)
    BY <2>1, <2>2, <2>3 DEF SelfEffects, TodoEffect, PeerEffect, PortEffect,
           InfoEffect, SocketEffect, CloseEffect, StreamEffect, Gates, At,
           OthersKept, PlaceKept, SocketKept, PeerKept, StreamKept
  <2> QED BY <1>10, <2>1, <2>4, PartKept DEF Listen, At
<1>11. CASE Report(x)
  <2>1. /\ At(x, "report") /\ OthersKept(x)
        /\ self'[x] = [self[x] EXCEPT !.todo = Tail(@), !.letter = self[x].port]
    BY <1>11 DEF Report, Types, OthersKept
  <2>2. SocketKept(x) /\ PeerKept(x) /\ StreamKept(x) /\ self'[x].todo = Tail(self[x].todo)
    BY <2>1 DEF Types, RankState, AllKept, PlaceKept, SocketKept, PeerKept, StreamKept
  <2>3. /\ self'[x].letter = self[x].port /\ self'[x].port = self[x].port
        /\ self'[x].info = self[x].info
    BY <1>11, <2>1 DEF Report, Types, RankState
  <2>4. SelfEffects(x)
    BY <2>1, <2>2, <2>3 DEF SelfEffects, TodoEffect, PeerEffect, PortEffect,
           InfoEffect, SocketEffect, CloseEffect, StreamEffect, Gates, At,
           OthersKept, PlaceKept, SocketKept, PeerKept, StreamKept
  <2> QED BY <1>11, <2>1, <2>4, PartKept DEF Report, At
<1>12. CASE OpenPort(x)
  <2>1. /\ At(x, "open_port") /\ OthersKept(x)
        /\ self'[x] = [self[x] EXCEPT !.todo = Tail(@), !.port = FreePort]
    BY <1>12 DEF OpenPort, Types, OthersKept
  <2>2. SocketKept(x) /\ PeerKept(x) /\ StreamKept(x) /\ self'[x].todo = Tail(self[x].todo)
    BY <2>1 DEF Types, RankState, AllKept, PlaceKept, SocketKept, PeerKept, StreamKept
  <2>3. /\ self'[x].port = FreePort /\ self'[x].info = self[x].info
        /\ self'[x].letter = self[x].letter
    BY <1>12, <2>1 DEF OpenPort, Types, RankState
  <2>4. SelfEffects(x)
    BY <2>1, <2>2, <2>3 DEF SelfEffects, TodoEffect, PeerEffect, PortEffect,
           InfoEffect, SocketEffect, CloseEffect, StreamEffect, Gates, At,
           OthersKept, PlaceKept, SocketKept, PeerKept, StreamKept
  <2>5. \A p \in Partner : /\ part'[p].offer = part[p].offer /\ part'[p].cast = part[p].cast
                          /\ part'[p].infos = IF p = x[1] THEN <<FreePort>> ELSE part[p].infos
    <3> TAKE p \in Partner
    <3>1. part'[p] = IF p = x[1] THEN [part[p] EXCEPT !.portName = FreePort,
                                                      !.infos = <<FreePort>>]
                     ELSE part[p]
      BY <1>12 DEF OpenPort, Types
    <3> QED BY <3>1 DEF Types, PartState
  <2>6. PartEffect(x)
    BY <2>1, <2>5 DEF PartEffect
  <2> QED BY <2>4, <2>6
<1>13. CASE GetPort(x)
  <2>1. /\ At(x, "get_port") /\ OthersKept(x)
        /\ self'[x] = [self[x] EXCEPT !.todo = Tail(@), !.port = part[x[1]].portName]
    BY <1>13 DEF GetPort, Types, OthersKept, Part
  <2>2. SocketKept(x) /\ PeerKept(x) /\ StreamKept(x) /\ self'[x].todo = Tail(self[x].todo)
    BY <2>1 DEF Types, RankState, AllKept, PlaceKept, SocketKept, PeerKept, StreamKept
  <2>3. /\ self'[x].port = part[x[1]].portName /\ self'[x].info = self[x].info
        /\ self'[x].letter = self[x].letter
    BY <1>13, <2>1 DEF GetPort, Types, RankState, Part
  <2>4. SelfEffects(x)
    BY <2>1, <2>2, <2>3 DEF SelfEffects, TodoEffect, PeerEffect, PortEffect,
           InfoEffect, SocketEffect, CloseEffect, StreamEffect, Gates, At,
           OthersKept, PlaceKept, SocketKept, PeerKept, StreamKept
  <2> QED BY <1>13, <2>1, <2>4, PartKept DEF GetPort, At
<1>14. CASE GetInfo(x)
  <2>1. /\ At(x, "get_info") /\ OthersKept(x)
        /\ self'[x] = [self[x] EXCEPT !.todo = Tail(@), !.info = part[x[1]].cast]
    BY <1>14 DEF GetInfo, Types, OthersKept, Part
  <2>2. SocketKept(x) /\ PeerKept(x) /\ StreamKept(x) /\ self'[x].todo = Tail(self[x].todo)
    BY <2>1 DEF Types, RankState, AllKept, PlaceKept, SocketKept, PeerKept, StreamKept
  <2>3. /\ self'[x].info = part[x[1]].cast /\ part[x[1]].cast # NoInfo
        /\ self'[x].port = self[x].port /\ self'[x].letter = self[x].letter
    BY <1>14, <2>1 DEF GetInfo, Types, RankState, Part
  <2>4. SelfEffects(x)
    BY <2>1, <2>2, <2>3 DEF SelfEffects, TodoEffect, PeerEffect, PortEffect,
           InfoEffect, SocketEffect, CloseEffect, StreamEffect, Gates, At,
           OthersKept, PlaceKept, SocketKept, PeerKept, StreamKept
  <2> QED BY <1>14, <2>1, <2>4, PartKept DEF GetInfo, At
<1>15. CASE Accept(x)
  <2>1. /\ At(x, "accept") /\ OthersKept(x)
        /\ self'[x] = [self[x] EXCEPT !.todo = Tail(@), !.acceptor = "closed",
                                !.peer = Head(self[x].backlog)]
    BY <1>15 DEF Accept, Types, OthersKept
  <2>2. PlaceKept(x) /\ StreamKept(x) /\ self'[x].todo = Tail(self[x].todo)
    BY <2>1 DEF Types, RankState, AllKept, PlaceKept, SocketKept, PeerKept, StreamKept
  <2>3. self'[x].peer = Head(self[x].backlog) /\ self[x].backlog # << >>
        /\ self'[x].acceptor = "closed" /\ self'[x].backlog = self[x].backlog /\ self'[x].closed = self[x].closed
    BY <1>15, <2>1 DEF Accept, Types, RankState
  <2>4. SelfEffects(x)
    BY <2>1, <2>2, <2>3 DEF SelfEffects, TodoEffect, PeerEffect, PortEffect,
           InfoEffect, SocketEffect, CloseEffect, StreamEffect, Gates, At,
           OthersKept, PlaceKept, SocketKept, PeerKept, StreamKept
  <2> QED BY <1>15, <2>1, <2>4, PartKept DEF Accept, At
<1>16. CASE Join(x)
  <2>1. /\ At(x, "join") /\ OthersKept(x)
        /\ self'[x] = [self[x] EXCEPT !.todo = Tail(@), !.joined = TRUE, !.port =
                          IF x[1] = "primary" THEN @ ELSE self[x].info.ports[1]]
    BY <1>16 DEF Join, Types, OthersKept
  <2>2. SocketKept(x) /\ PeerKept(x) /\ StreamKept(x) /\ self'[x].todo = Tail(self[x].todo)
    BY <2>1 DEF Types, RankState, AllKept, PlaceKept, SocketKept, PeerKept, StreamKept
  <2>3. self'[x].port = (IF x[1] = "primary" THEN self[x].port ELSE self[x].info.ports[1])
        /\ self'[x].info = self[x].info /\ self'[x].letter = self[x].letter
    BY <1>16, <2>1 DEF Join, Types, RankState
  <2>4. SelfEffects(x)
    BY <2>1, <2>2, <2>3 DEF SelfEffects, TodoEffect, PeerEffect, PortEffect,
           InfoEffect, SocketEffect, CloseEffect, StreamEffect, Gates, At,
           OthersKept, PlaceKept, SocketKept, PeerKept, StreamKept
  <2> QED BY <1>16, <2>1, <2>4, PartKept DEF Join, At
<1>17. CASE Joined(x)
  <2>1. /\ At(x, "joined") /\ OthersKept(x)
        /\ self'[x] = [self[x] EXCEPT !.todo = Tail(@), !.peer = Twin(x)]
    BY <1>17 DEF Joined, Types, OthersKept
  <2>2. PlaceKept(x) /\ SocketKept(x) /\ StreamKept(x) /\ self'[x].todo = Tail(self[x].todo)
    BY <2>1 DEF Types, RankState, AllKept, PlaceKept, SocketKept, PeerKept, StreamKept
  <2>3. self'[x].peer = Twin(x) /\ self'[x].closed = self[x].closed
    BY <1>17, <2>1 DEF Joined, Types, RankState
  <2>4. SelfEffects(x)
    BY <2>1, <2>2, <2>3 DEF SelfEffects, TodoEffect, PeerEffect, PortEffect,
           InfoEffect, SocketEffect, CloseEffect, StreamEffect, Gates, At,
           OthersKept, PlaceKept, SocketKept, PeerKept, StreamKept
  <2> QED BY <1>17, <2>1, <2>4, PartKept DEF Joined, At
<1>18. CASE Leave(x)
  <2>1. /\ At(x, "leave") /\ OthersKept(x)
        /\ self'[x] = [self[x] EXCEPT !.todo = Tail(@), !.closed = TRUE]
    BY <1>18 DEF Leave, Types, OthersKept
  <2>2. PlaceKept(x) /\ SocketKept(x) /\ StreamKept(x) /\ self'[x].todo = Tail(self[x].todo)
    BY <2>1 DEF Types, RankState, AllKept, PlaceKept, SocketKept, PeerKept, StreamKept
  <2>3. self'[x].closed = TRUE /\ self'[x].peer = self[x].peer
    BY <1>18, <2>1 DEF Leave, Types, RankState
  <2>4. SelfEffects(x)
    BY <2>1, <2>2, <2>3 DEF SelfEffects, TodoEffect, PeerEffect, PortEffect,
           InfoEffect, SocketEffect, CloseEffect, StreamEffect, Gates, At,
           OthersKept, PlaceKept, SocketKept, PeerKept, StreamKept
  <2> QED BY <1>18, <2>1, <2>4, PartKept DEF Leave, At
<1>19. CASE Judge(x)
  <2>1. At(x, "judge") /\ part' = part
    BY <1>19 DEF Judge
  <2> DEFINE info == part[Other(x[1])].offer
  <2>2. CASE Compatible(x[1], info)
    <3>1. OthersKept(x) /\ self'[x] = [self[x] EXCEPT !.todo = Tail(@), !.info = info]
      BY <1>19, <2>2 DEF Judge, Types, OthersKept
    <3>2. /\ self'[x].todo = Tail(self[x].todo) /\ self'[x].info = info
          /\ SocketKept(x) /\ PeerKept(x) /\ StreamKept(x)
          /\ self'[x].port = self[x].port /\ self'[x].letter = self[x].letter
      BY <3>1 DEF Types, RankState, SocketKept, PeerKept, StreamKept
    <3>3. info # NoInfo
      BY <1>19 DEF Judge
    <3>4. SelfEffects(x)
      BY <2>1, <2>2, <3>1, <3>2, <3>3 DEF SelfEffects, TodoEffect, PeerEffect, PortEffect,
           InfoEffect, SocketEffect, CloseEffect, StreamEffect, Gates, At,
           OthersKept, SocketKept, PeerKept, StreamKept
    <3> QED BY <2>1, <3>4, PartKept DEF At
  <2>3. CASE ~Compatible(x[1], info)
    <3>1. OthersKept(x) /\ AllKept(x) /\ self'[x].todo = << >>
      BY <1>19, <2>3, ThrowFields DEF Judge
    <3> QED BY <2>1, <3>1, QuietStep, PartKept DEF At
  <2> QED BY <2>2, <2>3
<1>20. CASE LookUp(x)
  <2>1. At(x, "look_up") /\ part' = part
    BY <1>20 DEF LookUp
  <2>2. CASE Len(self[x].info.ports) = Size[x[1]]
    <3>1. /\ OthersKept(x)
          /\ self'[x] = [self[x] EXCEPT !.todo = Tail(@), !.port = self[x].info.ports[Entry(x)]]
      BY <1>20, <2>2 DEF LookUp, Types, OthersKept
    <3>2. /\ self'[x].todo = Tail(self[x].todo)
          /\ self'[x].port = self[x].info.ports[Entry(x)]
          /\ SocketKept(x) /\ PeerKept(x) /\ StreamKept(x)
          /\ self'[x].info = self[x].info /\ self'[x].letter = self[x].letter
      BY <3>1 DEF Types, RankState, SocketKept, PeerKept, StreamKept
    <3>3. SelfEffects(x)
      BY <2>1, <2>2, <3>1, <3>2 DEF SelfEffects, TodoEffect, PeerEffect, PortEffect,
           InfoEffect, SocketEffect, CloseEffect, StreamEffect, Gates, At,
           OthersKept, SocketKept, PeerKept, StreamKept
    <3> QED BY <2>1, <3>3, PartKept DEF At
  <2>3. CASE Throw(x)
    <3>1. OthersKept(x) /\ AllKept(x) /\ self'[x].todo = << >>
      BY <2>3, ThrowFields DEF Throw
    <3> QED BY <2>1, <3>1, QuietStep, PartKept DEF At
  <2> QED BY <1>20, <2>2, <2>3 DEF LookUp
<1>21. CASE Bind(x)
  <2>1. At(x, "bind") /\ part' = part
    BY <1>21 DEF Bind
  <2>2. CASE bound = Nobody
    <3>1. /\ OthersKept(x)
          /\ self'[x] = [self[x] EXCEPT !.todo = Tail(@), !.acceptor = "listening"]
      BY <1>21, <2>2 DEF Bind, Types, OthersKept
    <3>2. /\ self'[x].todo = Tail(self[x].todo) /\ self'[x].backlog = self[x].backlog
          /\ PlaceKept(x) /\ PeerKept(x) /\ StreamKept(x)
      BY <3>1 DEF Types, RankState, PlaceKept, PeerKept, StreamKept
    <3>3. SelfEffects(x)
      BY <2>1, <3>1, <3>2 DEF SelfEffects, TodoEffect, PeerEffect, PortEffect,
           InfoEffect, SocketEffect, CloseEffect, StreamEffect, Gates, At,
           OthersKept, PlaceKept, PeerKept, StreamKept
    <3> QED BY <2>1, <3>3, PartKept DEF At
  <2>3. CASE Throw(x)
    <3>1. OthersKept(x) /\ AllKept(x) /\ self'[x].todo = << >>
      BY <2>3, ThrowFields DEF Throw
    <3> QED BY <2>1, <3>1, QuietStep, PartKept DEF At
  <2> QED BY <1>21, <2>2, <2>3 DEF Bind
<1>22. CASE ConnectSocket(x)
  <2>1. At(x, "connect") /\ part' = part
    BY <1>22 DEF ConnectSocket
  <2>2. ASSUME NEW y \in Server(x),
               self' = [self EXCEPT ![x].todo = Tail(@), ![x].peer = y,
                                    ![y].backlog = Append(@, x)]
        PROVE  Effects(x)
    <3>1. y \in Proc /\ y # x
      BY <2>1 DEF Server, Ranks, HasPeer
    <3>2. /\ \A z \in Proc : z # x /\ z # y => self'[z] = self[z]
          /\ self'[x] = [self[x] EXCEPT !.todo = Tail(@), !.peer = y]
          /\ self'[y] = [self[y] EXCEPT !.backlog = Append(@, x)]
      BY <2>2, <3>1 DEF Types
    <3>3. /\ self'[x].todo = Tail(self[x].todo) /\ self'[x].peer = y
          /\ self'[x].closed = self[x].closed
          /\ PlaceKept(x) /\ SocketKept(x) /\ StreamKept(x)
      BY <3>2 DEF Types, RankState, PlaceKept, SocketKept, StreamKept
    <3>4. /\ self'[y].backlog = Append(self[y].backlog, x)
          /\ self'[y].acceptor = self[y].acceptor /\ self'[y].todo = self[y].todo
          /\ PlaceKept(y) /\ PeerKept(y) /\ StreamKept(y)
      BY <3>1, <3>2 DEF Types, RankState, PlaceKept, PeerKept, StreamKept
    <3>5. TodoEffect(x) /\ PeerEffect(x)
      BY <2>1, <3>1, <3>2, <3>3, <3>4 DEF TodoEffect, PeerEffect, PeerKept, At
    <3>6. PortEffect(x) /\ InfoEffect(x) /\ CloseEffect(x)
      BY <2>1, <3>1, <3>2, <3>3, <3>4 DEF PortEffect, InfoEffect, CloseEffect, PlaceKept,
           PeerKept, At
    <3>7. SocketEffect(x)
      BY <2>1, <3>1, <3>2, <3>3, <3>4 DEF SocketEffect, SocketKept, PlaceKept
    <3>8. StreamEffect(x)
      BY <3>1, <3>2, <3>3, <3>4 DEF StreamEffect, StreamKept
    <3> QED BY <2>1, <3>5, <3>6, <3>7, <3>8, PartKept DEF At, SelfEffects
  <2>3. CASE Throw(x)
    <3>1. OthersKept(x) /\ AllKept(x) /\ self'[x].todo = << >>
      BY <2>3, ThrowFields DEF Throw
    <3> QED BY <2>1, <3>1, QuietStep, PartKept DEF At
  <2> QED BY <1>22, <2>2, <2>3 DEF ConnectSocket
<1>23. CASE Collect(x)
  <2> DEFINE infos == IF part[x[1]].infos = << >> THEN <<self[x].port>>
                      ELSE part[x[1]].infos
             y     == <<"primary", Len(infos)>>
  <2>1. At(x, "collect")
    BY <1>23 DEF Collect
  <2>2. CASE Advance(x) /\ part' = [part EXCEPT !["primary"].infos = infos]
    <3>1. OthersKept(x) /\ AllKept(x) /\ self'[x].todo = Tail(self[x].todo)
      BY <2>2, AdvanceFields
    <3>2. SelfEffects(x)
      BY <2>1, <3>1, QuietStep DEF At, Gates
    <3>3. PartEffect(x)
      BY <2>1, <2>2 DEF PartEffect, Types, PartState, At
    <3> QED BY <3>2, <3>3
  <2>3. ASSUME Len(infos) < Size["primary"], self[y].letter # 0,
               part' = [part EXCEPT !["primary"].infos = Append(infos, self[y].letter)],
               self' = [self EXCEPT ![y].letter = 0]
        PROVE  Effects(x)
    <3>1. PartEffect(x)
      BY <2>1, <2>3 DEF PartEffect, Types, PartState, At
    <3>2. infos \in Seq(Nat)
      BY DEF Types, PartState, RankState
    <3>3. y \in Proc
      <4> HIDE DEF infos
      <4>1. Len(infos) \in 0..(MaxRanks - 1) /\ y = <<"primary", Len(infos)>>
        BY <2>3, <3>2, ConnFacts, OtherPartner DEF Types
      <4>2. y \in AnyProc /\ y[1] = "primary" /\ y[2] = Len(infos)
        BY <4>1, OtherPartner DEF AnyProc
      <4> QED BY <2>3, <4>2 DEF Proc
    <3> HIDE DEF y
    <3>4. /\ \A z \in Proc : z # y => self'[z] = self[z]
          /\ self'[y] = [self[y] EXCEPT !.letter = 0]
      BY <2>3, <3>3 DEF Types
    <3>5. /\ SocketKept(y) /\ PeerKept(y) /\ StreamKept(y) /\ self'[y].letter = 0
          /\ self'[y].todo = self[y].todo /\ self'[y].port = self[y].port
          /\ self'[y].info = self[y].info
      BY <3>3, <3>4 DEF Types, RankState, SocketKept, PeerKept, StreamKept
    <3>6. SelfEffects(x)
      BY <2>1, <3>3, <3>4, <3>5 DEF SelfEffects, TodoEffect, PeerEffect, PortEffect,
           InfoEffect, SocketEffect, CloseEffect, StreamEffect, Gates, At,
           SocketKept, PeerKept, StreamKept
    <3> QED BY <3>1, <3>6
  <2>4. \/ Advance(x) /\ part' = [part EXCEPT !["primary"].infos = infos]
        \/ /\ Len(infos) < Size["primary"] /\ self[y].letter # 0
           /\ part' = [part EXCEPT !["primary"].infos = Append(infos, self[y].letter)]
           /\ self' = [self EXCEPT ![y].letter = 0]
    BY <1>23 DEF Collect, Sender, Part
  <2> QED BY <2>2, <2>3, <2>4
<1>24. CASE Send(x)
  <2> DEFINE y == self[x].peer
  <2>1. At(x, "send") /\ part' = part /\ y \in Proc /\ y # x
    BY <1>24 DEF Send, HasPeer
  <2>2. CASE Throw(x)
    <3>1. OthersKept(x) /\ AllKept(x) /\ self'[x].todo = << >>
      BY <2>2, ThrowFields DEF Throw
    <3> QED BY <2>1, <3>1, QuietStep, PartKept DEF At
  <2>3. CASE Advance(x)
    <3>1. OthersKept(x) /\ AllKept(x) /\ self'[x].todo = Tail(self[x].todo)
      BY <2>3, AdvanceFields
    <3> QED BY <2>1, <3>1, QuietStep, PartKept DEF At, Gates
  <2>4. ASSUME self' = [self EXCEPT ![x].todo = Tail(@), ![x].sent = @ + 1,
                           ![y].stream = Append(@, <<x, self[x].sent + 1>>)]
        PROVE  Effects(x)
    <3> DEFINE m == <<x, self[x].sent + 1>>
    <3> HIDE DEF y, m
    <3>1. /\ \A z \in Proc : z # x /\ z # y => self'[z] = self[z]
          /\ self'[x] = [self[x] EXCEPT !.todo = Tail(@), !.sent = @ + 1]
          /\ self'[y] = [self[y] EXCEPT !.stream = Append(@, m)]
      BY <2>1, <2>4 DEF Types, m
    <3>2. /\ self'[x].todo = Tail(self[x].todo) /\ self'[x].sent = self[x].sent + 1
          /\ self'[x].stream = self[x].stream /\ self'[x].received = self[x].received
          /\ PlaceKept(x) /\ SocketKept(x) /\ PeerKept(x)
      BY <3>1 DEF Types, RankState, PlaceKept, SocketKept, PeerKept
    <3>3. /\ self'[y].stream = Append(self[y].stream, m) /\ self'[y].todo = self[y].todo
          /\ self'[y].sent = self[y].sent /\ self'[y].received = self[y].received
          /\ PlaceKept(y) /\ SocketKept(y) /\ PeerKept(y)
      BY <2>1, <3>1 DEF Types, RankState, PlaceKept, SocketKept, PeerKept
    <3>4. TodoEffect(x) /\ PeerEffect(x)
      BY <2>1, <3>1, <3>2, <3>3 DEF TodoEffect, PeerEffect, PeerKept, At, Gates
    <3>5. PortEffect(x) /\ InfoEffect(x) /\ CloseEffect(x)
      BY <2>1, <3>1, <3>2, <3>3 DEF PortEffect, InfoEffect, CloseEffect, PlaceKept,
           PeerKept, At
    <3>6. SocketEffect(x)
      <4>1. \A z \in Proc : SocketKept(z) /\ self'[z].letter = self[z].letter
        BY <3>1, <3>2, <3>3 DEF SocketKept, PlaceKept
      <4> QED BY <4>1 DEF SocketEffect, SocketKept
    <3>7. StreamEffect(x)
      <4>1. ASSUME NEW z \in Proc
            PROVE  /\ self'[z].sent = IF z = x THEN self[z].sent + 1 ELSE self[z].sent
                   /\ self'[z].stream = IF z = y THEN Append(self[z].stream, m)
                                        ELSE self[z].stream
                   /\ self'[z].received = self[z].received
        <5>1. CASE z = x
          BY <2>1, <3>2, <5>1
        <5>2. CASE z = y
          BY <2>1, <3>3, <5>2
        <5>3. CASE z # x /\ z # y
          BY <3>1, <5>3
        <5> QED BY <5>1, <5>2, <5>3
      <4> QED BY <2>1, <4>1 DEF StreamEffect, y, m
    <3> QED BY <2>1, <3>4, <3>5, <3>6, <3>7, PartKept DEF At, SelfEffects
  <2> QED BY <1>24, <2>2, <2>3, <2>4 DEF Send
<1>25. CASE Receive(x)
  <2>1. At(x, "receive") /\ part' = part
    BY <1>25 DEF Receive
  <2>2. CASE Throw(x)
    <3>1. OthersKept(x) /\ AllKept(x) /\ self'[x].todo = << >>
      BY <2>2, ThrowFields DEF Throw
    <3> QED BY <2>1, <3>1, QuietStep, PartKept DEF At
  <2>3. ASSUME self[x].stream # << >>,
               self' = [self EXCEPT ![x].todo = Tail(@), ![x].stream = Tail(@),
                           ![x].received = Append(@, Head(self[x].stream))]
        PROVE  Effects(x)
    <3>1. /\ OthersKept(x)
          /\ self'[x] = [self[x] EXCEPT !.todo = Tail(@), !.stream = Tail(@),
                                !.received = Append(@, Head(self[x].stream))]
      BY <2>3 DEF Types, OthersKept
    <3>2. /\ self'[x].todo = Tail(self[x].todo)
          /\ self'[x].stream = Tail(self[x].stream) /\ self'[x].sent = self[x].sent
          /\ self'[x].received = Append(self[x].received, Head(self[x].stream))
          /\ PlaceKept(x) /\ SocketKept(x) /\ PeerKept(x)
      BY <3>1 DEF Types, RankState, PlaceKept, SocketKept, PeerKept
    <3>3. TodoEffect(x) /\ PeerEffect(x) /\ PortEffect(x) /\ InfoEffect(x)
      BY <2>1, <3>1, <3>2 DEF TodoEffect, PeerEffect, PortEffect, InfoEffect, Gates, At,
           OthersKept, PlaceKept, PeerKept
    <3>4. SocketEffect(x) /\ CloseEffect(x)
      <4> DEFINE Same(z) == /\ SocketKept(z) /\ self'[z].letter = self[z].letter
                            /\ self'[z].closed = self[z].closed
      <4>1. \A z \in Proc : z # x => Same(z)
        BY <3>1 DEF SocketKept, OthersKept
      <4>2. Same(x)
        BY <3>2 DEF PlaceKept, PeerKept
      <4> QED BY <4>1, <4>2 DEF SocketEffect, SocketKept, CloseEffect
    <3>5. StreamEffect(x)
      <4>1. ASSUME NEW z \in Proc
            PROVE  /\ self'[z].sent = self[z].sent
                   /\ self'[z].stream = IF z = x THEN Tail(self[z].stream) ELSE self[z].stream
                   /\ self'[z].received = IF z = x
                                          THEN Append(self[z].received, Head(self[z].stream))
                                          ELSE self[z].received
        <5>1. CASE z = x
          BY <3>2, <5>1
        <5>2. CASE z # x
          BY <3>1, <5>2 DEF OthersKept
        <5> QED BY <5>1, <5>2
      <4> QED BY <2>1, <2>3, <4>1 DEF StreamEffect
    <3> QED BY <2>1, <3>3, <3>4, <3>5, PartKept DEF At, SelfEffects
  <2> QED BY <1>25, <2>2, <2>3 DEF Receive
<1>26. CASE Close(x)
  <2> DEFINE y == self[x].peer
  <2>1. At(x, "close") /\ part' = part /\ y \in Proc /\ y # x
    BY <1>26 DEF Close, HasPeer
  <2>2. PICK s \in {self[y].stream, << >>} :
           self' = [self EXCEPT ![x].todo = Tail(@), ![x].closed = TRUE, ![y].stream = s]
    <3>1. PICK lost \in {FALSE, self[x].stream # << >>} :
             self' = [self EXCEPT ![x].todo = Tail(@), ![x].closed = TRUE,
                                  ![y].stream = IF lost THEN << >> ELSE @]
      BY <1>26 DEF Close
    <3> HIDE DEF y
    <3>2. CASE lost
      <4>1. self' = [self EXCEPT ![x].todo = Tail(@), ![x].closed = TRUE, ![y].stream = << >>]
        BY <3>1, <3>2
      <4> QED BY <4>1
    <3>3. CASE ~lost
      <4>1. self' = [self EXCEPT ![x].todo = Tail(@), ![x].closed = TRUE,
                                 ![y].stream = self[y].stream]
        BY <2>1, <3>1, <3>3 DEF Types
      <4> QED BY <4>1
    <3> QED BY <3>2, <3>3
  <2> HIDE DEF y
  <2>3. /\ \A z \in Proc : z # x /\ z # y => self'[z] = self[z]
        /\ self'[x] = [self[x] EXCEPT !.todo = Tail(@), !.closed = TRUE]
        /\ self'[y] = [self[y] EXCEPT !.stream = s]
    BY <2>1, <2>2 DEF Types
  <2>4. /\ self'[x].todo = Tail(self[x].todo) /\ self'[x].closed = TRUE
        /\ self'[x].peer = self[x].peer
        /\ PlaceKept(x) /\ SocketKept(x) /\ StreamKept(x)
    BY <2>3 DEF Types, RankState, PlaceKept, SocketKept, StreamKept
  <2>5. /\ self'[y].stream = s /\ self'[y].todo = self[y].todo
        /\ self'[y].sent = self[y].sent /\ self'[y].received = self[y].received
        /\ PlaceKept(y) /\ SocketKept(y) /\ PeerKept(y)
    BY <2>1, <2>3 DEF Types, RankState, PlaceKept, SocketKept, PeerKept
  <2>6. TodoEffect(x) /\ PeerEffect(x)
    BY <2>1, <2>3, <2>4, <2>5 DEF TodoEffect, PeerEffect, PeerKept, At, Gates
  <2>7. PortEffect(x) /\ InfoEffect(x) /\ CloseEffect(x)
    BY <2>1, <2>3, <2>4, <2>5 DEF PortEffect, InfoEffect, CloseEffect, PlaceKept,
         PeerKept, At
  <2>8. SocketEffect(x)
    <3>1. \A z \in Proc : SocketKept(z) /\ self'[z].letter = self[z].letter
      BY <2>3, <2>4, <2>5 DEF SocketKept, PlaceKept
    <3> QED BY <3>1 DEF SocketEffect, SocketKept
  <2>9. StreamEffect(x)
    <3>1. ASSUME NEW z \in Proc
          PROVE  /\ self'[z].sent = self[z].sent
                 /\ \/ self'[z].stream = self[z].stream
                    \/ z = y /\ self'[z].stream = << >>
                 /\ self'[z].received = self[z].received
      <4>1. CASE z = x
        BY <2>4, <4>1 DEF StreamKept
      <4>2. CASE z = y
        BY <2>2, <2>5, <4>2
      <4>3. CASE z # x /\ z # y
        BY <2>3, <4>3
      <4> QED BY <4>1, <4>2, <4>3
    <3> QED BY <2>1, <2>4, <3>1 DEF StreamEffect, y
  <2> QED BY <2>1, <2>6, <2>7, <2>8, <2>9, PartKept DEF At, SelfEffects
<1> QED BY <1>1, <1>2, <1>3, <1>4, <1>5, <1>6, <1>7, <1>8, <1>9, <1>10, <1>11, <1>12, <1>13,
           <1>14, <1>15, <1>16, <1>17, <1>18, <1>19, <1>20, <1>21, <1>22, <1>23, <1>24,
           <1>25, <1>26 DEF RankStep
-----------------------------------------------------------------------------
(* The invariant is kept.                                                   *)

LEMMA SameConn ==
    ASSUME conn' = conn
    PROVE  /\ Proc' = Proc /\ Size' = Size /\ Format' = Format
           /\ (Agreed <=> Agreed') /\ RankState' = RankState
           /\ \A x : Foreign(x)' = Foreign(x)
           /\ \A p : Ranks(p)' = Ranks(p)
<1>1. Proc' = Proc /\ Size' = Size /\ Format' = Format
  BY DEF Proc, Size, Format
<1>2. \A x : Foreign(x)' = Foreign(x)
  BY <1>1 DEF Foreign
<1>3. RankState' = RankState
  BY <1>1 DEF RankState
<1>4. Agreed <=> Agreed'
  BY <1>1 DEF Agreed
<1> QED BY <1>1, <1>2, <1>3, <1>4 DEF Ranks

LEMMA InvTypes == RankInv => Types
BY DEF RankInv, RanksTypeOK, Types

\* The first step of a list is one that the invariant admits.
LEMMA HeadFacts ==
    ASSUME RankInv, NEW x \in Proc, self[x].todo # << >>
    PROVE  LET h == Head(self[x].todo)
           IN  /\ h \in StepName /\ h \notin Foreign(x)
               /\ ~Agreed => h \notin {"broadcast", "accept", "connect", "joined"}
               /\ self[x].peer = Nobody => h \notin {"send", "receive", "close"}
               /\ self[x].closed => h # "send"
               /\ Format = "socket" /\ x[1] = "primary" =>
                     IF self[x].port = 0 THEN h \notin {"collect", "report"} ELSE h # "listen"
               /\ Format = "mpi_inter" /\ x[1] = "secondary" /\ self[x].info = NoInfo =>
                     h # "join"
               /\ Format = "mpi_inter" /\ x[1] = "primary" /\ part["primary"].infos = << >> =>
                     h # "offer"
<1> DEFINE s == self[x].todo
<1>1. ListInv(x) /\ GateInv(x) /\ s \in Seq(StepName)
  BY DEF RankInv, ListInv
<1>2. \A K : Without(s, K) => Head(s) \notin K
  BY <1>1, WithoutTail
<1>3. \A G, K : Guarded(s, G, K) => Head(s) \notin K
  BY <1>1, GuardedTail
<1>4. Head(s) \in StepName
  BY <1>1, TailFacts
<1>5. Head(s) \notin Foreign(x)
  BY <1>1, <1>2 DEF ListInv
<1>6. ~Agreed => Head(s) \notin {"broadcast", "accept", "connect", "joined"}
  BY <1>1, <1>3 DEF GateInv
<1>7. self[x].peer = Nobody => Head(s) \notin {"send", "receive", "close"}
  BY <1>1, <1>3 DEF GateInv
<1>8. self[x].closed => Head(s) \notin {"send"}
  BY <1>1, <1>2 DEF GateInv
<1>9. Format = "socket" /\ x[1] = "primary" =>
         IF self[x].port = 0 THEN Head(s) \notin {"collect", "report"}
         ELSE Head(s) \notin {"listen"}
  BY <1>1, <1>2, <1>3 DEF GateInv
<1>10. Format = "mpi_inter" /\ x[1] = "secondary" /\ self[x].info = NoInfo =>
          Head(s) \notin {"join"}
  BY <1>1, <1>3 DEF GateInv
<1>11. Format = "mpi_inter" /\ x[1] = "primary" /\ part["primary"].infos = << >> =>
          Head(s) \notin {"offer"}
  BY <1>1, <1>3 DEF GateInv
<1> QED BY <1>4, <1>5, <1>6, <1>7, <1>8, <1>9, <1>10, <1>11

LEMMA HasPeerHolds ==
    ASSUME RankInv, NEW x \in Proc
    PROVE  HasPeer(x)
<1>1. ASSUME At(x, "send") \/ At(x, "receive") \/ At(x, "close")
      PROVE  self[x].peer \in Proc /\ self[x].peer # x
  <2>1. self[x].peer # Nobody
    BY <1>1, HeadFacts DEF At
  <2>2. self[x].peer \in Proc
    BY <2>1 DEF RankInv, RankState
  <2>3. self[x].peer[1] = Other(x[1]) /\ Other(x[1]) # x[1]
    BY <2>1, ProcFacts, OtherPartner DEF RankInv, SideInv, RanksTypeOK
  <2> QED BY <2>2, <2>3
<1>2. ASSUME At(x, "connect") PROVE x[1] # "primary"
  BY <1>2, HeadFacts DEF At, Foreign
<1> QED BY <1>1, <1>2 DEF HasPeer

\* Only finitely many ranks have a port.
LEMMA PortCount ==
    ASSUME Types, NEW P, P = {x \in Ranks("primary") : self[x].port # 0}
    PROVE  IsFiniteSet(P) /\ Cardinality(P) \in Nat /\ FreePort = 1 + Cardinality(P)
<1>1. IsFiniteSet(AnyProc)
  <2>1. IsFiniteSet(0..(MaxRanks - 1))
    BY RanksAssumption, FS_Interval
  <2>2. IsFiniteSet({"primary"})
    BY FS_Singleton
  <2>3. IsFiniteSet({"primary"} \cup {"secondary"})
    BY <2>2, FS_AddElement
  <2>4. {"primary"} \cup {"secondary"} = Partner
    BY DEF Partner
  <2>5. IsFiniteSet(Partner)
    BY <2>3, <2>4
  <2> QED BY <2>1, <2>5, FS_Product DEF AnyProc
<1>2. P \subseteq AnyProc
  BY DEF Ranks, Proc
<1>3. IsFiniteSet(P)
  BY <1>1, <1>2, FS_Subset
<1> QED BY <1>3, FS_CardinalityType DEF FreePort
LEMMA FreePortType == Types => FreePort \in Nat /\ FreePort > 0
<1> SUFFICES ASSUME Types PROVE FreePort \in Nat /\ FreePort > 0
  OBVIOUS
<1> DEFINE P == {x \in Ranks("primary") : self[x].port # 0}
<1>1. Cardinality(P) \in Nat /\ FreePort = 1 + Cardinality(P)
  BY PortCount
<1> HIDE DEF P
<1> QED BY <1>1

LEMMA ListStep ==
    ASSUME RankInv, NEW x \in Proc, conn' = conn, TodoEffect(x), NEW y \in Proc
    PROVE  ListInv(y)'
<1> DEFINE s == self[y].todo
           r == self'[y].todo
<1>1. /\ s \in Seq(StepName) /\ Without(s, Foreign(y))
      /\ NotAfter(s, {"close", "leave"}, {"send"}) /\ NotAfter(s, {"listen"}, {"listen"})
  BY DEF RankInv, ListInv
<1>2. Foreign(y)' = Foreign(y)
  BY SameConn
<1>3. CASE r = s
  BY <1>1, <1>2, <1>3 DEF ListInv
<1>4. CASE s # << >> /\ r = Tail(s)
  <2>1. /\ Tail(s) \in Seq(StepName) /\ Without(Tail(s), Foreign(y))
        /\ NotAfter(Tail(s), {"close", "leave"}, {"send"})
        /\ NotAfter(Tail(s), {"listen"}, {"listen"})
    BY <1>1, <1>4, TailFacts, WithoutTail, NotAfterTail
  <2> QED BY <1>2, <1>4, <2>1 DEF ListInv
<1>5. CASE r = << >>
  <2>1. r \in Seq(StepName)
    BY <1>5
  <2> QED BY <1>2, <1>5, <2>1, EmptyList DEF ListInv
<1>6. r = s \/ (s # << >> /\ r = Tail(s)) \/ r = << >>
  BY DEF TodoEffect
<1> QED BY <1>3, <1>4, <1>5, <1>6

LEMMA GateStep ==
    ASSUME RankInv, NEW x \in Proc, conn' = conn, Effects(x), NEW y \in Proc
    PROVE  GateInv(y)'
<1> DEFINE s == self[y].todo
           h == Head(s)
           r == self'[y].todo
<1>1. /\ s \in Seq(StepName) /\ GateInv(y) /\ ListInv(y)
  BY DEF RankInv, ListInv
<1>2. (Agreed <=> Agreed') /\ Format' = Format
  BY SameConn
<1>3. /\ x = y \/ r = s
      /\ s # << >> \/ x # y
      /\ r = s \/ r = << >> \/ r = Tail(s)
      /\ x = y => r = Tail(s) \/ r = << >> \/ h = "collect"
  BY DEF Effects, SelfEffects, TodoEffect, At
<1>4. CASE r = << >>
  <2>1. \A G, K : Guarded(r, G, K) /\ Without(r, K)
    BY <1>4, EmptyList
  <2>2. ~Agreed => self'[y].peer = Nobody
    <3>1. ~Agreed /\ x = y => h \notin Gates
      BY <1>3, HeadFacts DEF Gates
    <3> QED BY <1>1, <3>1 DEF GateInv, Effects, SelfEffects, PeerEffect, Gates, At
  <2> QED BY <1>2, <2>1, <2>2 DEF GateInv
<1>5. ASSUME r # << >> PROVE GateInv(y)'
  <2>1. ASSUME NEW G, NEW K, Guarded(s, G, K), x = y => h \notin G
        PROVE  Guarded(r, G, K)
    BY <1>1, <1>3, <1>5, <2>1, GuardedTail
  <2>2. ASSUME NEW K, Without(s, K) PROVE Without(r, K)
    BY <1>1, <1>3, <1>5, <2>2, WithoutTail
  <2>3. ~Agreed => /\ self'[y].peer = Nobody
                   /\ Guarded(r, {"judge", "get_info"},
                              {"broadcast", "accept", "connect", "joined"})
    <3> SUFFICES ASSUME ~Agreed
                 PROVE  /\ self'[y].peer = Nobody
                        /\ Guarded(r, {"judge", "get_info"},
                                   {"broadcast", "accept", "connect", "joined"})
      OBVIOUS
    <3>1. x = y => h \notin Gates
      BY <1>3, HeadFacts DEF Gates
    <3>2. self'[y].peer = Nobody
      BY <1>1, <3>1 DEF GateInv, Effects, SelfEffects, PeerEffect, Gates, At
    <3>3. x = y => h \notin {"judge", "get_info"}
      <4> SUFFICES ASSUME x = y, h \in {"judge", "get_info"} PROVE FALSE
        OBVIOUS
      <4>1. x[1] \in Partner /\ Other(x[1]) \in Partner /\ Other(x[1]) # x[1]
        BY ProcFacts, OtherPartner DEF RankInv, RanksTypeOK
      <4>2. part[x[1]].cast = NoInfo
        BY <4>1 DEF RankInv, HandShakeInv
      <4>3. /\ h = "judge" /\ part[Other(x[1])].offer # NoInfo
            /\ Compatible(x[1], part[Other(x[1])].offer)
        BY <1>5, <4>2 DEF Effects, SelfEffects, InfoEffect, At
      <4>4. /\ part[Other(x[1])].offer.size = Size[Other(x[1])]
            /\ part[Other(x[1])].offer.setting = conn.setting[Other(x[1])]
        BY <4>1, <4>3 DEF RankInv, HandShakeInv
      <4>5. Size[Other(x[1])] = Size[x[1]] /\ conn.setting[Other(x[1])] = conn.setting[x[1]]
        BY <4>3, <4>4 DEF Compatible
      <4> QED BY <4>1, <4>5 DEF Agreed, Partner, Other
    <3> QED BY <1>1, <2>1, <3>2, <3>3 DEF GateInv
  <2>4. self'[y].peer = Nobody =>
           Guarded(r, {"accept", "connect", "joined"}, {"send", "receive", "close"})
    <3> SUFFICES ASSUME self'[y].peer = Nobody
                 PROVE  Guarded(r, {"accept", "connect", "joined"},
                                {"send", "receive", "close"})
      OBVIOUS
    <3>1. /\ Nobody \notin Server(x) /\ Twin(x) # Nobody
          /\ self[x].backlog # << >> => Head(self[x].backlog) # Nobody
      <4>1. Nobody \notin Proc
        BY ProcFacts DEF RankInv, RanksTypeOK
      <4>2. self[x].backlog # << >> => Head(self[x].backlog) \in Proc
        BY DEF RankInv, RankState
      <4> QED BY <4>1, <4>2, ProcFacts DEF Server, Ranks, RankInv, RanksTypeOK
    <3>2. self[y].peer = Nobody /\ (x = y => h \notin {"accept", "connect", "joined"})
      BY <1>5, <3>1 DEF Effects, SelfEffects, PeerEffect, Gates, At
    <3> QED BY <1>1, <2>1, <3>2 DEF GateInv
  <2>5. self'[y].closed => Without(r, {"send"})
    <3> SUFFICES ASSUME self'[y].closed PROVE Without(r, {"send"})
      OBVIOUS
    <3>1. CASE self[y].closed
      BY <1>1, <2>2, <3>1 DEF GateInv
    <3>2. CASE ~self[y].closed
      <4>1. x = y /\ h \in {"close", "leave"}
        BY <3>2 DEF Effects, SelfEffects, CloseEffect, At
      <4>2. Without(Tail(s), {"send"})
        BY <1>1, <1>3, <4>1, NotAfterTail DEF ListInv
      <4> QED BY <1>3, <1>5, <4>1, <4>2
    <3> QED BY <3>1, <3>2
  <2>6. Format = "socket" /\ y[1] = "primary" =>
           IF self'[y].port = 0 THEN Guarded(r, {"listen"}, {"collect", "report"})
           ELSE Without(r, {"listen"})
    <3> SUFFICES ASSUME Format = "socket", y[1] = "primary"
                 PROVE  IF self'[y].port = 0 THEN Guarded(r, {"listen"}, {"collect", "report"})
                        ELSE Without(r, {"listen"})
      OBVIOUS
    <3>1. CASE x = y /\ h = "listen"
      <4>1. self'[y].port = FreePort
        BY <1>3, <3>1 DEF Effects, SelfEffects, PortEffect, At
      <4>2. FreePort # 0
        BY FreePortType, InvTypes
      <4>3. Without(Tail(s), {"listen"})
        BY <1>1, <1>3, <3>1, NotAfterTail DEF ListInv
      <4> QED BY <1>3, <1>5, <3>1, <4>1, <4>2, <4>3
    <3>2. CASE ~(x = y /\ h = "listen")
      <4>1. x = y => h \notin {"look_up", "open_port", "get_port", "join"}
        BY <1>3, HeadFacts DEF Foreign
      <4>2. self'[y].port = self[y].port
        BY <3>2, <4>1 DEF Effects, SelfEffects, PortEffect, At
      <4> QED BY <1>1, <2>1, <2>2, <3>2, <4>2 DEF GateInv
    <3> QED BY <3>1, <3>2
  <2>7. Format = "mpi_inter" /\ y[1] = "secondary" /\ self'[y].info = NoInfo =>
           Guarded(r, {"judge", "get_info"}, {"join"})
    <3> SUFFICES ASSUME Format = "mpi_inter", y[1] = "secondary", self'[y].info = NoInfo
                 PROVE  Guarded(r, {"judge", "get_info"}, {"join"})
      OBVIOUS
    <3>1. self[y].info = NoInfo /\ (x = y => h \notin {"judge", "get_info"})
      BY <1>5 DEF Effects, SelfEffects, InfoEffect, At
    <3> QED BY <1>1, <2>1, <3>1 DEF GateInv
  <2>8. Format = "mpi_inter" /\ y[1] = "primary" /\ part'["primary"].infos = << >> =>
           Guarded(r, {"open_port"}, {"offer"})
    <3> SUFFICES ASSUME Format = "mpi_inter", y[1] = "primary",
                        part'["primary"].infos = << >>
                 PROVE  Guarded(r, {"open_port"}, {"offer"})
      OBVIOUS
    <3>1. ~At(x, "collect")
      BY HeadFacts DEF At, Foreign
    <3>2. <<FreePort>> # << >>
      OBVIOUS
    <3>3. part["primary"].infos = << >> /\ (x = y => ~At(x, "open_port"))
      BY <3>1, <3>2, OtherPartner DEF Effects, PartEffect
    <3> QED BY <1>1, <1>3, <2>1, <3>3 DEF GateInv, At
  <2> QED BY <1>2, <2>3, <2>4, <2>5, <2>6, <2>7, <2>8 DEF GateInv
<1> QED BY <1>4, <1>5
LEMMA SideStep ==
    ASSUME RankInv, NEW x \in Proc, conn' = conn, Effects(x), NEW y \in Proc
    PROVE  SideInv(y)'
<1>1. /\ SideInv(x) /\ SideInv(y) /\ self[x].backlog \in Seq(Proc)
      /\ self[y].backlog \in Seq(Proc) /\ x[1] \in Partner /\ y[1] \in Partner
  BY ProcFacts DEF RankInv, RankState, RanksTypeOK
<1>2. \A z \in Server(x) : z \in Proc /\ z[1] = "primary"
  BY DEF Server, Ranks
<1>3. At(x, "connect") => x[1] = "secondary"
  BY <1>1, HeadFacts DEF At, Foreign, Partner
<1>4. self'[y].peer # Nobody => self'[y].peer[1] = Other(y[1])
  <2>1. CASE self'[y].peer = self[y].peer
    BY <1>1, <2>1 DEF SideInv
  <2>2. CASE x = y /\ self[x].backlog # << >> /\ self'[x].peer = Head(self[x].backlog)
    <3>1. Head(self[x].backlog) = self[x].backlog[1] /\ 1 \in 1..Len(self[x].backlog)
      BY <1>1, <2>2
    <3> QED BY <1>1, <2>2, <3>1 DEF SideInv
  <2>3. CASE x = y /\ At(x, "connect") /\ self'[x].peer \in Server(x)
    BY <1>2, <1>3, <2>3, OtherPartner
  <2>4. CASE x = y /\ self'[x].peer = Twin(x)
    BY <2>4, ProcFacts DEF RankInv, RanksTypeOK
  <2> QED BY <2>1, <2>2, <2>3, <2>4 DEF Effects, SelfEffects, PeerEffect
<1>5. ASSUME NEW i \in 1..Len(self'[y].backlog)
      PROVE  self'[y].backlog[i][1] = Other(y[1])
  <2>1. CASE self'[y].backlog = self[y].backlog
    BY <1>1, <1>5, <2>1 DEF SideInv
  <2>2. CASE /\ At(x, "connect") /\ y \in Server(x)
             /\ self'[y].backlog = Append(self[y].backlog, x)
    <3>1. x[1] = Other(y[1])
      BY <1>2, <1>3, <2>2, OtherPartner
    <3>2. \/ i \in 1..Len(self[y].backlog) /\ self'[y].backlog[i] = self[y].backlog[i]
          \/ self'[y].backlog[i] = x
      BY <1>1, <1>5, <2>2
    <3> QED BY <1>1, <3>1, <3>2 DEF SideInv
  <2> QED BY <2>1, <2>2 DEF Effects, SelfEffects, SocketEffect
<1> QED BY <1>4, <1>5 DEF SideInv

LEMMA HandShakeStep ==
    ASSUME RankInv, NEW x \in Proc, conn' = conn, Effects(x)
    PROVE  HandShakeInv'
<1>1. /\ (Agreed <=> Agreed') /\ Format' = Format /\ Size' = Size
      /\ \A p : Ranks(p)' = Ranks(p)
  BY SameConn
<1>2. x[1] \in Partner /\ Other(x[1]) \in Partner
  BY ProcFacts, OtherPartner DEF RankInv, RanksTypeOK
<1>3. ASSUME NEW p \in Partner
      PROVE  part'[p].offer # NoInfo => /\ part'[p].offer.size = Size[p]
                                        /\ part'[p].offer.setting = conn.setting[p]
  <2>1. CASE part'[p].offer = part[p].offer
    BY <2>1 DEF RankInv, HandShakeInv
  <2>2. CASE part'[p].offer = MyInfo(p)
    BY <2>2 DEF MyInfo
  <2> QED BY <2>1, <2>2 DEF Effects, PartEffect
<1>4. ASSUME NEW p \in Partner, ~Agreed PROVE part'[p].cast = NoInfo
  <2>1. ~At(x, "broadcast")
    BY <1>4, HeadFacts DEF At
  <2> QED BY <1>4, <2>1 DEF Effects, PartEffect, RankInv, HandShakeInv
<1>5. ASSUME Format = "mpi_inter"
      PROVE  /\ part'["primary"].offer # NoInfo => part'["primary"].offer.ports # << >>
             /\ part'["secondary"].cast # NoInfo => part'["secondary"].cast.ports # << >>
             /\ \A y \in Ranks("secondary") :
                   self'[y].info # NoInfo => self'[y].info.ports # << >>
  <2>1. /\ part["primary"].offer # NoInfo => part["primary"].offer.ports # << >>
        /\ part["secondary"].cast # NoInfo => part["secondary"].cast.ports # << >>
        /\ \A y \in Ranks("secondary") : self[y].info # NoInfo => self[y].info.ports # << >>
    BY <1>5 DEF RankInv, HandShakeInv
  <2>2. part'["primary"].offer # NoInfo => part'["primary"].offer.ports # << >>
    <3>1. CASE part'["primary"].offer = part["primary"].offer
      BY <2>1, <3>1
    <3>2. CASE part'["primary"].offer # part["primary"].offer
      <4>1. At(x, "offer") /\ x[1] = "primary" /\ part'["primary"].offer = MyInfo("primary")
        BY <3>2, OtherPartner DEF Effects, PartEffect
      <4>2. part["primary"].infos # << >>
        BY <1>5, <4>1, HeadFacts DEF At
      <4> QED BY <4>1, <4>2 DEF MyInfo
    <3> QED BY <3>1, <3>2
  <2>3. part'["secondary"].cast # NoInfo => part'["secondary"].cast.ports # << >>
    <3>1. CASE part'["secondary"].cast = part["secondary"].cast
      BY <2>1, <3>1
    <3>2. CASE part'["secondary"].cast # part["secondary"].cast
      <4>1. x[1] = "secondary" /\ part'["secondary"].cast = self[x].info
        BY <3>2, OtherPartner DEF Effects, PartEffect
      <4>2. x \in Ranks("secondary")
        BY <4>1 DEF Ranks
      <4> QED BY <2>1, <4>1, <4>2
    <3> QED BY <3>1, <3>2
  <2>4. ASSUME NEW y \in Ranks("secondary"), self'[y].info # NoInfo
        PROVE  self'[y].info.ports # << >>
    <3>1. y \in Proc /\ y[1] = "secondary"
      BY DEF Ranks
    <3>2. CASE self'[y].info = self[y].info
      BY <2>1, <2>4, <3>2
    <3>3. CASE x = y /\ self'[y].info = part[Other(x[1])].offer
      BY <2>1, <2>4, <3>1, <3>3, OtherPartner
    <3>4. CASE x = y /\ self'[y].info = part[x[1]].cast
      BY <2>1, <2>4, <3>1, <3>4
    <3> QED BY <3>1, <3>2, <3>3, <3>4 DEF Effects, SelfEffects, InfoEffect
  <2> QED BY <2>2, <2>3, <2>4
<1> QED BY <1>1, <1>3, <1>4, <1>5 DEF HandShakeInv
\* A port, once it is chosen, stays; a new one is larger than the others.
LEMMA PrimaryPorts ==
    ASSUME RankInv, Format = "socket", NEW x \in Proc, conn' = conn, Effects(x)
    PROVE  /\ \A y \in Ranks("primary") : self[y].port # 0 => self'[y].port = self[y].port
           /\ \A y \in Ranks("primary") :
                 /\ self'[y].port < FreePort'
                 /\ \A z \in Ranks("primary") :
                       self'[y].port # 0 /\ self'[y].port = self'[z].port => y = z
<1> DEFINE R == Ranks("primary")
           P == {y \in R : self[y].port # 0}
           Q == {y \in R : self'[y].port # 0}
<1>1. Types /\ PortsInv
  BY InvTypes DEF RankInv
<1>2. IsFiniteSet(P) /\ Cardinality(P) \in Nat /\ FreePort = 1 + Cardinality(P)
  BY <1>1, PortCount
<1>3. FreePort' = 1 + Cardinality(Q)
  BY SameConn DEF FreePort
<1>4. \A y \in R : /\ y \in Proc /\ y[1] = "primary" /\ self[y].port \in Nat
                   /\ self[y].port < FreePort
                   /\ \A z \in R : self[y].port # 0 /\ self[y].port = self[z].port => y = z
  BY <1>1 DEF PortsInv, Ranks, Types, RankState
<1>5. CASE x \in R /\ At(x, "listen")
  <2>1. self[x].port = 0 /\ self'[x].port = FreePort
    BY <1>4, <1>5, HeadFacts DEF Effects, SelfEffects, PortEffect, At
  <2>2. \A y \in R : y # x => self'[y].port = self[y].port
    BY <1>4 DEF Effects, SelfEffects, PortEffect
  <2>3. Q = P \cup {x} /\ x \notin P
    BY <1>2, <1>5, <2>1, <2>2
  <2> HIDE DEF P, Q, R
  <2>4. Cardinality(Q) = Cardinality(P) + 1
    BY <1>2, <2>3, FS_AddElement
  <2>5. FreePort' = FreePort + 1 /\ FreePort \in Nat
    BY <1>2, <1>3, <2>4
  <2>6. \A y \in R : self'[y].port < FreePort'
    BY <1>4, <2>1, <2>2, <2>5
  <2>7. \A y \in R : self[y].port # 0 => self'[y].port = self[y].port
    BY <2>1, <2>2
  <2>8. ASSUME NEW y \in R, NEW z \in R, self'[y].port # 0, self'[y].port = self'[z].port
        PROVE  y = z
    BY <1>4, <2>1, <2>2, <2>5, <2>8
  <2> QED BY <2>6, <2>7, <2>8 DEF R
<1>6. CASE ~(x \in R /\ At(x, "listen"))
  <2>1. \A y \in R : self'[y].port = self[y].port
    <3> SUFFICES ASSUME NEW y \in R PROVE self'[y].port = self[y].port
      OBVIOUS
    <3>1. x = y => /\ ~At(x, "look_up") /\ ~At(x, "open_port") /\ ~At(x, "get_port")
                   /\ ~At(x, "join") /\ ~At(x, "listen")
      BY <1>4, <1>6, HeadFacts DEF At, Foreign
    <3> QED BY <1>4, <3>1 DEF Effects, SelfEffects, PortEffect
  <2>2. Q = P
    BY <2>1
  <2>3. FreePort' = FreePort
    BY <1>2, <1>3, <2>2
  <2> HIDE DEF P, Q, R
  <2> QED BY <1>4, <2>1, <2>3 DEF R
<1> QED BY <1>5, <1>6

LEMMA PortsStep ==
    ASSUME RankInv, Format = "socket", NEW x \in Proc, conn' = conn, Effects(x)
    PROVE  PortsInv'
<1> DEFINE Fits(ports) == \A j \in 1..Len(ports) :
              /\ <<"primary", j - 1>> \in Proc
              /\ self'[<<"primary", j - 1>>].port = ports[j]
              /\ ports[j] # 0
<1>1. Types /\ PortsInv /\ conn \in Instances
  BY InvTypes DEF RankInv, Types
<1>2. Proc' = Proc /\ \A p : Ranks(p)' = Ranks(p)
  BY SameConn
<1>3. \A y \in Ranks("primary") : self[y].port # 0 => self'[y].port = self[y].port
  BY PrimaryPorts
<1>4. ASSUME NEW ports, Known(ports) PROVE Fits(ports)
  <2> SUFFICES ASSUME NEW j \in 1..Len(ports)
               PROVE  /\ <<"primary", j - 1>> \in Proc
                      /\ self'[<<"primary", j - 1>>].port = ports[j]
                      /\ ports[j] # 0
    OBVIOUS
  <2>1. /\ <<"primary", j - 1>> \in Proc /\ ports[j] # 0
        /\ self[<<"primary", j - 1>>].port = ports[j]
    BY <1>4 DEF Known
  <2>2. <<"primary", j - 1>> \in Ranks("primary")
    BY <2>1 DEF Ranks
  <2> QED BY <1>3, <2>1, <2>2
<1>5. /\ \A y \in Proc : Known(self[y].info.ports)
      /\ \A p \in Partner : /\ Known(part[p].infos) /\ Known(part[p].offer.ports)
                            /\ Known(part[p].cast.ports)
  BY <1>1 DEF PortsInv
<1>6. x[1] \in Partner /\ Other(x[1]) \in Partner
  BY <1>1, ProcFacts, OtherPartner
<1>7. ASSUME NEW y \in Ranks("primary")
      PROVE  /\ self'[y].acceptor = "listening" => self'[y].port # 0
             /\ self'[y].letter # 0 => self'[y].letter = self'[y].port
  <2>1. y \in Proc /\ y[1] = "primary"
    BY DEF Ranks
  <2>2. /\ self[y].acceptor = "listening" => self[y].port # 0
        /\ self[y].letter # 0 => self[y].letter = self[y].port
    BY <1>1 DEF PortsInv
  <2>3. x = y /\ At(x, "listen") => self'[y].port # 0
    <3>1. FreePort # 0
      BY <1>1, FreePortType
    <3> QED BY <3>1 DEF Effects, SelfEffects, PortEffect, At
  <2>4. ~At(x, "bind")
    BY HeadFacts DEF At, Foreign
  <2>5. self'[y].acceptor = "listening" => self'[y].port # 0
    BY <1>3, <2>1, <2>2, <2>3, <2>4 DEF Effects, SelfEffects, SocketEffect
  <2>6. self'[y].letter # 0 => self'[y].letter = self'[y].port
    BY <1>3, <2>1, <2>2 DEF Effects, SelfEffects, SocketEffect
  <2> QED BY <2>5, <2>6
<1>8. ASSUME NEW y \in Ranks("secondary"), self'[y].port # 0
      PROVE  Twin(y) \in Proc /\ self'[y].port = self'[Twin(y)].port
  <2>1. y \in Proc /\ y[1] = "secondary"
    BY DEF Ranks
  <2>2. Twin(y)[1] = "primary" /\ Twin(y) = <<"primary", y[2]>> /\ y[2] \in Nat
    BY <1>1, <2>1, ProcFacts, OtherPartner DEF Twin
  <2>3. CASE self'[y].port = self[y].port
    <3>1. Twin(y) \in Proc /\ self[y].port = self[Twin(y)].port
      BY <1>1, <1>8, <2>3 DEF PortsInv
    <3>2. Twin(y) \in Ranks("primary")
      BY <2>2, <3>1 DEF Ranks
    <3> QED BY <1>3, <1>8, <2>3, <3>1, <3>2
  <2>4. CASE /\ x = y /\ Len(self[x].info.ports) = Size[x[1]]
             /\ self'[x].port = self[x].info.ports[Entry(x)]
    <3>1. Entry(x) \in 1..Len(self[x].info.ports) /\ Entry(x) - 1 = y[2]
      BY <1>1, <2>4, ProcFacts, ConnFacts DEF Entry
    <3>2. Fits(self[x].info.ports)
      BY <1>4, <1>5
    <3> QED BY <2>2, <2>4, <3>1, <3>2
  <2>5. x = y => /\ ~At(x, "listen") /\ ~At(x, "open_port") /\ ~At(x, "get_port")
                 /\ ~At(x, "join")
    BY <2>1, HeadFacts DEF At, Foreign
  <2> QED BY <2>1, <2>3, <2>4, <2>5 DEF Effects, SelfEffects, PortEffect
<1>9. ASSUME NEW y \in Proc PROVE Fits(self'[y].info.ports)
  BY <1>4, <1>5, <1>6 DEF Effects, SelfEffects, InfoEffect
<1>10. ASSUME NEW p \in Partner
       PROVE  Fits(part'[p].offer.ports) /\ Fits(part'[p].cast.ports)
  <2>1. Fits(part[p].offer.ports) /\ Fits(part[p].cast.ports)
    BY <1>4, <1>5
  <2>2. Fits(MyInfo(p).ports) /\ Fits(self[x].info.ports)
    BY <1>4, <1>5 DEF MyInfo
  <2> HIDE DEF Fits
  <2> QED BY <2>1, <2>2 DEF Effects, PartEffect
<1>11. ASSUME NEW p \in Partner PROVE Fits(part'[p].infos)
  <2>1. CASE part'[p].infos = part[p].infos
    BY <1>4, <1>5, <2>1
  <2>2. CASE At(x, "collect") /\ p = "primary"
    <3> DEFINE infos == IF part[x[1]].infos = << >> THEN <<self[x].port>>
                        ELSE part[x[1]].infos
               y     == <<"primary", Len(infos)>>
    <3>1. x[1] = "primary" /\ x[2] = 0 /\ self[x].port # 0
      BY <1>6, <2>2, HeadFacts DEF At, Foreign, Partner
    <3>2. infos \in Seq(Nat)
      BY <1>1, <1>6 DEF Types, PartState, RankState
    <3>3. Known(infos)
      <4>1. x = <<"primary", 1 - 1>>
        BY <1>1, <3>1, ProcFacts
      <4>2. Known(<<self[x].port>>)
        BY <3>1, <4>1 DEF Known
      <4> QED BY <1>5, <1>6, <4>2
    <3>4. CASE part'[p].infos = infos
      BY <1>4, <3>3, <3>4
    <3>5. CASE /\ Len(infos) < Size["primary"] /\ self[y].letter # 0
               /\ part'[p].infos = Append(infos, self[y].letter)
      <4> HIDE DEF infos
      <4>1. Len(infos) \in 0..(MaxRanks - 1) /\ y = <<"primary", Len(infos)>>
        BY <1>1, <3>2, <3>5, ConnFacts, OtherPartner
      <4>2. y \in Proc /\ y[1] = "primary"
        BY <3>5, <4>1, OtherPartner DEF AnyProc, Proc
      <4>3. y \in Ranks("primary")
        BY <4>2 DEF Ranks
      <4>4. self[y].letter = self[y].port /\ self[y].letter \in Nat
        BY <1>1, <3>5, <4>2, <4>3 DEF PortsInv, Types, RankState
      <4> DEFINE ports == Append(infos, self[y].letter)
      <4>5. ASSUME NEW j \in 1..Len(ports)
            PROVE  /\ <<"primary", j - 1>> \in Proc /\ ports[j] # 0
                   /\ self[<<"primary", j - 1>>].port = ports[j]
        <5>1. \/ j \in 1..Len(infos) /\ ports[j] = infos[j]
              \/ j - 1 = Len(infos) /\ ports[j] = self[y].letter
          BY <3>2, <4>4, <4>5
        <5> QED BY <3>3, <3>5, <4>2, <4>4, <5>1 DEF Known
      <4>6. Known(ports)
        BY <4>5 DEF Known
      <4> QED BY <1>4, <3>5, <4>6
    <3> QED BY <2>1, <2>2, <3>4, <3>5 DEF Effects, PartEffect, At
  <2>3. ~At(x, "open_port")
    BY HeadFacts DEF At, Foreign
  <2> QED BY <2>1, <2>2, <2>3 DEF Effects, PartEffect
<1>12. ASSUME NEW y \in Ranks("primary")
       PROVE  /\ self'[y].port < FreePort'
              /\ \A z \in Ranks("primary") :
                    self'[y].port # 0 /\ self'[y].port = self'[z].port => y = z
  BY PrimaryPorts
<1>13. \A ports : Fits(ports) =>
          \A j \in 1..Len(ports) : /\ <<"primary", j - 1>> \in Proc'
                                   /\ self'[<<"primary", j - 1>>].port = ports[j]
                                   /\ ports[j] # 0
  BY <1>2
<1> HIDE DEF Fits
<1> QED BY <1>2, <1>7, <1>8, <1>9, <1>10, <1>11, <1>12, <1>13 DEF PortsInv, Known, Twin
\* Assigning to a field a value of its type.
LEMMA RankFields ==
    ASSUME NEW r \in RankState
    PROVE  /\ [r EXCEPT !.status = "failed"] \in RankState
           /\ \A v \in Seq(StepName) : [r EXCEPT !.todo = v] \in RankState
           /\ \A v \in Nat : [r EXCEPT !.arrived = v] \in RankState
           /\ \A v \in Nat : [r EXCEPT !.port = v] \in RankState
           /\ \A v \in Nat : [r EXCEPT !.letter = v] \in RankState
           /\ \A v \in Info : [r EXCEPT !.info = v] \in RankState
           /\ \A v \in {"listening", "closed"} : [r EXCEPT !.acceptor = v] \in RankState
           /\ \A v \in Seq(Proc) : [r EXCEPT !.backlog = v] \in RankState
           /\ \A v \in Proc : [r EXCEPT !.peer = v] \in RankState
           /\ [r EXCEPT !.joined = TRUE] \in RankState
           /\ [r EXCEPT !.closed = TRUE] \in RankState
           /\ \A v \in Seq(Proc \X Nat) : [r EXCEPT !.stream = v] \in RankState
           /\ \A v \in Nat : [r EXCEPT !.sent = v] \in RankState
           /\ \A v \in Seq(Proc \X Nat) : [r EXCEPT !.received = v] \in RankState
<1>1. [r EXCEPT !.status = "failed"] \in RankState
  BY DEF RankState
<1>2. ASSUME NEW v \in Seq(StepName) PROVE [r EXCEPT !.todo = v] \in RankState
  BY DEF RankState
<1>3. ASSUME NEW v \in Nat PROVE [r EXCEPT !.arrived = v] \in RankState
  BY DEF RankState
<1>4. ASSUME NEW v \in Nat PROVE [r EXCEPT !.port = v] \in RankState
  BY DEF RankState
<1>5. ASSUME NEW v \in Nat PROVE [r EXCEPT !.letter = v] \in RankState
  BY DEF RankState
<1>6. ASSUME NEW v \in Info PROVE [r EXCEPT !.info = v] \in RankState
  BY DEF RankState
<1>7. ASSUME NEW v \in {"listening", "closed"} PROVE [r EXCEPT !.acceptor = v] \in RankState
  BY DEF RankState
<1>8. ASSUME NEW v \in Seq(Proc) PROVE [r EXCEPT !.backlog = v] \in RankState
  BY DEF RankState
<1>9. ASSUME NEW v \in Proc PROVE [r EXCEPT !.peer = v] \in RankState
  BY DEF RankState
<1>10. [r EXCEPT !.joined = TRUE] \in RankState
  BY DEF RankState
<1>11. [r EXCEPT !.closed = TRUE] \in RankState
  BY DEF RankState
<1>12. ASSUME NEW v \in Seq(Proc \X Nat) PROVE [r EXCEPT !.stream = v] \in RankState
  BY DEF RankState
<1>13. ASSUME NEW v \in Nat PROVE [r EXCEPT !.sent = v] \in RankState
  BY DEF RankState
<1>14. ASSUME NEW v \in Seq(Proc \X Nat) PROVE [r EXCEPT !.received = v] \in RankState
  BY DEF RankState
<1> QED BY <1>1, <1>2, <1>3, <1>4, <1>5, <1>6, <1>7, <1>8, <1>9, <1>10, <1>11, <1>12,
          <1>13, <1>14

LEMMA PartFields ==
    ASSUME NEW r \in PartState
    PROVE  /\ \A v \in Nat : [r EXCEPT !.synced = v] \in PartState
           /\ \A v \in Seq(Nat) : [r EXCEPT !.infos = v] \in PartState
           /\ \A v \in Nat : [r EXCEPT !.portName = v] \in PartState
           /\ \A v \in Info : [r EXCEPT !.offer = v] \in PartState
           /\ \A v \in Info : [r EXCEPT !.cast = v] \in PartState
<1>1. ASSUME NEW v \in Nat PROVE [r EXCEPT !.synced = v] \in PartState
  BY DEF PartState
<1>2. ASSUME NEW v \in Seq(Nat) PROVE [r EXCEPT !.infos = v] \in PartState
  BY DEF PartState
<1>3. ASSUME NEW v \in Nat PROVE [r EXCEPT !.portName = v] \in PartState
  BY DEF PartState
<1>4. ASSUME NEW v \in Info PROVE [r EXCEPT !.offer = v] \in PartState
  BY DEF PartState
<1>5. ASSUME NEW v \in Info PROVE [r EXCEPT !.cast = v] \in PartState
  BY DEF PartState
<1> QED BY <1>1, <1>2, <1>3, <1>4, <1>5
LEMMA TypeStep ==
    ASSUME RankInv, NEW x \in Proc, RankStep(x)
    PROVE  /\ self' \in [Proc -> RankState]
           /\ part' \in [Partner -> PartState]
           /\ bound' \in Proc \cup {Nobody}
<1> DEFINE r == [self[x] EXCEPT !.todo = Tail(@)]
           SelfOK == self' \in [Proc -> RankState]
           PartOK == part' \in [Partner -> PartState]
           BoundOK == bound' \in Proc \cup {Nobody}
<1>1. /\ conn \in Instances /\ part \in [Partner -> PartState] /\ Types
      /\ self \in [Proc -> RankState] /\ bound \in Proc \cup {Nobody}
      /\ x[1] \in Partner /\ Other(x[1]) \in Partner /\ "primary" \in Partner
  BY ProcFacts, OtherPartner DEF RankInv, RanksTypeOK, Types
<1>2. /\ self[x] \in RankState /\ FreePort \in Nat
      /\ self[x].todo \in Seq(StepName) /\ self[x].arrived + 1 \in Nat
      /\ self[x].port \in Nat /\ self[x].info \in Info /\ self[x].sent \in Nat
      /\ self[x].backlog \in Seq(Proc)
  BY <1>1, FreePortType DEF RankState
<1>3. self[x].todo # << >>
  BY <1>1, StepEffects, HasPeerHolds DEF Effects, SelfEffects, TodoEffect
<1>4. r \in RankState
  <2>1. Tail(self[x].todo) \in Seq(StepName)
    BY <1>2, <1>3, TailFacts
  <2> QED BY <1>2, <2>1, RankFields
<1>5. /\ r.arrived = self[x].arrived /\ r.port = self[x].port /\ r.sent = self[x].sent
      /\ r.stream = self[x].stream /\ r.received = self[x].received
  BY <1>2 DEF RankState
<1>6. \A p \in Partner : /\ part[p] \in PartState /\ part[p].portName \in Nat
                         /\ part[p].synced + 1 \in Nat /\ part[p].infos \in Seq(Nat)
                         /\ part[p].offer \in Info /\ part[p].cast \in Info
  BY <1>1 DEF PartState
<1>7. ASSUME NEW q \in RankState, self' = [self EXCEPT ![x] = q] PROVE SelfOK
  BY <1>1, <1>7
<1>8. ASSUME NEW p \in Partner, NEW q \in PartState, part' = [part EXCEPT ![p] = q] PROVE PartOK
  BY <1>1, <1>8
<1>9. ASSUME Advance(x) PROVE SelfOK /\ BoundOK
  <2>1. self' = [self EXCEPT ![x] = r] /\ bound' = bound
    BY <1>9 DEF Advance
  <2> HIDE DEF r
  <2> QED BY <1>1, <1>4, <1>7, <2>1
<1>10. ASSUME self' = [self EXCEPT ![x].status = "failed", ![x].todo = << >>] PROVE SelfOK
  <2> DEFINE q == [self[x] EXCEPT !.status = "failed"]
             f == [q EXCEPT !.todo = << >>]
  <2>1. self' = [self EXCEPT ![x] = f]
    BY <1>10
  <2>2. q \in RankState
    BY <1>2, RankFields
  <2>3. << >> \in Seq(StepName)
    OBVIOUS
  <2>4. f \in RankState
    <3> HIDE DEF q
    <3> QED BY <2>2, <2>3, RankFields
  <2> HIDE DEF f
  <2> QED BY <1>7, <2>1, <2>4
<1>11. Throw(x) => SelfOK /\ BoundOK
  BY <1>1, <1>10 DEF Throw
<1>12. CASE Depart(x)
  BY <1>1, <1>9, <1>12 DEF Depart
<1>13. CASE Synced(x)
  BY <1>1, <1>9, <1>13 DEF Synced
<1>14. CASE Reported(x)
  BY <1>1, <1>9, <1>14 DEF Reported
<1>15. CASE Left(x)
  BY <1>1, <1>9, <1>15 DEF Left
<1>16. CASE Sync(x)
  <2> DEFINE q == [part[x[1]] EXCEPT !.synced = part[x[1]].synced + 1]
  <2>1. part' = [part EXCEPT ![x[1]] = q] /\ Advance(x)
    BY <1>16 DEF Sync
  <2>2. q \in PartState
    BY <1>1, <1>6, PartFields
  <2> HIDE DEF q
  <2> QED BY <1>1, <1>8, <1>9, <2>1, <2>2
<1>17. CASE Offer(x)
  <2> DEFINE q == [part[x[1]] EXCEPT !.offer = MyInfo(x[1])]
  <2>1. part' = [part EXCEPT ![x[1]] = q] /\ Advance(x)
    BY <1>17 DEF Offer
  <2>2. MyInfo(x[1]) \in Info
    BY <1>1, <1>6, ConnFacts DEF MyInfo, Info
  <2>3. q \in PartState
    BY <1>1, <1>6, <2>2, PartFields
  <2> HIDE DEF q
  <2> QED BY <1>1, <1>8, <1>9, <2>1, <2>3
<1>18. CASE Broadcast(x)
  <2> DEFINE q == [part[x[1]] EXCEPT !.cast = self[x].info]
  <2>1. part' = [part EXCEPT ![x[1]] = q] /\ Advance(x)
    BY <1>18 DEF Broadcast
  <2>2. q \in PartState
    BY <1>1, <1>2, <1>6, PartFields
  <2> HIDE DEF q
  <2> QED BY <1>1, <1>8, <1>9, <2>1, <2>2
<1>19. CASE Arrive(x)
  <2> DEFINE q1 == [r EXCEPT !.arrived = self[x].arrived + 1]
  <2>1. self' = [self EXCEPT ![x] = q1] /\ part' = part /\ bound' = bound
    BY <1>19, <1>5 DEF Arrive
  <2>2. q1 \in RankState
    <3> HIDE DEF r
    <3> QED BY <1>2, <1>4, RankFields
  <2> HIDE DEF q1
  <2> QED BY <1>1, <1>7, <2>1, <2>2
<1>20. CASE Listen(x)
  <2> DEFINE q1 == [r EXCEPT !.port = FreePort]
             q2 == [q1 EXCEPT !.acceptor = "listening"]
  <2>1. self' = [self EXCEPT ![x] = q2] /\ part' = part /\ bound' = bound
    BY <1>20, <1>5 DEF Listen
  <2>2. q1 \in RankState
    <3> HIDE DEF r
    <3> QED BY <1>2, <1>4, RankFields
  <2>3. q2 \in RankState
    <3> HIDE DEF q1
    <3> QED BY <1>2, <2>2, RankFields
  <2> HIDE DEF q2
  <2> QED BY <1>1, <1>7, <2>1, <2>3
<1>21. CASE Report(x)
  <2> DEFINE q1 == [r EXCEPT !.letter = self[x].port]
  <2>1. self' = [self EXCEPT ![x] = q1] /\ part' = part /\ bound' = bound
    BY <1>21, <1>5 DEF Report
  <2>2. q1 \in RankState
    <3> HIDE DEF r
    <3> QED BY <1>2, <1>4, RankFields
  <2> HIDE DEF q1
  <2> QED BY <1>1, <1>7, <2>1, <2>2
<1>22. CASE GetPort(x)
  <2> DEFINE q1 == [r EXCEPT !.port = part[x[1]].portName]
  <2>1. self' = [self EXCEPT ![x] = q1] /\ part' = part /\ bound' = bound
    BY <1>22, <1>5 DEF GetPort, Part
  <2>2. q1 \in RankState
    <3> HIDE DEF r
    <3> QED BY <1>1, <1>6, <1>4, RankFields
  <2> HIDE DEF q1
  <2> QED BY <1>1, <1>7, <2>1, <2>2
<1>23. CASE GetInfo(x)
  <2> DEFINE q1 == [r EXCEPT !.info = part[x[1]].cast]
  <2>1. self' = [self EXCEPT ![x] = q1] /\ part' = part /\ bound' = bound
    BY <1>23, <1>5 DEF GetInfo, Part
  <2>2. q1 \in RankState
    <3> HIDE DEF r
    <3> QED BY <1>1, <1>6, <1>4, RankFields
  <2> HIDE DEF q1
  <2> QED BY <1>1, <1>7, <2>1, <2>2
<1>24. CASE Leave(x)
  <2> DEFINE q1 == [r EXCEPT !.closed = TRUE]
  <2>1. self' = [self EXCEPT ![x] = q1] /\ part' = part /\ bound' = bound
    BY <1>24, <1>5 DEF Leave
  <2>2. q1 \in RankState
    <3> HIDE DEF r
    <3> QED BY <1>2, <1>4, RankFields
  <2> HIDE DEF q1
  <2> QED BY <1>1, <1>7, <2>1, <2>2
<1>25. CASE Unlink(x)
  <2>1. self' = [self EXCEPT ![x] = r] /\ part' = part /\ bound' = Nobody
    BY <1>25 DEF Unlink
  <2> HIDE DEF r
  <2> QED BY <1>1, <1>4, <1>7, <2>1
<1>26. CASE OpenPort(x)
  <2> DEFINE q == [r EXCEPT !.port = FreePort]
             a == [part[x[1]] EXCEPT !.portName = FreePort]
             b == [a EXCEPT !.infos = <<FreePort>>]
  <2>1. /\ self' = [self EXCEPT ![x] = q] /\ part' = [part EXCEPT ![x[1]] = b]
        /\ bound' = bound
    BY <1>1, <1>26 DEF OpenPort
  <2>2. q \in RankState
    <3> HIDE DEF r
    <3> QED BY <1>2, <1>4, RankFields
  <2>3. a \in PartState /\ <<FreePort>> \in Seq(Nat)
    BY <1>1, <1>2, <1>6, PartFields
  <2>4. b \in PartState
    <3> HIDE DEF a
    <3> QED BY <2>3, PartFields
  <2> HIDE DEF q, b
  <2> QED BY <1>1, <1>7, <1>8, <2>1, <2>2, <2>4
<1>27. CASE Judge(x)
  <2> DEFINE q == [r EXCEPT !.info = part[Other(x[1])].offer]
  <2>1. part' = part /\ bound' = bound
    BY <1>27 DEF Judge
  <2>2. CASE self' = [self EXCEPT ![x] = q]
    <3>1. q \in RankState
      <4> HIDE DEF r
      <4> QED BY <1>1, <1>4, <1>6, RankFields
    <3> HIDE DEF q
    <3> QED BY <1>1, <1>7, <2>1, <2>2, <3>1
  <2>3. CASE self' = [self EXCEPT ![x].status = "failed", ![x].todo = << >>]
    BY <1>1, <1>10, <2>1, <2>3
  <2> QED BY <1>27, <2>2, <2>3 DEF Judge
<1>28. CASE LookUp(x)
  <2> DEFINE q == [r EXCEPT !.port = self[x].info.ports[Entry(x)]]
  <2>1. part' = part
    BY <1>28 DEF LookUp
  <2>2. CASE Len(self[x].info.ports) = Size[x[1]]
    <3>1. self' = [self EXCEPT ![x] = q] /\ bound' = bound
      BY <1>28, <2>2 DEF LookUp
    <3>2. self[x].info.ports \in Seq(Nat) /\ Entry(x) \in 1..Len(self[x].info.ports)
      BY <1>1, <1>2, <2>2, ProcFacts, ConnFacts DEF Entry, Info
    <3>3. self[x].info.ports[Entry(x)] \in Nat
      BY <3>2
    <3>4. q \in RankState
      <4> HIDE DEF r
      <4> QED BY <1>4, <3>3, RankFields
    <3> HIDE DEF q
    <3> QED BY <1>1, <1>7, <2>1, <3>1, <3>4
  <2>3. CASE Throw(x)
    BY <1>1, <1>11, <2>1, <2>3
  <2> QED BY <1>28, <2>2, <2>3 DEF LookUp
<1>29. CASE Bind(x)
  <2> DEFINE q == [r EXCEPT !.acceptor = "listening"]
  <2>1. part' = part
    BY <1>29 DEF Bind
  <2>2. CASE bound = Nobody
    <3>1. self' = [self EXCEPT ![x] = q] /\ bound' = x
      BY <1>29, <2>2 DEF Bind
    <3>2. q \in RankState
      <4> HIDE DEF r
      <4> QED BY <1>4, RankFields
    <3> HIDE DEF q
    <3> QED BY <1>1, <1>7, <2>1, <3>1, <3>2
  <2>3. CASE Throw(x)
    BY <1>1, <1>11, <2>1, <2>3
  <2> QED BY <1>29, <2>2, <2>3 DEF Bind
<1>30. CASE Accept(x)
  <2> DEFINE a == [r EXCEPT !.acceptor = "closed"]
             b == [a EXCEPT !.peer = Head(self[x].backlog)]
  <2>1. self' = [self EXCEPT ![x] = b] /\ part' = part /\ bound' = bound
    BY <1>30 DEF Accept
  <2>2. Head(self[x].backlog) \in Proc
    BY <1>2, <1>30, TailFacts DEF Accept
  <2>3. a \in RankState
    <3> HIDE DEF r
    <3> QED BY <1>4, RankFields
  <2>4. b \in RankState
    <3> HIDE DEF a
    <3> QED BY <2>2, <2>3, RankFields
  <2> HIDE DEF b
  <2> QED BY <1>1, <1>7, <2>1, <2>4
<1>31. CASE Join(x)
  <2> DEFINE v == IF x[1] = "primary" THEN self[x].port ELSE self[x].info.ports[1]
             a == [r EXCEPT !.joined = TRUE]
             b == [a EXCEPT !.port = v]
  <2>1. self' = [self EXCEPT ![x] = b] /\ part' = part /\ bound' = bound
    BY <1>5, <1>31 DEF Join
  <2>2. x[1] = "secondary" => self[x].info.ports # << >>
    <3> SUFFICES ASSUME x[1] = "secondary" PROVE self[x].info.ports # << >>
      OBVIOUS
    <3>1. Format = "mpi_inter"
      BY <1>31, HeadFacts DEF Join, At, Foreign
    <3>2. self[x].info # NoInfo /\ x \in Ranks("secondary")
      BY <1>31, <3>1, HeadFacts DEF Join, At, Ranks
    <3> QED BY <3>1, <3>2 DEF RankInv, HandShakeInv
  <2>3. v \in Nat
    <3>1. CASE x[1] = "primary"
      BY <1>2, <3>1
    <3>2. CASE x[1] = "secondary"
      <4>1. self[x].info.ports \in Seq(Nat) /\ self[x].info.ports # << >>
        BY <1>2, <2>2, <3>2 DEF Info
      <4>2. self[x].info.ports[1] \in Nat
        BY <4>1
      <4> QED BY <3>2, <4>2
    <3> QED BY <1>1, <3>1, <3>2 DEF Partner
  <2>4. a \in RankState
    <3> HIDE DEF r
    <3> QED BY <1>4, RankFields
  <2>5. b \in RankState
    <3> HIDE DEF a, v
    <3> QED BY <2>3, <2>4, RankFields
  <2> HIDE DEF b
  <2> QED BY <1>1, <1>7, <2>1, <2>5
<1>32. CASE Joined(x)
  <2> DEFINE q == [r EXCEPT !.peer = Twin(x)]
  <2>1. self' = [self EXCEPT ![x] = q] /\ part' = part /\ bound' = bound
    BY <1>32 DEF Joined
  <2>2. Twin(x) \in Proc
    <3>1. Agreed
      BY <1>32, HeadFacts DEF Joined, At
    <3>2. Size[Other(x[1])] = Size[x[1]]
      BY <1>1, <3>1 DEF Agreed, Partner, Other
    <3> QED BY <1>1, <3>2, ProcFacts
  <2>3. q \in RankState
    <3> HIDE DEF r
    <3> QED BY <1>4, <2>2, RankFields
  <2> HIDE DEF q
  <2> QED BY <1>1, <1>7, <2>1, <2>3
<1>33. CASE Receive(x)
  <2>1. part' = part
    BY <1>33 DEF Receive
  <2>2. ASSUME self[x].stream # << >>, bound' = bound,
               self' = [self EXCEPT ![x].todo = Tail(@), ![x].stream = Tail(@),
                           ![x].received = Append(@, Head(self[x].stream))]
        PROVE  SelfOK
    <3> DEFINE a == [r EXCEPT !.stream = Tail(self[x].stream)]
               b == [a EXCEPT !.received = Append(self[x].received, Head(self[x].stream))]
    <3>1. self' = [self EXCEPT ![x] = b]
      BY <1>2, <1>5, <2>2 DEF RankState
    <3>2. self[x].stream \in Seq(Proc \X Nat) /\ self[x].received \in Seq(Proc \X Nat)
      BY <1>2 DEF RankState
    <3>3. Tail(self[x].stream) \in Seq(Proc \X Nat) /\ Head(self[x].stream) \in Proc \X Nat
      BY <2>2, <3>2, TailFacts
    <3>4. Append(self[x].received, Head(self[x].stream)) \in Seq(Proc \X Nat)
      BY <3>2, <3>3, AppendProperties
    <3>5. a \in RankState
      <4> HIDE DEF r
      <4> QED BY <1>4, <3>3, RankFields
    <3>6. b \in RankState
      <4> HIDE DEF a
      <4> QED BY <3>4, <3>5, RankFields
    <3> HIDE DEF b
    <3> QED BY <1>7, <3>1, <3>6
  <2>3. CASE Throw(x)
    BY <1>1, <1>11, <2>1, <2>3
  <2> QED BY <1>1, <1>33, <2>1, <2>2, <2>3 DEF Receive
<1>34. CASE ConnectSocket(x)
  <2>1. part' = part
    BY <1>34 DEF ConnectSocket
  <2>2. ASSUME NEW y \in Server(x), bound' = bound,
               self' = [self EXCEPT ![x].todo = Tail(@), ![x].peer = y,
                                    ![y].backlog = Append(@, x)]
        PROVE  SelfOK
    <3> DEFINE a == [r EXCEPT !.peer = y]
               b == [self[y] EXCEPT !.backlog = Append(self[y].backlog, x)]
    <3>1. y \in Proc /\ y # x
      BY <1>34, HasPeerHolds DEF Server, Ranks, HasPeer, ConnectSocket
    <3>2. self' = [self EXCEPT ![x] = a, ![y] = b]
      BY <1>1, <2>2, <3>1
    <3>3. self[y] \in RankState /\ self[y].backlog \in Seq(Proc)
      BY <1>1, <3>1 DEF RankState
    <3>4. Append(self[y].backlog, x) \in Seq(Proc)
      BY <3>3, AppendProperties
    <3>5. a \in RankState
      <4> HIDE DEF r
      <4> QED BY <1>4, <3>1, RankFields
    <3>6. b \in RankState
      BY <3>3, <3>4, RankFields
    <3> HIDE DEF a, b
    <3> QED BY <1>1, <3>2, <3>5, <3>6
  <2>3. CASE Throw(x)
    BY <1>1, <1>11, <2>1, <2>3
  <2> QED BY <1>1, <1>34, <2>1, <2>2, <2>3 DEF ConnectSocket
<1>35. CASE Collect(x)
  <2> DEFINE infos == IF part[x[1]].infos = << >> THEN <<self[x].port>>
                      ELSE part[x[1]].infos
             y     == <<"primary", Len(infos)>>
  <2>1. infos \in Seq(Nat)
    BY <1>1, <1>2, <1>6
  <2>2. ASSUME NEW v \in Seq(Nat), part' = [part EXCEPT !["primary"].infos = v] PROVE PartOK
    <3> DEFINE q == [part["primary"] EXCEPT !.infos = v]
    <3>1. part' = [part EXCEPT !["primary"] = q]
      BY <2>2
    <3>2. q \in PartState
      BY <1>1, <1>6, PartFields
    <3> HIDE DEF q
    <3> QED BY <1>1, <1>8, <3>1, <3>2
  <2>3. \/ Advance(x) /\ part' = [part EXCEPT !["primary"].infos = infos]
        \/ /\ Len(infos) < Size["primary"] /\ bound' = bound
           /\ part' = [part EXCEPT !["primary"].infos = Append(infos, self[y].letter)]
           /\ self' = [self EXCEPT ![y].letter = 0]
    BY <1>35 DEF Collect, Sender, Part
  <2> HIDE DEF infos
  <2>4. CASE Advance(x) /\ part' = [part EXCEPT !["primary"].infos = infos]
    BY <1>9, <2>1, <2>2, <2>4
  <2>5. CASE /\ Len(infos) < Size["primary"] /\ bound' = bound
             /\ part' = [part EXCEPT !["primary"].infos = Append(infos, self[y].letter)]
             /\ self' = [self EXCEPT ![y].letter = 0]
    <3>1. Len(infos) \in 0..(MaxRanks - 1) /\ y = <<"primary", Len(infos)>>
      BY <1>1, <2>1, <2>5, ConnFacts
    <3>2. y \in Proc
      BY <1>1, <2>5, <3>1 DEF AnyProc, Proc
    <3> HIDE DEF y
    <3>3. self[y] \in RankState /\ self[y].letter \in Nat
      BY <1>1, <3>2 DEF RankState
    <3>4. Append(infos, self[y].letter) \in Seq(Nat)
      BY <2>1, <3>3, AppendProperties
    <3> DEFINE q == [self[y] EXCEPT !.letter = 0]
    <3>5. self' = [self EXCEPT ![y] = q] /\ q \in RankState
      BY <2>5, <3>3, RankFields
    <3> HIDE DEF q
    <3> QED BY <1>1, <2>2, <2>5, <3>2, <3>4, <3>5
  <2> QED BY <2>3, <2>4, <2>5
<1>36. CASE Send(x)
  <2> DEFINE y == self[x].peer
             m == <<x, self[x].sent + 1>>
  <2>1. part' = part /\ y \in Proc /\ y # x
    BY <1>36, HasPeerHolds DEF Send, HasPeer
  <2>2. CASE Throw(x) \/ Advance(x)
    BY <1>1, <1>9, <1>11, <2>1, <2>2
  <2>3. ASSUME bound' = bound,
               self' = [self EXCEPT ![x].todo = Tail(@), ![x].sent = @ + 1,
                                    ![y].stream = Append(@, m)]
        PROVE  SelfOK
    <3> DEFINE a == [r EXCEPT !.sent = self[x].sent + 1]
               b == [self[y] EXCEPT !.stream = Append(self[y].stream, m)]
    <3> HIDE DEF y, m
    <3>1. self' = [self EXCEPT ![x] = a, ![y] = b]
      BY <1>1, <1>5, <2>1, <2>3
    <3>2. self[y] \in RankState /\ self[y].stream \in Seq(Proc \X Nat) /\ m \in Proc \X Nat
      <4>1. self[y] \in RankState /\ self[y].stream \in Seq(Proc \X Nat)
        BY <1>1, <2>1 DEF RankState
      <4>2. self[x].sent + 1 \in Nat
        BY <1>2
      <4> QED BY <4>1, <4>2 DEF m
    <3>3. Append(self[y].stream, m) \in Seq(Proc \X Nat) /\ self[x].sent + 1 \in Nat
      BY <1>2, <3>2, AppendProperties
    <3>4. a \in RankState
      <4> HIDE DEF r
      <4> QED BY <1>4, <3>3, RankFields
    <3>5. b \in RankState
      BY <3>2, <3>3, RankFields
    <3> HIDE DEF a, b
    <3> QED BY <1>1, <2>1, <3>1, <3>4, <3>5
  <2> QED BY <1>1, <1>36, <2>1, <2>2, <2>3 DEF Send
<1>37. CASE Close(x)
  <2> DEFINE y == self[x].peer
  <2>1. part' = part /\ bound' = bound /\ y \in Proc /\ y # x
    BY <1>37, HasPeerHolds DEF Close, HasPeer
  <2>2. PICK lost \in {FALSE, self[x].stream # << >>} :
           self' = [self EXCEPT ![x].todo = Tail(@), ![x].closed = TRUE,
                                ![y].stream = IF lost THEN << >> ELSE @]
    BY <1>37 DEF Close
  <2> DEFINE s == IF lost THEN << >> ELSE self[y].stream
             a == [r EXCEPT !.closed = TRUE]
             b == [self[y] EXCEPT !.stream = s]
  <2> HIDE DEF y
  <2>3. self' = [self EXCEPT ![x] = a, ![y] = b]
    BY <1>1, <2>1, <2>2
  <2>4. self[y] \in RankState /\ self[y].stream \in Seq(Proc \X Nat)
    BY <1>1, <2>1 DEF RankState
  <2>5. s \in Seq(Proc \X Nat)
    BY <2>4
  <2>6. a \in RankState
    <3> HIDE DEF r
    <3> QED BY <1>4, RankFields
  <2>7. b \in RankState
    <3> HIDE DEF s
    <3> QED BY <2>4, <2>5, RankFields
  <2> HIDE DEF a, b
  <2> QED BY <1>1, <2>1, <2>3, <2>6, <2>7
<1> QED BY <1>12, <1>13, <1>14, <1>15, <1>16, <1>17, <1>18, <1>19, <1>20, <1>21, <1>22,
          <1>23, <1>24, <1>25, <1>26, <1>27, <1>28, <1>29, <1>30, <1>31, <1>32, <1>33,
          <1>34, <1>35, <1>36, <1>37 DEF RankStep
-----------------------------------------------------------------------------

LEMMA RankInit == RanksInit => RankInv
<1> SUFFICES ASSUME RanksInit PROVE RankInv
  OBVIOUS
<1> DEFINE L(x) == Connect(x[1], x[2]) \o conn.script[x[1]] \o Disconnect(x[2])
<1>1. conn \in Instances /\ bound = Nobody
  BY DEF RanksInit
<1>2. ASSUME NEW p \in Partner
      PROVE  /\ part[p] \in PartState /\ part[p].offer = NoInfo /\ part[p].cast = NoInfo
             /\ part[p].infos = << >>
  BY DEF RanksInit, PartState, NoInfo, Info
<1>3. part \in [Partner -> PartState]
  BY <1>2 DEF RanksInit
<1>4. ASSUME NEW x \in Proc
      PROVE  /\ self[x].todo = L(x) /\ self[x].peer = Nobody /\ self[x].closed = FALSE
             /\ self[x].port = 0 /\ self[x].letter = 0 /\ self[x].info = NoInfo
             /\ self[x].acceptor = "none" /\ self[x].backlog = << >>
             /\ L(x) \in Seq(StepName) => self[x] \in RankState
  <2>1. self[x] = [status |-> "running", todo |-> L(x), arrived |-> 0, port |-> 0,
                   letter |-> 0, info |-> NoInfo, acceptor |-> "none",
                   backlog |-> << >>, peer |-> Nobody, joined |-> FALSE,
                   closed |-> FALSE, stream |-> << >>, sent |-> 0, received |-> << >>]
    BY DEF RanksInit
  <2> HIDE DEF L
  <2>2. NoInfo \in Info
    BY DEF NoInfo, Info
  <2>3. L(x) \in Seq(StepName) => self[x] \in RankState
    BY <2>1, <2>2 DEF RankState
  <2> QED BY <2>1, <2>3
<1>5. ASSUME NEW x \in Proc
      PROVE  /\ L(x) \in Seq(StepName)
             /\ Without(L(x), Foreign(x))
             /\ NotAfter(L(x), {"close", "leave"}, {"send"})
             /\ NotAfter(L(x), {"listen"}, {"listen"})
             /\ Guarded(L(x), {"judge", "get_info"},
                        {"broadcast", "accept", "connect", "joined"})
             /\ Guarded(L(x), {"judge", "get_info"}, {"join"})
             /\ Guarded(L(x), {"accept", "connect", "joined"}, {"send", "receive", "close"})
             /\ Format = "socket" => Guarded(L(x), {"listen"}, {"collect", "report"})
             /\ Format = "mpi_inter" /\ x[1] = "primary" =>
                   Guarded(L(x), {"open_port"}, {"offer"})
  <2>1. x[1] \in Partner /\ Format \in {"socket", "local_socket", "mpi_inter"}
    BY <1>1, ProcFacts, ConnFacts
  <2>2. conn.script[x[1]] \in Seq(Op)
    BY <1>1, <2>1, ConnFacts
  <2> QED BY <2>1, <2>2, StartList
<1> HIDE DEF L
<1>7. \A x \in Proc : self[x] \in RankState
  BY <1>4, <1>5
<1>8. self \in [Proc -> RankState]
  BY <1>7 DEF RanksInit
<1>9. \A x \in Proc : ListInv(x) /\ GateInv(x) /\ SideInv(x)
  <2> SUFFICES ASSUME NEW x \in Proc PROVE ListInv(x) /\ GateInv(x) /\ SideInv(x)
    OBVIOUS
  <2>1. ListInv(x)
    BY <1>4, <1>5 DEF ListInv
  <2>2. GateInv(x)
    BY <1>4, <1>5 DEF GateInv
  <2>3. SideInv(x)
    <3>1. Len(<< >>) = 0 /\ 1..0 = {}
      OBVIOUS
    <3>2. self[x].backlog = << >> /\ self[x].peer = Nobody
      BY <1>4
    <3> QED BY <3>1, <3>2 DEF SideInv
  <2> QED BY <2>1, <2>2, <2>3
<1>10. HandShakeInv
  <2>1. \A x \in Ranks("secondary") : self[x].info = NoInfo
    BY <1>4 DEF Ranks
  <2> QED BY <1>2, <2>1, OtherPartner DEF HandShakeInv
<1>11. PortsInv
  <2>1. \A p : \A x \in Ranks(p) : x \in Proc
    BY DEF Ranks
  <2>2. FreePort > 0
    BY <1>1, <1>3, <1>8, FreePortType DEF Types
  <2>3. Known(<< >>) /\ NoInfo.ports = << >>
    BY DEF Known, NoInfo
  <2> QED BY <1>2, <1>4, <2>1, <2>2, <2>3 DEF PortsInv
<1> QED BY <1>1, <1>3, <1>7, <1>8, <1>9, <1>10, <1>11 DEF RankInv, RanksTypeOK

LEMMA RankInvStep == RankInv /\ [RanksNext]_rvars => RankInv'
<1> SUFFICES ASSUME RankInv, [RanksNext]_rvars PROVE RankInv'
  OBVIOUS
<1>1. CASE UNCHANGED rvars
  <2>1. conn' = conn /\ part' = part /\ self' = self /\ bound' = bound
    BY <1>1 DEF rvars
  <2>2. /\ Proc' = Proc /\ Format' = Format /\ Size' = Size /\ RankState' = RankState
        /\ (Agreed <=> Agreed') /\ \A x : Foreign(x)' = Foreign(x)
        /\ \A p : Ranks(p)' = Ranks(p)
    BY <2>1, SameConn
  <2>3. FreePort' = FreePort
    BY <2>1, <2>2 DEF FreePort
  <2>4. RanksTypeOK' /\ self' \in [Proc' -> RankState']
    BY <2>1, <2>2 DEF RankInv, RanksTypeOK
  <2>5. \A x \in Proc : ListInv(x)' /\ GateInv(x)' /\ SideInv(x)'
    BY <2>1, <2>2 DEF RankInv, ListInv, GateInv, SideInv
  <2>6. HandShakeInv'
    BY <2>1, <2>2 DEF RankInv, HandShakeInv
  <2>7. Format = "socket" => PortsInv'
    BY <2>1, <2>2, <2>3 DEF RankInv, PortsInv, Known, Twin
  <2> QED BY <2>2, <2>4, <2>5, <2>6, <2>7 DEF RankInv
<1>2. ASSUME NEW x \in AnyProc, RankStep(x) PROVE RankInv'
  <2>1. x \in Proc /\ conn' = conn
    BY <1>2 DEF RankStep
  <2>2. Effects(x) /\ TodoEffect(x)
    BY <1>2, <2>1, StepEffects, HasPeerHolds, InvTypes DEF Effects, SelfEffects
  <2>3. Proc' = Proc /\ Format' = Format /\ RankState' = RankState
    BY <2>1, SameConn
  <2>4. /\ self' \in [Proc -> RankState] /\ part' \in [Partner -> PartState]
        /\ bound' \in Proc \cup {Nobody}
    BY <1>2, <2>1, TypeStep
  <2>5. RanksTypeOK' /\ self' \in [Proc' -> RankState']
    BY <2>1, <2>3, <2>4 DEF RankInv, RanksTypeOK
  <2>6. \A y \in Proc : ListInv(y)' /\ GateInv(y)' /\ SideInv(y)'
    BY <2>1, <2>2, ListStep, GateStep, SideStep
  <2>7. HandShakeInv'
    BY <2>1, <2>2, HandShakeStep
  <2>8. Format = "socket" => PortsInv'
    BY <2>1, <2>2, PortsStep
  <2> QED BY <2>3, <2>5, <2>6, <2>7, <2>8 DEF RankInv
<1> QED BY <1>1, <1>2 DEF RanksNext

\* The states of all ranks have their types, and every rank works through the
\* steps of Communication::Connect, the exchange and Disconnect in their order.
THEOREM RankInvariant == RanksSpec => [](RankInv /\ RanksTypeOK)
<1>1. RankInv => RanksTypeOK
  BY DEF RankInv
<1> QED BY <1>1, RankInit, RankInvStep, PTL DEF RanksSpec

\* When the partners do not match, no rank of either connects: only rank 0 of a
\* partner compares the settings, in Communication::HandShake.
THEOREM NoHalfConnectionAlways == RanksSpec => []NoHalfConnection
<1>1. RankInv => NoHalfConnection
  BY DEF RankInv, GateInv, NoHalfConnection, IsConnected
<1> QED BY <1>1, RankInit, RankInvStep, PTL DEF RanksSpec

-----------------------------------------------------------------------------
(* Who meets whom, and what is imported.                                    *)

\* All ranks of a partner share the one file of a local socket, so that a local
\* socket connects partners with one rank each only; without this assumption
\* several ranks of the secondary meet the one rank that has bound the file
\* (local_socket_communication.cpp).
OneLocalRank == \A c \in Instances :
    c.format = "local_socket" => \A p \in Partner : c.size[p] = 1

\* Whatever listens at the address a rank connects to is its counterpart.
LEMMA ServerIsTwin ==
    ASSUME RankInv, OneLocalRank, NEW x \in Proc, At(x, "connect"), NEW y \in Server(x)
    PROVE  y = Twin(x) /\ x = Twin(y) /\ y \in Proc
<1>1. conn \in Instances /\ Format \in {"socket", "local_socket", "mpi_inter"}
  BY ConnFacts DEF RankInv, RanksTypeOK
<1>2. /\ y \in Proc /\ y[1] = "primary" /\ y \in Ranks("primary")
      /\ self[y].acceptor = "listening"
      /\ Format = "socket" => self[y].port = self[x].port
  BY DEF Server, Ranks
<1>3. x[1] = "secondary" /\ Format # "mpi_inter"
  BY <1>1, HeadFacts, ProcFacts DEF At, Foreign, Partner
<1>4. Twin(x) = <<"primary", x[2]>> /\ Twin(x)[1] = "primary" /\ x \in Ranks("secondary")
  BY <1>1, <1>3, ProcFacts, OtherPartner DEF Twin, Ranks
<1>5. CASE Format = "socket"
  <2>1. PortsInv
    BY <1>5 DEF RankInv
  <2>2. self[y].port # 0
    BY <1>2, <2>1 DEF PortsInv
  <2>3. Twin(x) \in Proc /\ self[x].port = self[Twin(x)].port
    BY <1>2, <1>4, <1>5, <2>1, <2>2 DEF PortsInv
  <2>4. Twin(x) \in Ranks("primary")
    BY <1>4, <2>3 DEF Ranks
  <2>5. y = Twin(x)
    BY <1>2, <1>5, <2>1, <2>2, <2>3, <2>4 DEF PortsInv
  <2> QED BY <1>1, <1>2, <2>5, ProcFacts
<1>6. CASE Format = "local_socket"
  <2>1. \A p \in Partner : Size[p] = 1
    BY <1>1, <1>6 DEF OneLocalRank, Format, Size
  <2>2. x[2] = 0 /\ y[2] = 0 /\ y = <<y[1], y[2]>>
    BY <1>1, <1>2, <2>1, ProcFacts
  <2>3. y = Twin(x)
    BY <1>2, <1>4, <2>2
  <2> QED BY <1>1, <1>2, <2>3, ProcFacts
<1> QED BY <1>1, <1>3, <1>5, <1>6

LEMMA MeetStep ==
    ASSUME RankInv, OneLocalRank, MeetInv, NEW x \in Proc, conn' = conn, Effects(x)
    PROVE  MeetInv'
<1> SUFFICES ASSUME NEW y \in Proc
             PROVE  /\ self'[y].peer \in {Nobody, Twin(y)}
                    /\ \A i \in 1..Len(self'[y].backlog) : self'[y].backlog[i] = Twin(y)
  BY SameConn DEF MeetInv, Twin
<1>1. /\ self[x].backlog \in Seq(Proc) /\ self[y].backlog \in Seq(Proc)
      /\ conn \in Instances
  BY DEF RankInv, RankState, RanksTypeOK
<1>2. self'[y].peer \in {Nobody, Twin(y)}
  <2>1. CASE self'[y].peer = self[y].peer
    BY <2>1 DEF MeetInv
  <2>2. CASE x = y /\ self[x].backlog # << >> /\ self'[x].peer = Head(self[x].backlog)
    <3>1. Head(self[x].backlog) = self[x].backlog[1] /\ 1 \in 1..Len(self[x].backlog)
      BY <1>1, <2>2
    <3> QED BY <2>2, <3>1 DEF MeetInv
  <2>3. CASE x = y /\ At(x, "connect") /\ self'[x].peer \in Server(x)
    BY <2>3, ServerIsTwin
  <2>4. CASE x = y /\ self'[x].peer = Twin(x)
    BY <2>4
  <2> QED BY <2>1, <2>2, <2>3, <2>4 DEF Effects, SelfEffects, PeerEffect
<1>3. ASSUME NEW i \in 1..Len(self'[y].backlog)
      PROVE  self'[y].backlog[i] = Twin(y)
  <2>1. CASE self'[y].backlog = self[y].backlog
    BY <1>3, <2>1 DEF MeetInv
  <2>2. CASE /\ At(x, "connect") /\ y \in Server(x)
             /\ self'[y].backlog = Append(self[y].backlog, x)
    <3>1. x = Twin(y)
      BY <2>2, ServerIsTwin
    <3>2. \/ i \in 1..Len(self[y].backlog) /\ self'[y].backlog[i] = self[y].backlog[i]
          \/ self'[y].backlog[i] = x
      BY <1>1, <1>3, <2>2
    <3> QED BY <3>1, <3>2 DEF MeetInv
  <2> QED BY <2>1, <2>2 DEF Effects, SelfEffects, SocketEffect
<1> QED BY <1>2, <1>3

LEMMA StreamStep ==
    ASSUME RankInv, MeetInv, StreamInv, NEW x \in Proc, conn' = conn, Effects(x)
    PROVE  StreamInv'
<1> SUFFICES ASSUME NEW y \in Proc
             PROVE  /\ \A i \in 1..Len(self'[y].received) :
                          self'[y].received[i] = <<Twin(y), i>>
                    /\ \A i \in 1..Len(self'[y].stream) :
                          self'[y].stream[i] = <<Twin(y), Len(self'[y].received) + i>>
                    /\ Twin(y) \in Proc /\ ~self'[Twin(y)].closed =>
                          self'[Twin(y)].sent = Len(self'[y].received) + Len(self'[y].stream)
  BY SameConn DEF StreamInv, Twin
<1> DEFINE w  == Twin(y)
           R  == self[y].received
           S  == self[y].stream
           R1 == self'[y].received
           S1 == self'[y].stream
<1>1. /\ \A i \in 1..Len(R) : R[i] = <<w, i>>
      /\ \A i \in 1..Len(S) : S[i] = <<w, Len(R) + i>>
      /\ w \in Proc /\ ~self[w].closed => self[w].sent = Len(R) + Len(S)
  BY DEF StreamInv
<1>2. R \in Seq(Proc \X Nat) /\ S \in Seq(Proc \X Nat) /\ Len(R) \in Nat /\ Len(S) \in Nat
  BY DEF RankInv, RankState
<1>3. w \in Proc /\ ~self'[w].closed => ~self[w].closed
  BY DEF Effects, SelfEffects, CloseEffect, RankInv, RankState
<1>4. Twin(w) = y
  BY ProcFacts DEF RankInv, RanksTypeOK
<1> HIDE DEF w
<1>5. CASE R1 = R /\ S1 = S /\ (w \in Proc => self'[w].sent = self[w].sent)
  <2> HIDE DEF R, S, R1, S1
  <2>1. /\ \A i \in 1..Len(R1) : R1[i] = <<w, i>>
        /\ \A i \in 1..Len(S1) : S1[i] = <<w, Len(R1) + i>>
        /\ w \in Proc /\ ~self'[w].closed => self'[w].sent = Len(R1) + Len(S1)
    BY <1>1, <1>3, <1>5
  <2> QED BY <2>1 DEF R1, S1, w
<1>6. CASE /\ At(x, "send")
           /\ \A z \in Proc :
                /\ self'[z].sent = IF z = x THEN self[z].sent + 1 ELSE self[z].sent
                /\ self'[z].stream = IF z = self[x].peer
                                     THEN Append(self[z].stream, <<x, self[x].sent + 1>>)
                                     ELSE self[z].stream
                /\ self'[z].received = self[z].received
  <2>1. self[x].peer = Twin(x) /\ self[x].peer \in Proc /\ ~self[x].closed
    <3>1. self[x].peer \in Proc
      BY <1>6, HasPeerHolds DEF HasPeer
    <3>2. Nobody \notin Proc
      BY ProcFacts DEF RankInv, RanksTypeOK
    <3>3. ~self[x].closed
      BY <1>6, HeadFacts DEF At
    <3> QED BY <3>1, <3>2, <3>3 DEF MeetInv
  <2>2. CASE y = self[x].peer
    <3>1. w = x
      BY <2>1, <2>2, ProcFacts DEF RankInv, RanksTypeOK, w
    <3>2. /\ R1 = R /\ S1 = Append(S, <<w, self[w].sent + 1>>)
          /\ self'[w].sent = self[w].sent + 1
      BY <1>6, <2>2, <3>1
    <3>3. self[w].sent = Len(R) + Len(S)
      BY <1>1, <2>1, <3>1
    <3> HIDE DEF R, S, R1, S1
    <3> DEFINE m == <<w, self[w].sent + 1>>
    <3>4. m \in Proc \X Nat
      BY <1>2, <3>1, <3>3
    <3>5. m = <<w, Len(R) + (Len(S) + 1)>>
      BY <1>2, <3>3
    <3>6. S1 = Append(S, m)
      BY <3>2
    <3> HIDE DEF m
    <3>7. /\ Len(S1) = Len(S) + 1 /\ S1[Len(S) + 1] = m
          /\ \A i \in 1..Len(S) : S1[i] = S[i]
      BY <1>2, <3>4, <3>6, AppendProperties
    <3>8. ASSUME NEW i \in 1..Len(S1) PROVE S1[i] = <<w, Len(R1) + i>>
      <4>1. i \in 1..Len(S) \/ i = Len(S) + 1
        BY <1>2, <3>7
      <4> QED BY <1>1, <3>2, <3>5, <3>7, <4>1
    <3>9. self'[w].sent = Len(R1) + Len(S1)
      BY <1>2, <3>2, <3>3, <3>7
    <3>10. \A i \in 1..Len(R1) : R1[i] = <<w, i>>
      BY <1>1, <3>2
    <3> QED BY <3>8, <3>9, <3>10 DEF R1, S1, w
  <2>3. CASE y # self[x].peer
    <3>1. w # x
      BY <1>4, <2>1, <2>3
    <3> QED BY <1>5, <1>6, <2>3, <3>1
  <2> QED BY <2>2, <2>3
<1>7. CASE /\ self[x].stream # << >>
           /\ \A z \in Proc :
                /\ self'[z].sent = self[z].sent
                /\ self'[z].stream = IF z = x THEN Tail(self[z].stream) ELSE self[z].stream
                /\ self'[z].received = IF z = x
                                       THEN Append(self[z].received, Head(self[z].stream))
                                       ELSE self[z].received
  <2>1. CASE y # x
    BY <1>5, <1>7, <2>1
  <2>2. CASE y = x
    <3>1. /\ S # << >> /\ S1 = Tail(S) /\ R1 = Append(R, Head(S))
          /\ w \in Proc => self'[w].sent = self[w].sent
      BY <1>7, <2>2
    <3> HIDE DEF R, S, R1, S1
    <3>2. /\ Len(S) > 0 /\ Len(S1) = Len(S) - 1 /\ Head(S) = S[1] /\ Head(S) \in Proc \X Nat
          /\ \A i \in 1..Len(S1) : S1[i] = S[i + 1] /\ i + 1 \in 1..Len(S)
      BY <1>2, <3>1, TailFacts
    <3>3. /\ Len(R1) = Len(R) + 1 /\ R1[Len(R) + 1] = Head(S)
          /\ \A i \in 1..Len(R) : R1[i] = R[i]
      BY <1>2, <3>1, <3>2, AppendProperties
    <3>4. Head(S) = <<w, Len(R) + 1>>
      BY <1>1, <1>2, <3>2
    <3>5. ASSUME NEW i \in 1..Len(R1) PROVE R1[i] = <<w, i>>
      <4>1. i \in 1..Len(R) \/ i = Len(R) + 1
        BY <1>2, <3>3
      <4> QED BY <1>1, <3>3, <3>4, <4>1
    <3>6. ASSUME NEW i \in 1..Len(S1) PROVE S1[i] = <<w, Len(R1) + i>>
      <4>1. S1[i] = <<w, Len(R) + (i + 1)>>
        BY <1>1, <3>2
      <4>2. Len(R) + (i + 1) = Len(R1) + i
        BY <1>2, <3>3
      <4> QED BY <4>1, <4>2
    <3>7. w \in Proc /\ ~self'[w].closed => self'[w].sent = Len(R1) + Len(S1)
      BY <1>1, <1>2, <1>3, <3>1, <3>2, <3>3
    <3> QED BY <3>5, <3>6, <3>7 DEF R1, S1, w
  <2> QED BY <2>1, <2>2
<1>8. CASE /\ At(x, "close") /\ self'[x].closed = TRUE
           /\ \A z \in Proc :
                /\ self'[z].sent = self[z].sent
                /\ \/ self'[z].stream = self[z].stream
                   \/ z = self[x].peer /\ self'[z].stream = << >>
                /\ self'[z].received = self[z].received
  <2>1. CASE S1 = S
    BY <1>5, <1>8, <2>1
  <2>2. CASE y = self[x].peer /\ S1 = << >>
    <3>1. y = Twin(x)
      <4>1. Nobody \notin Proc
        BY ProcFacts DEF RankInv, RanksTypeOK
      <4> QED BY <2>2, <4>1 DEF MeetInv
    <3>2. w = x
      BY <3>1, ProcFacts DEF RankInv, RanksTypeOK, w
    <3>3. R1 = R /\ Len(S1) = 0
      BY <1>8, <2>2
    <3> HIDE DEF R, R1, S1
    <3>4. /\ \A i \in 1..Len(R1) : R1[i] = <<w, i>>
          /\ \A i \in 1..Len(S1) : S1[i] = <<w, Len(R1) + i>>
      BY <1>1, <3>3
    <3> QED BY <1>8, <3>2, <3>4 DEF R1, S1, w
  <2> QED BY <1>8, <2>1, <2>2
<1>9. CASE \A z \in Proc : /\ self'[z].stream = self[z].stream
                           /\ self'[z].sent = self[z].sent
                           /\ self'[z].received = self[z].received
  BY <1>5, <1>9
<1> QED BY <1>6, <1>7, <1>8, <1>9 DEF Effects, SelfEffects, StreamEffect

LEMMA MeetInit == RanksInit => MeetInv /\ StreamInv
<1> SUFFICES ASSUME RanksInit PROVE MeetInv /\ StreamInv
  OBVIOUS
<1>1. \A x \in Proc : /\ self[x].peer = Nobody /\ self[x].backlog = << >>
                      /\ self[x].stream = << >> /\ self[x].received = << >>
                      /\ self[x].sent = 0
  BY DEF RanksInit
<1>2. Len(<< >>) = 0 /\ 1..0 = {} /\ 0 + 0 = 0
  OBVIOUS
<1>3. MeetInv
  BY <1>1, <1>2 DEF MeetInv
<1>4. StreamInv
  BY <1>1, <1>2 DEF StreamInv
<1> QED BY <1>3, <1>4

LEMMA MeetInvStep ==
    ASSUME OneLocalRank, RankInv, MeetInv, StreamInv, [RanksNext]_rvars
    PROVE  MeetInv' /\ StreamInv'
<1>1. CASE UNCHANGED rvars
  <2>1. conn' = conn /\ self' = self
    BY <1>1 DEF rvars
  <2>2. Proc' = Proc
    BY <2>1, SameConn
  <2> QED BY <2>1, <2>2 DEF MeetInv, StreamInv, Twin
<1>2. ASSUME NEW x \in AnyProc, RankStep(x) PROVE MeetInv' /\ StreamInv'
  <2>1. x \in Proc /\ conn' = conn
    BY <1>2 DEF RankStep
  <2>2. Effects(x)
    BY <1>2, <2>1, StepEffects, HasPeerHolds, InvTypes
  <2> QED BY <2>1, <2>2, MeetStep, StreamStep
<1> QED BY <1>1, <1>2 DEF RanksNext

LEMMA MeetInvariant ==
    ASSUME OneLocalRank
    PROVE  RanksSpec => [](RankInv /\ MeetInv /\ StreamInv)
<1> DEFINE Inv == RankInv /\ MeetInv /\ StreamInv
<1>1. RanksInit => Inv
  BY RankInit, MeetInit
<1>2. Inv /\ [RanksNext]_rvars => Inv'
  BY RankInvStep, MeetInvStep
<1> QED BY <1>1, <1>2, PTL DEF RanksSpec

\* A rank is only ever connected to the rank of the partner with its own number,
\* although the operating system chooses the ports and rank 0 collects and passes
\* them on (SocketCommunication::PrepareConnection, GetConnectionInformation).
THEOREM RanksMeetAlways ==
    ASSUME OneLocalRank
    PROVE  RanksSpec => []RanksMeet
<1>1. MeetInv => RanksMeet
  BY DEF MeetInv, RanksMeet, IsConnected
<1> QED BY <1>1, MeetInvariant, PTL

\* What a rank has imported is what its counterpart exported first, in order and
\* without a gap, even when the counterpart closes its socket while messages are
\* on the way (BaseSocketCommunication, MPIInterCommunication).
THEOREM ImportsFromTwinAlways ==
    ASSUME OneLocalRank
    PROVE  RanksSpec => []ImportsFromTwin
<1>1. RankInv /\ StreamInv => ImportsFromTwin
  <2> SUFFICES ASSUME RankInv, StreamInv, NEW x \in Proc
               PROVE  self[x].received =
                         [i \in 1..Len(self[x].received) |-> <<Twin(x), i>>]
    BY DEF ImportsFromTwin
  <2> DEFINE R == self[x].received
  <2>1. R \in Seq(Proc \X Nat)
    BY DEF RankInv, RankState
  <2>2. \A i \in 1..Len(R) : R[i] = <<Twin(x), i>>
    BY DEF StreamInv
  <2> HIDE DEF R
  <2>3. R = [i \in 1..Len(R) |-> R[i]]
    BY <2>1
  <2>4. R = [i \in 1..Len(R) |-> <<Twin(x), i>>]
    BY <2>2, <2>3
  <2> QED BY <2>4 DEF R
<1> QED BY <1>1, MeetInvariant, PTL

-----------------------------------------------------------------------------
(* Counting the steps of a list.                                            *)

\* The places of a step among the first n of a list, their number, and the
\* number of all of them.
Places(s, n, step) == {j \in 1..n : s[j] = step}
Count(s, n, step)  == Cardinality(Places(s, n, step))
Rest(s, step)     == Count(s, Len(s), step)

\* Places are finitely many.
LEMMA CountType ==
    ASSUME NEW s, NEW n \in Nat, NEW c
    PROVE  IsFiniteSet(Places(s, n, c)) /\ Count(s, n, c) \in Nat
<1>1. IsFiniteSet(1..n)
  BY FS_Interval
<1>2. IsFiniteSet(Places(s, n, c))
  BY <1>1, FS_Subset DEF Places
<1> QED BY <1>2, FS_CardinalityType DEF Count

\* The same places, counted from another start.
LEMMA ShiftedPlaces ==
    ASSUME NEW A \in SUBSET Int, NEW B \in SUBSET Int, NEW k \in Int, IsFiniteSet(A),
           \A j \in A : j + k \in B, \A j \in B : j - k \in A
    PROVE  IsFiniteSet(B) /\ Cardinality(B) = Cardinality(A)
<1> DEFINE f == [j \in A |-> j + k]
<1>1. f \in [A -> B]
  OBVIOUS
<1>2. \A i, j \in A : f[i] = f[j] => i = j
  OBVIOUS
<1>3. \A j \in B : \E i \in A : f[i] = j
  <2> TAKE j \in B
  <2>1. j - k \in A /\ f[j - k] = j
    OBVIOUS
  <2> QED BY <2>1
<1> HIDE DEF f
<1>4. f \in Bijection(A, B)
  BY <1>1, <1>2, <1>3, Fun_IsBij
<1>5. ExistsBijection(A, B)
  BY <1>4 DEF ExistsBijection
<1> QED BY <1>5, FS_Bijection

\* Counting in the first of two lists that are put together ...
LEMMA CountLeft ==
    ASSUME NEW S, NEW s \in Seq(S), NEW t \in Seq(S), NEW n \in 0..Len(s), NEW c
    PROVE  Count(s \o t, n, c) = Count(s, n, c)
<1>1. \A j \in 1..n : j \in 1..Len(s) /\ (s \o t)[j] = s[j]
  BY ConcatFacts
<1>2. Places(s \o t, n, c) = Places(s, n, c)
  BY <1>1 DEF Places
<1> QED BY <1>2 DEF Count

\* ... and in the second.
LEMMA CountRight ==
    ASSUME NEW S, NEW s \in Seq(S), NEW t \in Seq(S), NEW n \in 0..Len(t), NEW c
    PROVE  Count(s \o t, Len(s) + n, c) = Rest(s, c) + Count(t, n, c)
<1> DEFINE A == Places(s, Len(s), c)
           B == Places(t, n, c)
           C == {j \in (Len(s) + 1)..(Len(s) + n) : (s \o t)[j] = c}
           D == Places(s \o t, Len(s) + n, c)
<1>1. /\ Len(s) \in Nat /\ n \in Nat
      /\ \A j \in 1..Len(s) : (s \o t)[j] = s[j]
      /\ \A j \in 1..n : (s \o t)[Len(s) + j] = t[j]
  BY ConcatFacts
<1>2. IsFiniteSet(A) /\ IsFiniteSet(B)
  BY <1>1, CountType
<1>3. Cardinality(A) \in Nat /\ Cardinality(B) \in Nat
  BY <1>2, FS_CardinalityType
<1>4. B \in SUBSET Int /\ C \in SUBSET Int
  BY <1>1 DEF Places
<1>5. ASSUME NEW j \in B PROVE j + Len(s) \in C
  <2>1. j \in 1..n /\ t[j] = c
    BY DEF Places
  <2>2. (s \o t)[Len(s) + j] = c /\ j + Len(s) = Len(s) + j
    BY <1>1, <2>1
  <2>3. j + Len(s) \in (Len(s) + 1)..(Len(s) + n)
    BY <1>1, <2>1
  <2> QED BY <2>2, <2>3
<1>6. ASSUME NEW j \in C PROVE j - Len(s) \in B
  <2>1. j \in (Len(s) + 1)..(Len(s) + n) /\ (s \o t)[j] = c
    OBVIOUS
  <2>2. j - Len(s) \in 1..n /\ j = Len(s) + (j - Len(s))
    BY <1>1, <2>1
  <2>3. t[j - Len(s)] = c
    BY <1>1, <2>1, <2>2
  <2> QED BY <2>2, <2>3 DEF Places
<1>7. D = A \cup C
  <2>1. \A j : j \in 1..(Len(s) + n) <=> j \in 1..Len(s) \/ j \in (Len(s) + 1)..(Len(s) + n)
    BY <1>1
  <2>2. \A j : j \in D <=> j \in A \/ j \in C
    <3> TAKE j
    <3>1. CASE j \in 1..Len(s)
      BY <1>1, <2>1, <3>1 DEF Places
    <3>2. CASE j \notin 1..Len(s)
      BY <1>1, <2>1, <3>2 DEF Places
    <3> QED BY <3>1, <3>2
  <2> QED BY <2>2
<1>8. A \cap C = {}
  BY <1>1 DEF Places
<1> HIDE DEF A, B, C, D
<1>9. IsFiniteSet(C) /\ Cardinality(C) = Cardinality(B)
  <2>1. Len(s) \in Int
    BY <1>1
  <2> QED BY <1>2, <1>4, <1>5, <1>6, <2>1, ShiftedPlaces, Zenon
<1>10. Cardinality(A \cap C) = 0
  BY <1>8, FS_EmptySet
<1>11. Cardinality(A \cup C) = Cardinality(A) + Cardinality(C) - Cardinality(A \cap C)
  BY <1>2, <1>9, FS_Union
<1>12. Cardinality(D) = Cardinality(A) + Cardinality(B)
  BY <1>3, <1>7, <1>9, <1>10, <1>11
<1> QED BY <1>12 DEF Count, Rest, A, B, D

\* Two lists put together.
LEMMA RestConcat ==
    ASSUME NEW S, NEW s \in Seq(S), NEW t \in Seq(S), NEW c
    PROVE  Rest(s \o t, c) = Rest(s, c) + Rest(t, c)
<1>1. Len(t) \in 0..Len(t) /\ Len(s \o t) = Len(s) + Len(t)
  BY ConcatFacts
<1> QED BY <1>1, CountRight DEF Rest

\* A step that is not in the list.
LEMMA RestWithout ==
    ASSUME NEW S, NEW s \in Seq(S), NEW c, Without(s, {c})
    PROVE  Rest(s, c) = 0
<1>1. Places(s, Len(s), c) = {}
  BY DEF Without, Places
<1> QED BY <1>1, FS_EmptySet DEF Count, Rest

\* A list of one step.
LEMMA RestOne ==
    ASSUME NEW a
    PROVE  Rest(<<a>>, a) = 1
<1>1. Places(<<a>>, Len(<<a>>), a) = {1}
  BY OneStep DEF Places
<1> QED BY <1>1, FS_Singleton DEF Count, Rest

\* Taking off the first step.
LEMMA CountTail ==
    ASSUME NEW S, NEW s \in Seq(S), s # << >>, NEW n \in 0..Len(Tail(s)), NEW c
    PROVE  Count(s, n + 1, c) = Count(Tail(s), n, c) + (IF Head(s) = c THEN 1 ELSE 0)
<1> DEFINE h == <<Head(s)>>
           t == Tail(s)
<1>1. /\ Head(s) \in S /\ t \in Seq(S) /\ s = h \o t /\ n \in 0..Len(t)
      /\ h \in Seq(S) /\ Len(h) = 1 /\ h[1] = Head(s)
  BY OneStep
<1>2. Rest(h, c) = IF Head(s) = c THEN 1 ELSE 0
  <2>1. CASE Head(s) = c
    BY <2>1, RestOne
  <2>2. CASE Head(s) # c
    <3>1. Without(h, {c})
      <4>1. \A i \in 1..Len(h) : i = 1
        BY <1>1
      <4> QED BY <1>1, <2>2, <4>1 DEF Without
    <3> QED BY <1>1, <2>2, <3>1, RestWithout
  <2> QED BY <2>1, <2>2
<1>3. Count(s, n + 1, c) = Rest(h, c) + Count(t, n, c)
  <2> HIDE DEF h, t
  <2>1. Count(h \o t, Len(h) + n, c) = Rest(h, c) + Count(t, n, c)
    <3>1. h \in Seq(S) /\ t \in Seq(S) /\ n \in 0..Len(t)
      BY <1>1
    <3> QED BY <3>1, CountRight
  <2>2. Len(h) + n = n + 1
    BY <1>1
  <2> QED BY <1>1, <2>1, <2>2
<1>4. Count(t, n, c) \in Nat
  <2> HIDE DEF t
  <2> QED BY <1>1, CountType
<1> HIDE DEF h
<1> QED BY <1>2, <1>3, <1>4

\* Taking off the first step, for the whole list.
LEMMA RestTail ==
    ASSUME NEW S, NEW s \in Seq(S), s # << >>, NEW c
    PROVE  Rest(s, c) = Rest(Tail(s), c) + (IF Head(s) = c THEN 1 ELSE 0)
<1>1. Len(Tail(s)) \in 0..Len(Tail(s)) /\ Len(s) = Len(Tail(s)) + 1
  BY TailFacts
<1> QED BY <1>1, CountTail DEF Rest

\* Nothing is left exactly when the step is not in the list.
LEMMA RestType ==
    ASSUME NEW S, NEW s \in Seq(S), NEW c
    PROVE  Rest(s, c) \in Nat /\ (Rest(s, c) = 0 <=> Without(s, {c}))
<1> DEFINE A == Places(s, Len(s), c)
<1>1. IsFiniteSet(A) /\ Cardinality(A) \in Nat
  BY CountType, TailFacts DEF Count
<1>2. A = {} <=> Without(s, {c})
  BY DEF Without, Places
<1> HIDE DEF A
<1>3. Cardinality(A) = 0 <=> A = {}
  BY <1>1, FS_EmptySet
<1> QED BY <1>1, <1>2, <1>3 DEF A, Count, Rest

-----------------------------------------------------------------------------
(* Steps and the synchronisations that come before them.                    *)

\* Each of the steps in first is followed by one of those in next.
Leads(s, first, next) ==
    \A i \in 1..Len(s) : s[i] \in first => \E j \in 1..Len(s) : i < j /\ s[j] \in next

\* The step comes when n synchronisations have been entered ...
Numbered(s, step, n) ==
    \A i \in 1..Len(s) : s[i] = step => Count(s, i - 1, "sync") = n

\* ... and the step comes when n synchronisations at least are done.
Waits(s, step, n) ==
    \E j \in 1..Len(s) : /\ s[j] = "synced" /\ Count(s, j - 1, "sync") >= n
                         /\ \A i \in 1..j : s[i] # step

\* A list with a step is not one without it.
LEMMA HasNot == ASSUME NEW s, NEW G, Has(s, G) PROVE ~Without(s, G)
BY DEF Has, Without

\* Taking off the first step: when it leads to others, these are still to come.
LEMMA LeadsTail ==
    ASSUME NEW S, NEW s \in Seq(S), s # << >>, NEW F, NEW G, Leads(s, F, G)
    PROVE  Leads(Tail(s), F, G) /\ (Head(s) \in F => Has(Tail(s), G))
<1>1. ASSUME NEW i \in 1..Len(s), s[i] \in F
      PROVE  \E j \in 1..Len(Tail(s)) : i < j + 1 /\ Tail(s)[j] \in G
  <2>1. PICK j \in 1..Len(s) : i < j /\ s[j] \in G
    BY <1>1 DEF Leads
  <2>2. j - 1 \in 1..Len(Tail(s)) /\ (j - 1) + 1 = j
    BY <2>1, TailFacts
  <2>3. Tail(s)[j - 1] = s[j]
    BY <2>2, TailFacts
  <2> QED BY <2>1, <2>2, <2>3
<1>2. ASSUME NEW i \in 1..Len(Tail(s)), Tail(s)[i] \in F
      PROVE  \E j \in 1..Len(Tail(s)) : i < j /\ Tail(s)[j] \in G
  <2>1. i + 1 \in 1..Len(s) /\ s[i + 1] \in F
    BY <1>2, TailFacts
  <2>2. PICK j \in 1..Len(Tail(s)) : i + 1 < j + 1 /\ Tail(s)[j] \in G
    BY <1>1, <2>1
  <2> QED BY <2>2
<1>3. ASSUME Head(s) \in F PROVE Has(Tail(s), G)
  <2>1. 1 \in 1..Len(s) /\ s[1] \in F
    BY <1>3, TailFacts
  <2> QED BY <1>1, <2>1 DEF Has
<1> QED BY <1>2, <1>3 DEF Leads

\* Two lists put together.
LEMMA LeadsConcat ==
    ASSUME NEW S, NEW s \in Seq(S), NEW t \in Seq(S), NEW F, NEW G,
           Leads(t, F, G), Leads(s, F, G) \/ Has(t, G)
    PROVE  Leads(s \o t, F, G)
<1> SUFFICES ASSUME NEW i \in 1..Len(s \o t), (s \o t)[i] \in F
             PROVE  \E j \in 1..Len(s \o t) : i < j /\ (s \o t)[j] \in G
  BY DEF Leads
<1>1. CASE i \in 1..Len(s)
  <2>1. CASE Leads(s, F, G)
    <3>1. PICK j \in 1..Len(s) : i < j /\ s[j] \in G
      BY <1>1, <2>1, ConcatFacts DEF Leads
    <3>2. j \in 1..Len(s \o t) /\ (s \o t)[j] = s[j]
      BY ConcatFacts
    <3> QED BY <3>1, <3>2
  <2>2. CASE Has(t, G)
    <3>1. PICK j \in 1..Len(t) : t[j] \in G
      BY <2>2 DEF Has
    <3>2. Len(s) + j \in 1..Len(s \o t) /\ (s \o t)[Len(s) + j] = t[j] /\ i < Len(s) + j
      BY <1>1, ConcatFacts
    <3> QED BY <3>1, <3>2
  <2> QED BY <2>1, <2>2
<1>2. ASSUME NEW k \in 1..Len(t), i = Len(s) + k, (s \o t)[i] = t[k]
      PROVE  \E j \in 1..Len(s \o t) : i < j /\ (s \o t)[j] \in G
  <2>1. PICK j \in 1..Len(t) : k < j /\ t[j] \in G
    BY <1>2 DEF Leads
  <2>2. Len(s) + j \in 1..Len(s \o t) /\ (s \o t)[Len(s) + j] = t[j] /\ i < Len(s) + j
    BY <1>2, <2>1, ConcatFacts
  <2> QED BY <2>1, <2>2
<1>3. i \in 1..Len(s) \/ \E k \in 1..Len(t) : i = Len(s) + k /\ (s \o t)[i] = t[k]
  BY ConcatPlaces
<1> QED BY <1>1, <1>2, <1>3

\* A list in which no step leads to others.
LEMMA LeadsWithout ==
    ASSUME NEW s, NEW F, NEW G, Without(s, F)
    PROVE  Leads(s, F, G)
BY DEF Leads, Without

\* Taking off a synchronisation lowers the number of those before a step.
LEMMA NumberedTail ==
    ASSUME NEW S, NEW s \in Seq(S), s # << >>, NEW c, NEW n \in Int, Numbered(s, c, n)
    PROVE  Numbered(Tail(s), c, IF Head(s) = "sync" THEN n - 1 ELSE n)
<1> SUFFICES ASSUME NEW i \in 1..Len(Tail(s)), Tail(s)[i] = c
             PROVE  Count(Tail(s), i - 1, "sync") = IF Head(s) = "sync" THEN n - 1 ELSE n
  BY DEF Numbered
<1>1. i + 1 \in 1..Len(s) /\ s[i + 1] = c /\ (i + 1) - 1 = (i - 1) + 1
  BY TailFacts
<1>2. Count(s, (i - 1) + 1, "sync") = n
  BY <1>1 DEF Numbered
<1>3. i - 1 \in 0..Len(Tail(s)) /\ i - 1 \in Nat
  BY TailFacts
<1>4. Count(s, (i - 1) + 1, "sync")
        = Count(Tail(s), i - 1, "sync") + (IF Head(s) = "sync" THEN 1 ELSE 0)
  BY <1>3, CountTail
<1>5. Count(Tail(s), i - 1, "sync") \in Nat
  BY <1>3, CountType
<1> QED BY <1>2, <1>4, <1>5

\* Two lists put together, with the step in the first ...
LEMMA NumberedLeft ==
    ASSUME NEW S, NEW s \in Seq(S), NEW t \in Seq(S), NEW c, NEW n,
           Numbered(s, c, n), Without(t, {c})
    PROVE  Numbered(s \o t, c, n)
<1> SUFFICES ASSUME NEW i \in 1..Len(s \o t), (s \o t)[i] = c
             PROVE  Count(s \o t, i - 1, "sync") = n
  BY DEF Numbered
<1>1. i \in 1..Len(s) /\ s[i] = c
  BY ConcatPlaces DEF Without
<1>2. i - 1 \in 0..Len(s)
  BY <1>1, ConcatFacts
<1>3. Count(s \o t, i - 1, "sync") = Count(s, i - 1, "sync")
  BY <1>2, CountLeft
<1> QED BY <1>1, <1>3 DEF Numbered

\* ... and in the second.
LEMMA NumberedRight ==
    ASSUME NEW S, NEW s \in Seq(S), NEW t \in Seq(S), NEW c, NEW n, NEW m,
           Without(s, {c}), Numbered(t, c, n), m = Rest(s, "sync") + n
    PROVE  Numbered(s \o t, c, m)
<1> SUFFICES ASSUME NEW i \in 1..Len(s \o t), (s \o t)[i] = c
             PROVE  Count(s \o t, i - 1, "sync") = m
  BY DEF Numbered
<1>1. PICK k \in 1..Len(t) : i = Len(s) + k /\ t[k] = c
  BY ConcatPlaces DEF Without
<1>2. k - 1 \in 0..Len(t) /\ i - 1 = Len(s) + (k - 1)
  BY <1>1, ConcatFacts
<1>3. Count(s \o t, Len(s) + (k - 1), "sync") = Rest(s, "sync") + Count(t, k - 1, "sync")
  <2> DEFINE j == k - 1
  <2>1. j \in 0..Len(t)
    BY <1>2
  <2> HIDE DEF j
  <2>2. Count(s \o t, Len(s) + j, "sync") = Rest(s, "sync") + Count(t, j, "sync")
    BY <2>1, CountRight
  <2> QED BY <2>2 DEF j
<1> QED BY <1>1, <1>2, <1>3 DEF Numbered

\* A list without the step.
LEMMA NumberedWithout ==
    ASSUME NEW s, NEW c, NEW n, Without(s, {c})
    PROVE  Numbered(s, c, n)
BY DEF Numbered, Without

\* Taking off the first step: the step is still waited for, or has waited long enough.
LEMMA WaitsTail ==
    ASSUME NEW S, NEW s \in Seq(S), s # << >>, NEW c, NEW n \in Int, Waits(s, c, n)
    PROVE  /\ Head(s) # c
           /\ \/ Head(s) = "synced" /\ n <= 0
              \/ Waits(Tail(s), c, IF Head(s) = "sync" THEN n - 1 ELSE n)
<1>1. PICK j \in 1..Len(s) : /\ s[j] = "synced" /\ Count(s, j - 1, "sync") >= n
                             /\ \A i \in 1..j : s[i] # c
  BY DEF Waits
<1>2. Head(s) # c
  BY <1>1, TailFacts
<1>3. CASE j = 1
  <2>1. Count(s, 0, "sync") = 0
    <3>1. Places(s, 0, "sync") = {}
      BY DEF Places
    <3> QED BY <3>1, FS_EmptySet DEF Count
  <2>2. j - 1 = 0 /\ Head(s) = s[1]
    BY <1>3, TailFacts
  <2> QED BY <1>1, <1>2, <1>3, <2>1, <2>2
<1>4. CASE j # 1
  <2>1. /\ j - 1 \in 1..Len(Tail(s)) /\ (j - 1) - 1 \in 0..Len(Tail(s))
        /\ j - 1 = ((j - 1) - 1) + 1 /\ (j - 1) + 1 = j /\ (j - 1) - 1 \in Nat
    BY <1>4, TailFacts
  <2>2. Tail(s)[j - 1] = "synced"
    BY <1>1, <2>1, TailFacts
  <2>3. Count(s, j - 1, "sync")
          = Count(Tail(s), (j - 1) - 1, "sync") + (IF Head(s) = "sync" THEN 1 ELSE 0)
    BY <2>1, CountTail
  <2>4. Count(Tail(s), (j - 1) - 1, "sync") \in Nat
    BY <2>1, CountType
  <2>5. Count(Tail(s), (j - 1) - 1, "sync") >= (IF Head(s) = "sync" THEN n - 1 ELSE n)
    BY <1>1, <2>3, <2>4
  <2>6. ASSUME NEW i \in 1..(j - 1) PROVE Tail(s)[i] # c
    <3>1. i \in 1..Len(Tail(s)) /\ i + 1 \in 1..j
      BY <2>1
    <3> QED BY <1>1, <3>1, TailFacts
  <2> QED BY <1>2, <2>1, <2>2, <2>5, <2>6 DEF Waits
<1> QED BY <1>3, <1>4

\* Two lists put together, with the waiting in the first ...
LEMMA WaitsLeft ==
    ASSUME NEW S, NEW s \in Seq(S), NEW t \in Seq(S), NEW c, NEW n, Waits(s, c, n)
    PROVE  Waits(s \o t, c, n)
<1>1. PICK j \in 1..Len(s) : /\ s[j] = "synced" /\ Count(s, j - 1, "sync") >= n
                             /\ \A i \in 1..j : s[i] # c
  BY DEF Waits
<1>2. j - 1 \in 0..Len(s) /\ j \in 1..Len(s \o t) /\ \A i \in 1..j : i \in 1..Len(s)
  BY <1>1, ConcatFacts
<1>3. Count(s \o t, j - 1, "sync") = Count(s, j - 1, "sync")
  BY <1>2, CountLeft
<1>4. \A i \in 1..j : (s \o t)[i] # c
  BY <1>1, <1>2, ConcatFacts
<1>5. (s \o t)[j] = "synced"
  BY <1>1, ConcatFacts
<1> QED BY <1>1, <1>2, <1>3, <1>4, <1>5 DEF Waits

\* ... and in the second.
LEMMA WaitsRight ==
    ASSUME NEW S, NEW s \in Seq(S), NEW t \in Seq(S), NEW c, NEW n \in Int, NEW m,
           Without(s, {c}), Waits(t, c, n), m = Rest(s, "sync") + n
    PROVE  Waits(s \o t, c, m)
<1>1. PICK k \in 1..Len(t) : /\ t[k] = "synced" /\ Count(t, k - 1, "sync") >= n
                             /\ \A i \in 1..k : t[i] # c
  BY DEF Waits
<1> DEFINE j == Len(s) + k
<1>2. /\ k - 1 \in 0..Len(t) /\ j - 1 = Len(s) + (k - 1) /\ j \in 1..Len(s \o t)
      /\ (s \o t)[j] = "synced" /\ k - 1 \in Nat
  BY <1>1, ConcatFacts
<1>3. Count(s \o t, Len(s) + (k - 1), "sync") = Rest(s, "sync") + Count(t, k - 1, "sync")
  BY <1>2, CountRight
<1>4. Rest(s, "sync") \in Nat /\ Count(t, k - 1, "sync") \in Nat
  BY <1>2, CountType, RestType
<1>5. Count(s \o t, j - 1, "sync") >= m
  BY <1>1, <1>2, <1>3, <1>4
<1>6. ASSUME NEW i \in 1..j PROVE (s \o t)[i] # c
  <2>1. i \in 1..Len(s \o t)
    BY <1>2
  <2>2. CASE i \in 1..Len(s) /\ (s \o t)[i] = s[i]
    BY <2>2 DEF Without
  <2>3. ASSUME NEW l \in 1..Len(t), i = Len(s) + l, (s \o t)[i] = t[l] PROVE (s \o t)[i] # c
    <3>1. l \in 1..k
      BY <2>3, ConcatFacts
    <3> QED BY <1>1, <2>3, <3>1
  <2> QED BY <2>1, <2>2, <2>3, ConcatPlaces
<1> HIDE DEF j
<1> QED BY <1>2, <1>5, <1>6 DEF Waits

\* A list of two steps.
LEMMA TwoSteps ==
    ASSUME NEW a, NEW b
    PROVE  /\ <<a, b>> \in Seq({a, b}) /\ Len(<<a, b>>) = 2
           /\ <<a, b>>[1] = a /\ <<a, b>>[2] = b /\ \A i \in 1..2 : i = 1 \/ i = 2
OBVIOUS

-----------------------------------------------------------------------------
(* The lists with which the ranks start.                                    *)

\* The barriers and the rendezvous in a synchronisation of rank 0.
LEMMA SyncCounts ==
    ASSUME NEW c, c \notin SyncSteps
    PROVE  LET a == SynchronizeAll(0)
           IN  a \in Seq(SyncSteps) /\ Rest(a, "sync") = 1 /\ Waits(a, c, 1)
<1> DEFINE p == <<"arrive", "depart">>
           q == <<"sync", "synced">>
           N == SyncSteps
<1>1. SynchronizeAll(0) = (p \o q) \o p
  BY DEF SynchronizeAll
<1>2. p \in Seq(N) /\ Without(p, {"sync"}) /\ Without(p, {c})
  <2>1. p \in Seq({"arrive", "depart"})
    BY TwoSteps
  <2> HIDE DEF p
  <2> QED BY <2>1, SeqMono DEF SyncSteps, Without
<1>3. /\ q \in Seq({"sync", "synced"}) /\ Len(q) = 2 /\ q[1] = "sync" /\ q[2] = "synced"
      /\ \A i \in 1..2 : i = 1 \/ i = 2
  BY TwoSteps
<1> HIDE DEF p, q
<1>4. q \in Seq(N)
  BY <1>3, SeqMono DEF SyncSteps
<1>5. \A n \in {1, 2} : Count(q, n, "sync") = 1
  <2> TAKE n \in {1, 2}
  <2>1. Places(q, n, "sync") = {1}
    BY <1>3 DEF Places
  <2> QED BY <2>1, FS_Singleton DEF Count
<1>6. Rest(q, "sync") = 1
  BY <1>3, <1>5 DEF Rest
<1>7. Waits(q, c, 1)
  <2>1. 2 \in 1..Len(q) /\ 2 - 1 = 1 /\ Count(q, 1, "sync") >= 1
    BY <1>3, <1>5
  <2>2. \A i \in 1..2 : q[i] # c
    BY <1>3 DEF SyncSteps
  <2> QED BY <1>3, <2>1, <2>2 DEF Waits
<1>8. Rest(p, "sync") = 0
  BY <1>2, RestWithout
<1>9. p \o q \in Seq(N) /\ Rest(p \o q, "sync") = 1
  BY <1>2, <1>4, <1>6, <1>8, ConcatFacts, RestConcat
<1>10. (p \o q) \o p \in Seq(N) /\ Rest((p \o q) \o p, "sync") = 1
  <2> DEFINE r == p \o q
  <2> HIDE DEF r
  <2>1. r \in Seq(N) /\ Rest(r, "sync") = 1
    BY <1>9 DEF r
  <2>2. r \o p \in Seq(N) /\ Rest(r \o p, "sync") = 1 + 0
    BY <1>2, <1>8, <2>1, ConcatFacts, RestConcat
  <2> QED BY <2>2 DEF r
<1>11. Waits(p \o q, c, 1)
  <2>1. 1 = Rest(p, "sync") + 1
    BY <1>8
  <2> QED BY <1>2, <1>4, <1>7, <2>1, WaitsRight
<1>12. Waits((p \o q) \o p, c, 1)
  BY <1>2, <1>9, <1>11, WaitsLeft
<1> QED BY <1>1, <1>10, <1>12

\* The files of the port behind a local socket are made between two synchronisations.
LEMMA LocalBinds ==
    ASSUME Format = "local_socket"
    PROVE  LET d == ConnectDetail("primary", 0)
           IN  /\ NotAfter(d, {"bind"}, {"bind"}) /\ Leads(d, {"unlink"}, {"bind"})
               /\ Numbered(d, "bind", 1) /\ Has(d, {"bind"})
<1> DEFINE N  == StepName
           a  == SynchronizeAll(0)
           u  == <<"unlink">>
           b  == <<"bind">>
           c  == <<"accept">>
           ua == u \o a
           ub == ua \o b
           uc == ub \o a
           d  == uc \o c
<1>1. ConnectDetail("primary", 0) = d
  BY DEF ConnectDetail, LocalSocket
<1>2. /\ u \in Seq({"unlink"}) /\ b \in Seq({"bind"}) /\ c \in Seq({"accept"})
      /\ Has(b, {"bind"}) /\ Len(b) = 1
  BY OneStep
<1>3. a \in Seq(SyncSteps) /\ Rest(a, "sync") = 1
  <2>1. "bind" \notin SyncSteps
    BY DEF SyncSteps
  <2> QED BY <2>1, SyncCounts
<1> HIDE DEF a, u, b, c
<1>4. a \in Seq(N) /\ u \in Seq(N) /\ b \in Seq(N) /\ c \in Seq(N)
  BY <1>2, <1>3, SeqMono DEF SyncSteps, StepName, DetailSteps
<1>5. /\ Without(u, {"bind"}) /\ Without(a, {"bind"}) /\ Without(c, {"bind"})
      /\ Without(u, {"sync"}) /\ Without(b, {"sync"}) /\ Without(c, {"unlink"})
      /\ Without(a, {"unlink"}) /\ Without(b, {"unlink"})
  <2>1. \A v \in SyncSteps : v \notin {"bind"} /\ v \notin {"unlink"}
    BY DEF SyncSteps
  <2>2. Without(a, {"bind"}) /\ Without(a, {"unlink"})
    BY <1>3, <2>1, WithoutSeq
  <2>3. /\ Without(u, {"bind"}) /\ Without(u, {"sync"})
        /\ Without(b, {"sync"}) /\ Without(b, {"unlink"})
        /\ Without(c, {"bind"}) /\ Without(c, {"unlink"})
    BY <1>2, WithoutSeq
  <2> QED BY <2>2, <2>3
<1>6. ua \in Seq(N) /\ ub \in Seq(N) /\ uc \in Seq(N) /\ d \in Seq(N)
  BY <1>4, ConcatFacts
<1>7. Without(ua, {"bind"}) /\ Rest(ua, "sync") = 1
  <2>1. Rest(u, "sync") = 0
    BY <1>4, <1>5, RestWithout
  <2>2. Rest(ua, "sync") = Rest(u, "sync") + Rest(a, "sync")
    BY <1>4, RestConcat
  <2>3. Without(ua, {"bind"})
    BY <1>4, <1>5, WithoutConcat
  <2> QED BY <1>3, <2>1, <2>2, <2>3
<1> HIDE DEF ua
<1>8. Numbered(b, "bind", 0)
  <2>1. \A i \in 1..Len(b) : i - 1 = 0
    BY <1>2
  <2>2. Count(b, 0, "sync") = 0
    <3>1. Places(b, 0, "sync") = {}
      BY DEF Places
    <3> QED BY <3>1, FS_EmptySet DEF Count
  <2> QED BY <2>1, <2>2 DEF Numbered
<1>9. /\ Numbered(ub, "bind", 1) /\ Has(ub, {"bind"}) /\ Leads(ub, {"unlink"}, {"bind"})
      /\ NotAfter(ub, {"bind"}, {"bind"})
  <2>1. 1 = Rest(ua, "sync") + 0
    BY <1>7
  <2>2. Numbered(ub, "bind", 1)
    BY <1>4, <1>6, <1>7, <1>8, <2>1, NumberedRight
  <2>3. Leads(b, {"unlink"}, {"bind"})
    BY <1>5, LeadsWithout
  <2>4. Leads(ub, {"unlink"}, {"bind"}) /\ Has(ub, {"bind"})
    BY <1>2, <1>4, <1>6, <2>3, LeadsConcat, HasConcat
  <2>5. NotAfter(b, {"bind"}, {"bind"})
    BY <1>2 DEF NotAfter
  <2>6. NotAfter(ub, {"bind"}, {"bind"})
    BY <1>4, <1>6, <1>7, <2>5, NotAfterConcat, NotAfterWithout
  <2> QED BY <2>2, <2>4, <2>6
<1> HIDE DEF ub
<1>10. /\ Numbered(uc, "bind", 1) /\ Has(uc, {"bind"}) /\ Leads(uc, {"unlink"}, {"bind"})
       /\ NotAfter(uc, {"bind"}, {"bind"})
  <2>1. Leads(a, {"unlink"}, {"bind"}) /\ NotAfter(a, {"bind"}, {"bind"})
    BY <1>5, LeadsWithout, NotAfterWithout
  <2>2. Leads(uc, {"unlink"}, {"bind"}) /\ Has(uc, {"bind"})
    BY <1>4, <1>6, <1>9, <2>1, LeadsConcat, HasConcat
  <2>3. Numbered(uc, "bind", 1)
    BY <1>4, <1>5, <1>6, <1>9, NumberedLeft
  <2>4. NotAfter(uc, {"bind"}, {"bind"})
    BY <1>4, <1>5, <1>6, <1>9, <2>1, NotAfterConcat
  <2> QED BY <2>2, <2>3, <2>4
<1> HIDE DEF uc
<1>11. /\ Numbered(d, "bind", 1) /\ Has(d, {"bind"}) /\ Leads(d, {"unlink"}, {"bind"})
       /\ NotAfter(d, {"bind"}, {"bind"})
  <2>1. Leads(c, {"unlink"}, {"bind"}) /\ NotAfter(c, {"bind"}, {"bind"})
    BY <1>5, LeadsWithout, NotAfterWithout
  <2>2. Leads(d, {"unlink"}, {"bind"}) /\ Has(d, {"bind"})
    BY <1>4, <1>6, <1>10, <2>1, LeadsConcat, HasConcat
  <2>3. Numbered(d, "bind", 1)
    BY <1>4, <1>5, <1>6, <1>10, NumberedLeft
  <2>4. NotAfter(d, {"bind"}, {"bind"})
    BY <1>4, <1>5, <1>6, <1>10, <2>1, NotAfterConcat
  <2> QED BY <2>2, <2>3, <2>4
<1> HIDE DEF d
<1> QED BY <1>1, <1>11

\* The secondary connects its local socket after two more synchronisations.
LEMMA LocalWaits ==
    ASSUME Format = "local_socket"
    PROVE  Waits(ConnectDetail("secondary", 0), "connect", 2)
<1> DEFINE N == StepName
           a == SynchronizeAll(0)
           b == <<"connect">>
<1>1. ConnectDetail("secondary", 0) = (a \o a) \o b
  BY DEF ConnectDetail, LocalSocket
<1>2. a \in Seq(SyncSteps) /\ Rest(a, "sync") = 1 /\ Waits(a, "connect", 1)
  <2>1. "connect" \notin SyncSteps
    BY DEF SyncSteps
  <2> QED BY <2>1, SyncCounts
<1>3. b \in Seq({"connect"})
  BY OneStep
<1> HIDE DEF a, b
<1>4. a \in Seq(N) /\ b \in Seq(N) /\ Without(a, {"connect"})
  BY <1>2, <1>3, SeqMono DEF SyncSteps, DetailSteps, StepName, Without
<1>5. a \o a \in Seq(N)
  BY <1>4, ConcatFacts
<1>6. Waits(a \o a, "connect", 2)
  <2>1. 2 = Rest(a, "sync") + 1
    BY <1>2
  <2> QED BY <1>2, <1>4, <2>1, WaitsRight
<1>7. Waits((a \o a) \o b, "connect", 2)
  BY <1>4, <1>5, <1>6, WaitsLeft
<1> QED BY <1>1, <1>7

\* In which order a rank of the secondary uses the address it connects to.
LEMMA DetailOrder ==
    ASSUME NEW x, x[1] \in Partner,
           Format \in {"socket", "local_socket", "mpi_inter"}
    PROVE  LET d == ConnectDetail(x[1], x[2])
           IN  /\ NotAfter(d, {"connect"}, {"connect"})
               /\ Format # "local_socket" \/ x[1] = "secondary" =>
                     Without(d, {"bind", "unlink"})
               /\ Format = "socket" /\ x[1] = "secondary" =>
                     NotAfter(d, {"connect"}, {"look_up"}) /\ Has(d, {"look_up"})
<1> DEFINE d == ConnectDetail(x[1], x[2])
           K == {"bind", "unlink"}
<1>1. ASSUME Format = "socket", x[1] = "primary"
      PROVE  Without(d, K) /\ Without(d, {"connect"})
  <2>1. d \in Seq({"accept"})
    BY <1>1, OneStep DEF ConnectDetail
  <2> HIDE DEF d
  <2> QED BY <2>1, WithoutSeq
<1>2. ASSUME Format = "socket", x[1] = "secondary"
      PROVE  /\ Without(d, K) /\ NotAfter(d, {"connect"}, {"connect"})
             /\ NotAfter(d, {"connect"}, {"look_up"}) /\ Has(d, {"look_up"})
  <2>1. d = <<"look_up", "connect">>
    BY <1>2 DEF ConnectDetail
  <2>2. /\ d \in Seq({"look_up", "connect"}) /\ Len(d) = 2
        /\ d[1] = "look_up" /\ d[2] = "connect" /\ \A i \in 1..2 : i = 1 \/ i = 2
    BY <2>1, TwoSteps
  <2> HIDE DEF d
  <2>3. Without(d, K)
    BY <2>2, WithoutSeq
  <2>4. \A i, j \in 1..Len(d) : i < j => i = 1 /\ j = 2
    BY <2>2
  <2>5. NotAfter(d, {"connect"}, {"connect"}) /\ NotAfter(d, {"connect"}, {"look_up"})
    BY <2>2, <2>4 DEF NotAfter
  <2>6. Has(d, {"look_up"})
    BY <2>2 DEF Has
  <2> QED BY <2>3, <2>5, <2>6
<1>3. ASSUME Format = "mpi_inter"
      PROVE  Without(d, K) /\ Without(d, {"connect"})
  <2>1. d = <<"join", "joined">>
    BY <1>3 DEF ConnectDetail
  <2>2. d \in Seq({"join", "joined"})
    BY <2>1, TwoSteps
  <2> HIDE DEF d
  <2> QED BY <2>2, WithoutSeq
<1>4. ASSUME Format = "local_socket", x[1] = "secondary"
      PROVE  Without(d, K) /\ NotAfter(d, {"connect"}, {"connect"})
  <2> DEFINE a == SynchronizeAll(x[2])
             b == <<"connect">>
  <2>1. d = (a \o a) \o b
    BY <1>4 DEF ConnectDetail, LocalSocket
  <2>2. a \in Seq(SyncSteps) /\ b \in Seq({"connect"}) /\ Len(b) = 1
    BY SyncList, OneStep
  <2> HIDE DEF a, b, d
  <2>3. a \in Seq(StepName) /\ b \in Seq(StepName)
    BY <2>2, SeqMono DEF SyncSteps, DetailSteps, StepName
  <2>4. \A v \in SyncSteps : v \notin K /\ v \notin {"connect"}
    BY DEF SyncSteps
  <2>5. Without(a, K) /\ Without(a, {"connect"}) /\ Without(b, K)
    BY <2>2, <2>4, WithoutSeq
  <2>6. /\ a \o a \in Seq(StepName) /\ Without(a \o a, K) /\ Without(a \o a, {"connect"})
    BY <2>3, <2>5, WithoutConcat, ConcatFacts
  <2>7. NotAfter(b, {"connect"}, {"connect"})
    BY <2>2 DEF NotAfter
  <2>8. Without(d, K)
    BY <2>1, <2>3, <2>5, <2>6, WithoutConcat
  <2>9. NotAfter(a \o a, {"connect"}, {"connect"})
    BY <2>6, NotAfterWithout
  <2>10. NotAfter(d, {"connect"}, {"connect"})
    BY <2>1, <2>3, <2>6, <2>7, <2>9, NotAfterConcat
  <2> QED BY <2>8, <2>10
<1>5. ASSUME Format = "local_socket", x[1] = "primary"
      PROVE  NotAfter(d, {"connect"}, {"connect"})
  <2>1. Without(d, Foreign(x)) /\ "connect" \in Foreign(x)
    BY <1>5, DetailList DEF Foreign
  <2> HIDE DEF d
  <2>2. Without(d, {"connect"})
    BY <2>1 DEF Without
  <2> QED BY <2>2, NotAfterWithout
<1> HIDE DEF d
<1>6. Without(d, {"connect"}) => NotAfter(d, {"connect"}, {"connect"})
  BY NotAfterWithout
<1>7. /\ NotAfter(d, {"connect"}, {"connect"})
      /\ Format # "local_socket" \/ x[1] = "secondary" => Without(d, K)
      /\ Format = "socket" /\ x[1] = "secondary" =>
            NotAfter(d, {"connect"}, {"look_up"}) /\ Has(d, {"look_up"})
  BY <1>1, <1>2, <1>3, <1>4, <1>5, <1>6 DEF Partner
<1> QED BY <1>7 DEF d

\* What is needed of the list with which a rank starts, for the rank not to throw.
LEMMA FitStart ==
    ASSUME NEW x, x[1] \in Partner, NEW script \in Seq(Op),
           Format \in {"socket", "local_socket", "mpi_inter"}
    PROVE  LET L == Connect(x[1], x[2]) \o script \o Disconnect(x[2])
           IN  /\ NotAfter(L, {"close", "leave"}, {"send", "receive"})
               /\ \A c \in Op : Rest(L, c) = Rest(script, c)
               /\ NotAfter(L, {"connect"}, {"connect"})
               /\ Format # "local_socket" \/ x[1] = "secondary" =>
                     Without(L, {"bind", "unlink"})
               /\ x[2] # 0 => Without(L, {"offer"})
               /\ NotAfter(L, {"offer"}, {"collect"})
               /\ Format = "socket" /\ x[1] = "primary" /\ x[2] = 0 => Has(L, {"collect"})
               /\ NotAfter(L, {"look_up"}, {"judge", "get_info"})
               /\ Has(L, {"judge", "get_info"})
               /\ Format = "socket" /\ x[1] = "secondary" =>
                     NotAfter(L, {"connect"}, {"look_up"}) /\ Has(L, {"look_up"})
               /\ Format = "local_socket" /\ x[1] = "primary" /\ x[2] = 0 =>
                     /\ NotAfter(L, {"bind"}, {"bind"}) /\ Leads(L, {"unlink"}, {"bind"})
                     /\ Numbered(L, "bind", 2) /\ Has(L, {"bind"})
               /\ Format = "local_socket" /\ x[1] = "secondary" /\ x[2] = 0 =>
                     Waits(L, "connect", 3)
<1> DEFINE a  == SynchronizeAll(x[2])
           b  == PrepareConnection(x[1], x[2])
           c  == HandShake(x[2])
           d  == ConnectDetail(x[1], x[2])
           e  == script
           f  == DisconnectDetail
           ab == a \o b
           ac == ab \o c
           ad == ac \o d
           ae == ad \o e
           fa == f \o a
           L  == ae \o fa
           N  == StepName
<1>1. Connect(x[1], x[2]) \o script \o Disconnect(x[2]) = L
  BY DEF Connect, Disconnect
<1>2. /\ a \in Seq(SyncSteps) /\ b \in Seq(PrepareSteps) /\ c \in Seq(ShakeSteps)
      /\ d \in Seq(DetailSteps \cup SyncSteps) /\ e \in Seq(Op) /\ f \in Seq(LeaveSteps)
  BY SyncList, PrepareList, ShakeList, DetailList, DisconnectList
<1>3. x[2] # 0 => Without(c, {"offer"})
  BY ShakeList
<1>4. Has(c, {"judge", "get_info"})
  BY ShakeList
<1>5. Format = "socket" /\ x[1] = "primary" /\ x[2] = 0 => Has(b, {"collect"})
  <2> SUFFICES ASSUME Format = "socket", x[1] = "primary", x[2] = 0
               PROVE  Has(b, {"collect"})
    OBVIOUS
  <2>1. b = <<"listen">> \o <<"collect">>
    BY DEF PrepareConnection
  <2>2. /\ <<"listen">> \in Seq({"listen"}) /\ <<"collect">> \in Seq({"collect"})
        /\ Has(<<"collect">>, {"collect"})
    BY OneStep
  <2> DEFINE l == <<"listen">>
             k == <<"collect">>
  <2> HIDE DEF l, k
  <2>3. l \in Seq({"listen", "collect"}) /\ k \in Seq({"listen", "collect"})
    BY <2>2, SeqMono DEF l, k
  <2>4. Has(l \o k, {"collect"})
    BY <2>2, <2>3, HasConcat DEF k
  <2> QED BY <2>1, <2>4 DEF l, k
<1>6. /\ NotAfter(d, {"connect"}, {"connect"})
      /\ Format # "local_socket" \/ x[1] = "secondary" => Without(d, {"bind", "unlink"})
      /\ Format = "socket" /\ x[1] = "secondary" =>
            NotAfter(d, {"connect"}, {"look_up"}) /\ Has(d, {"look_up"})
  BY DetailOrder
<1>7. Format = "local_socket" /\ x[1] = "primary" /\ x[2] = 0 =>
         /\ NotAfter(d, {"bind"}, {"bind"}) /\ Leads(d, {"unlink"}, {"bind"})
         /\ Numbered(d, "bind", 1) /\ Has(d, {"bind"})
  BY LocalBinds
<1>8. Format = "local_socket" /\ x[1] = "secondary" /\ x[2] = 0 => Waits(d, "connect", 2)
  BY LocalWaits
<1>9. x[2] = 0 => Rest(a, "sync") = 1
  <2>1. "bind" \notin SyncSteps
    BY DEF SyncSteps
  <2> QED BY <2>1, SyncCounts
<1>10. Format = "local_socket" => b = << >>
  BY DEF PrepareConnection
<1> HIDE DEF a, b, c, d, e, f
<1>11. /\ a \in Seq(N) /\ b \in Seq(N) /\ c \in Seq(N)
       /\ d \in Seq(N) /\ e \in Seq(N) /\ f \in Seq(N)
  <2>1. /\ \A v \in SyncSteps : v \in N
        /\ \A v \in PrepareSteps : v \in N
        /\ \A v \in ShakeSteps : v \in N
        /\ \A v \in DetailSteps \cup SyncSteps : v \in N
        /\ \A v \in Op : v \in N
        /\ \A v \in LeaveSteps : v \in N
    BY DEF StepName
  <2> QED BY <1>2, <2>1, SeqMono
<1>12. /\ ab \in Seq(N) /\ ac \in Seq(N) /\ ad \in Seq(N) /\ ae \in Seq(N)
       /\ fa \in Seq(N) /\ L \in Seq(N)
  BY <1>11, ConcatFacts
<1>13. ASSUME NEW K
       PROVE  /\ (\A v \in SyncSteps : v \notin K) => Without(a, K)
              /\ (\A v \in PrepareSteps : v \notin K) => Without(b, K)
              /\ (\A v \in ShakeSteps : v \notin K) => Without(c, K)
              /\ (\A v \in DetailSteps \cup SyncSteps : v \notin K) => Without(d, K)
              /\ (\A v \in Op : v \notin K) => Without(e, K)
              /\ (\A v \in LeaveSteps : v \notin K) => Without(f, K)
  BY <1>2, WithoutSeq
<1>14. ASSUME NEW K, Without(a, K), Without(b, K), Without(c, K), Without(d, K)
       PROVE  Without(ab, K) /\ Without(ac, K) /\ Without(ad, K)
  <2>1. Without(ab, K)
    BY <1>11, <1>14, WithoutConcat
  <2>2. Without(ac, K)
    BY <1>11, <1>12, <1>14, <2>1, WithoutConcat
  <2> QED BY <1>11, <1>12, <1>14, <2>1, <2>2, WithoutConcat
<1>15. ASSUME NEW K, Without(ad, K), Without(e, K), Without(f, K), Without(a, K)
       PROVE  Without(L, K)
  <2>1. Without(ae, K) /\ Without(fa, K)
    BY <1>11, <1>12, <1>15, WithoutConcat
  <2> QED BY <1>12, <2>1, WithoutConcat
<1>16. ASSUME NEW F, NEW B, NotAfter(ad, F, B), Without(e, B), Without(f, B), Without(a, B)
       PROVE  NotAfter(L, F, B)
  <2>1. Without(fa, B)
    BY <1>11, <1>16, WithoutConcat
  <2>2. NotAfter(e, F, B) /\ NotAfter(fa, F, B)
    BY <1>16, <2>1, NotAfterWithout
  <2>3. NotAfter(ae, F, B)
    BY <1>11, <1>12, <1>16, <2>2, NotAfterConcat
  <2> QED BY <1>12, <2>1, <2>2, <2>3, NotAfterConcat
<1>17. ASSUME NEW G, Has(ad, G) PROVE Has(L, G)
  <2> HIDE DEF ad, fa
  <2>1. Has(ae, G)
    BY <1>11, <1>12, <1>17, HasConcat
  <2> HIDE DEF ae
  <2> QED BY <1>12, <2>1, HasConcat
<1>18. NotAfter(L, {"close", "leave"}, {"send", "receive"})
  <2> DEFINE K == {"close", "leave"}
             B == {"send", "receive"}
  <2>1. /\ Without(a, K) /\ Without(b, K) /\ Without(c, K) /\ Without(d, K) /\ Without(e, K)
        /\ Without(f, B) /\ Without(a, B)
    BY <1>13 DEF SyncSteps, PrepareSteps, ShakeSteps, DetailSteps, Op, LeaveSteps
  <2> HIDE DEF K, B
  <2>2. Without(ae, K) /\ Without(fa, B)
    BY <1>11, <1>12, <1>14, <2>1, WithoutConcat
  <2>3. NotAfter(ae, K, B) /\ NotAfter(fa, K, B)
    BY <2>2, NotAfterWithout
  <2>4. NotAfter(L, K, B)
    BY <1>12, <2>2, <2>3, NotAfterConcat
  <2> QED BY <2>4 DEF K, B
<1>19. ASSUME NEW op \in Op PROVE Rest(L, op) = Rest(script, op)
  <2> DEFINE K == {op}
  <2>1. /\ Without(a, K) /\ Without(b, K) /\ Without(c, K) /\ Without(d, K) /\ Without(f, K)
    BY <1>13 DEF SyncSteps, PrepareSteps, ShakeSteps, DetailSteps, Op, LeaveSteps
  <2>2. Without(ad, {op}) /\ Without(fa, {op})
    BY <1>11, <1>12, <1>14, <2>1, WithoutConcat
  <2>3. Rest(ad, op) = 0 /\ Rest(fa, op) = 0
    BY <1>12, <2>2, RestWithout
  <2>4. Rest(ae, op) = Rest(ad, op) + Rest(e, op)
    BY <1>11, <1>12, RestConcat
  <2>5. Rest(L, op) = Rest(ae, op) + Rest(fa, op)
    <3>1. ae \in Seq(N) /\ fa \in Seq(N) /\ L = ae \o fa
      BY <1>12
    <3> HIDE DEF L, ae, fa, N, K
    <3> QED BY <3>1, RestConcat
  <2>6. Rest(e, op) \in Nat
    BY <1>11, RestType
  <2>7. Rest(L, op) = Rest(e, op)
    BY <2>3, <2>4, <2>5, <2>6
  <2> QED BY <2>7 DEF e
<1>20. NotAfter(L, {"connect"}, {"connect"})
  <2> DEFINE K == {"connect"}
  <2>1. /\ Without(a, K) /\ Without(b, K) /\ Without(c, K) /\ Without(e, K) /\ Without(f, K)
    BY <1>13 DEF SyncSteps, PrepareSteps, ShakeSteps, Op, LeaveSteps
  <2>2. NotAfter(d, K, K)
    BY <1>6
  <2> HIDE DEF K
  <2>3. Without(ac, K)
    BY <1>11, <1>12, <2>1, WithoutConcat
  <2>4. NotAfter(ad, K, K)
    BY <1>11, <1>12, <2>2, <2>3, NotAfterConcat, NotAfterWithout
  <2>5. NotAfter(L, K, K)
    BY <1>16, <2>1, <2>4
  <2> QED BY <2>5 DEF K
<1>21. ASSUME Format # "local_socket" \/ x[1] = "secondary"
       PROVE  Without(L, {"bind", "unlink"})
  <2> DEFINE K == {"bind", "unlink"}
  <2>1. /\ Without(a, K) /\ Without(b, K) /\ Without(c, K) /\ Without(e, K) /\ Without(f, K)
    BY <1>13 DEF SyncSteps, PrepareSteps, ShakeSteps, Op, LeaveSteps
  <2>2. Without(d, K)
    BY <1>6, <1>21
  <2> HIDE DEF K
  <2>3. Without(L, K)
    BY <1>14, <1>15, <2>1, <2>2
  <2> QED BY <2>3 DEF K
<1>22. ASSUME x[2] # 0 PROVE Without(L, {"offer"})
  <2> DEFINE K == {"offer"}
  <2>1. /\ Without(a, K) /\ Without(b, K) /\ Without(d, K) /\ Without(e, K) /\ Without(f, K)
    BY <1>13 DEF SyncSteps, PrepareSteps, DetailSteps, Op, LeaveSteps
  <2>2. Without(c, K)
    BY <1>3, <1>22
  <2> HIDE DEF K
  <2>3. Without(L, K)
    BY <1>14, <1>15, <2>1, <2>2
  <2> QED BY <2>3 DEF K
<1>23. NotAfter(L, {"offer"}, {"collect"})
  <2> DEFINE K == {"offer"}
             B == {"collect"}
  <2>1. /\ Without(a, K) /\ Without(b, K)
        /\ Without(c, B) /\ Without(d, B) /\ Without(e, B) /\ Without(f, B) /\ Without(a, B)
    BY <1>13 DEF SyncSteps, PrepareSteps, ShakeSteps, DetailSteps, Op, LeaveSteps
  <2> HIDE DEF K, B
  <2>2. Without(ab, K)
    BY <1>11, <2>1, WithoutConcat
  <2>3. NotAfter(ab, K, B) /\ NotAfter(c, K, B) /\ NotAfter(d, K, B)
    BY <2>1, <2>2, NotAfterWithout
  <2>4. NotAfter(ac, K, B)
    BY <1>11, <1>12, <2>1, <2>3, NotAfterConcat
  <2>5. NotAfter(ad, K, B)
    BY <1>11, <1>12, <2>1, <2>3, <2>4, NotAfterConcat
  <2>6. NotAfter(L, K, B)
    BY <1>16, <2>1, <2>5
  <2> QED BY <2>6 DEF K, B
<1>24. ASSUME Format = "socket", x[1] = "primary", x[2] = 0 PROVE Has(L, {"collect"})
  <2>1. Has(ab, {"collect"})
    BY <1>5, <1>11, <1>24, HasConcat
  <2>2. Has(ac, {"collect"})
    BY <1>11, <1>12, <2>1, HasConcat
  <2>3. Has(ad, {"collect"})
    BY <1>11, <1>12, <2>2, HasConcat
  <2> QED BY <1>17, <2>3
<1>25. NotAfter(L, {"look_up"}, {"judge", "get_info"})
  <2> DEFINE K == {"look_up"}
             B == {"judge", "get_info"}
  <2>1. /\ Without(a, K) /\ Without(b, K) /\ Without(c, K)
        /\ Without(d, B) /\ Without(e, B) /\ Without(f, B) /\ Without(a, B)
    BY <1>13 DEF SyncSteps, PrepareSteps, ShakeSteps, DetailSteps, Op, LeaveSteps
  <2> HIDE DEF K, B
  <2>2. Without(ac, K)
    BY <1>11, <1>12, <2>1, WithoutConcat
  <2>3. NotAfter(ac, K, B) /\ NotAfter(d, K, B)
    BY <2>1, <2>2, NotAfterWithout
  <2>4. NotAfter(ad, K, B)
    BY <1>11, <1>12, <2>1, <2>3, NotAfterConcat
  <2>5. NotAfter(L, K, B)
    BY <1>16, <2>1, <2>4
  <2> QED BY <2>5 DEF K, B
<1>26. Has(L, {"judge", "get_info"})
  <2> DEFINE G == {"judge", "get_info"}
  <2> HIDE DEF G
  <2>1. Has(c, G)
    BY <1>4 DEF G
  <2>2. Has(ac, G)
    BY <1>11, <1>12, <2>1, HasConcat
  <2>3. Has(ad, G)
    BY <1>11, <1>12, <2>2, HasConcat
  <2>4. Has(L, G)
    BY <1>17, <2>3
  <2> QED BY <2>4 DEF G
<1>27. ASSUME Format = "socket", x[1] = "secondary"
       PROVE  NotAfter(L, {"connect"}, {"look_up"}) /\ Has(L, {"look_up"})
  <2> DEFINE K == {"connect"}
             B == {"look_up"}
  <2>1. /\ Without(a, K) /\ Without(b, K) /\ Without(c, K)
        /\ Without(e, B) /\ Without(f, B) /\ Without(a, B)
    BY <1>13 DEF SyncSteps, PrepareSteps, ShakeSteps, DetailSteps, Op, LeaveSteps
  <2>2. NotAfter(d, K, B) /\ Has(d, B)
    BY <1>6, <1>27
  <2> HIDE DEF K, B
  <2>3. Without(ac, K)
    BY <1>11, <1>12, <2>1, WithoutConcat
  <2>4. NotAfter(ad, K, B) /\ Has(ad, B)
    BY <1>11, <1>12, <2>2, <2>3, NotAfterConcat, NotAfterWithout, HasConcat
  <2>5. NotAfter(L, K, B) /\ Has(L, B)
    BY <1>16, <1>17, <2>1, <2>4
  <2> QED BY <2>5 DEF K, B
\* Before ConnectDetail, a rank 0 has entered one synchronisation.
<1>28. ASSUME Format = "local_socket", x[2] = 0
       PROVE  /\ Without(ac, {"bind"}) /\ Without(ac, {"unlink"}) /\ Without(ac, {"connect"})
              /\ Rest(ac, "sync") = 1
  <2>1. ab = a /\ ac = a \o c
    BY <1>10, <1>11, <1>28
  <2>2. /\ Without(a, {"bind"}) /\ Without(a, {"unlink"}) /\ Without(a, {"connect"})
        /\ Without(c, {"bind"}) /\ Without(c, {"unlink"}) /\ Without(c, {"connect"})
    BY <1>13 DEF SyncSteps, ShakeSteps
  <2>3. Without(c, {"sync"})
    BY <1>13 DEF ShakeSteps
  <2>4. Rest(c, "sync") = 0 /\ Rest(a, "sync") = 1
    BY <1>9, <1>11, <1>28, <2>3, RestWithout
  <2>5. Rest(a \o c, "sync") = Rest(a, "sync") + Rest(c, "sync")
    BY <1>11, RestConcat
  <2> HIDE DEF ab, ac
  <2>6. Rest(ac, "sync") = 1
    BY <2>1, <2>4, <2>5
  <2>7. Without(ac, {"bind"}) /\ Without(ac, {"unlink"}) /\ Without(ac, {"connect"})
    BY <1>11, <2>1, <2>2, WithoutConcat
  <2> QED BY <2>6, <2>7
<1>29. ASSUME Format = "local_socket", x[1] = "primary", x[2] = 0
       PROVE  /\ NotAfter(L, {"bind"}, {"bind"}) /\ Leads(L, {"unlink"}, {"bind"})
              /\ Numbered(L, "bind", 2) /\ Has(L, {"bind"})
  <2>1. /\ NotAfter(d, {"bind"}, {"bind"}) /\ Leads(d, {"unlink"}, {"bind"})
        /\ Numbered(d, "bind", 1) /\ Has(d, {"bind"})
    BY <1>7, <1>29
  <2>2. Without(ac, {"bind"}) /\ Without(ac, {"unlink"}) /\ 2 = Rest(ac, "sync") + 1
    BY <1>28, <1>29
  <2>3. \A K \in {{"bind"}, {"unlink"}} : Without(e, K) /\ Without(f, K) /\ Without(a, K)
    BY <1>13 DEF SyncSteps, Op, LeaveSteps
  <2>4. /\ Without(fa, {"bind"}) /\ Without(fa, {"unlink"})
        /\ Without(e, {"bind"}) /\ Without(e, {"unlink"})
    BY <1>11, <2>3, WithoutConcat
  <2> HIDE DEF ac, fa
  <2>5. /\ NotAfter(ad, {"bind"}, {"bind"}) /\ Leads(ad, {"unlink"}, {"bind"})
        /\ Numbered(ad, "bind", 2) /\ Has(ad, {"bind"})
    <3>1. NotAfter(ad, {"bind"}, {"bind"})
      BY <1>11, <1>12, <2>1, <2>2, NotAfterConcat, NotAfterWithout
    <3>2. Leads(ad, {"unlink"}, {"bind"}) /\ Has(ad, {"bind"})
      BY <1>11, <1>12, <2>1, LeadsConcat, HasConcat
    <3>3. Numbered(ad, "bind", 2)
      BY <1>11, <1>12, <2>1, <2>2, NumberedRight
    <3> QED BY <3>1, <3>2, <3>3
  <2> HIDE DEF ad
  <2>6. Leads(ae, {"unlink"}, {"bind"}) /\ Numbered(ae, "bind", 2)
    BY <1>11, <1>12, <2>4, <2>5, LeadsConcat, LeadsWithout, NumberedLeft
  <2> HIDE DEF ae
  <2>7. Leads(L, {"unlink"}, {"bind"}) /\ Numbered(L, "bind", 2)
    BY <1>11, <1>12, <2>4, <2>6, LeadsConcat, LeadsWithout, NumberedLeft
  <2>8. NotAfter(L, {"bind"}, {"bind"}) /\ Has(L, {"bind"})
    BY <1>16, <1>17, <2>3, <2>5 DEF ad, ae, fa, ac
  <2> QED BY <2>7, <2>8
<1>30. ASSUME Format = "local_socket", x[1] = "secondary", x[2] = 0
       PROVE  Waits(L, "connect", 3)
  <2>1. Waits(d, "connect", 2)
    BY <1>8, <1>30
  <2>2. Without(ac, {"connect"}) /\ 3 = Rest(ac, "sync") + 2
    BY <1>28, <1>30
  <2> HIDE DEF ac, fa
  <2>3. Waits(ad, "connect", 3)
    BY <1>11, <1>12, <2>1, <2>2, WaitsRight
  <2> HIDE DEF ad
  <2>4. Waits(ae, "connect", 3)
    BY <1>11, <1>12, <2>3, WaitsLeft
  <2> HIDE DEF ae
  <2> QED BY <1>12, <2>4, WaitsLeft
<1> HIDE DEF L
<1> QED BY <1>1, <1>18, <1>19, <1>20, <1>21, <1>22, <1>23, <1>24, <1>25, <1>26, <1>27,
           <1>29, <1>30

-----------------------------------------------------------------------------
(* What keeps the ranks of matching partners from throwing.                 *)

\* What is sent is received: nothing is on the way when a rank closes its socket.
FlowInv(x) ==
    /\ self[x].status = "running"
    /\ NotAfter(self[x].todo, {"close", "leave"}, {"send", "receive"})
    /\ self[x].closed => Without(self[x].todo, {"send", "receive"})
    /\ self[x].sent + Rest(self[x].todo, "send") = Rest(conn.script[x[1]], "send")
    /\ Len(self[x].received) + Rest(self[x].todo, "receive")
          = Rest(conn.script[x[1]], "receive")
    /\ self[Twin(x)].sent = Len(self[x].received) + Len(self[x].stream)

\* A rank connects once, and its counterpart does not close the acceptor before.
KnockInv(x) ==
    /\ NotAfter(self[x].todo, {"connect"}, {"connect"})
    /\ Format # "local_socket" \/ x[1] = "secondary" =>
          Without(self[x].todo, {"bind", "unlink"})
    /\ x[2] # 0 => Without(self[x].todo, {"offer"})
    /\ self[x].acceptor = "closed" => self[x].peer # Nobody
    /\ x[1] = "primary" /\ (self[x].peer # Nobody \/ self[x].backlog # << >>) =>
          Without(self[Twin(x)].todo, {"connect"})

\* An information tells the ports of all ranks.
AllPorts(info) == info # NoInfo => Len(info.ports) = Size["primary"]

\* Rank 0 offers the ports of all ranks, and each of the others gets to know them.
CollectInv(x) ==
    x[1] = "primary" /\ x[2] = 0 =>
       /\ NotAfter(self[x].todo, {"offer"}, {"collect"})
       /\ Without(self[x].todo, {"collect"}) => Len(part["primary"].infos) = Size["primary"]

\* A rank of the primary listens at its port, and one of the secondary has been
\* told the port when it looks it up.
AddressInv(x) ==
    IF x[1] = "primary"
    THEN self[x].port # 0 => self[x].acceptor # "none"
    ELSE /\ NotAfter(self[x].todo, {"look_up"}, {"judge", "get_info"})
         /\ NotAfter(self[x].todo, {"connect"}, {"look_up"})
         /\ Without(self[x].todo, {"judge", "get_info"}) => self[x].info # NoInfo
         /\ Without(self[x].todo, {"look_up"}) => self[x].port # 0
         /\ AllPorts(self[x].info)

PortsKnown ==
    /\ AllPorts(part["primary"].offer) /\ AllPorts(part["secondary"].cast)
    /\ \A x \in Proc : CollectInv(x) /\ AddressInv(x)

\* The primary binds its local socket before its third synchronisation, and the
\* secondary connects after its third.
BindInv(x) ==
    x = <<"primary", 0>> =>
       /\ NotAfter(self[x].todo, {"bind"}, {"bind"})
       /\ Leads(self[x].todo, {"unlink"}, {"bind"})
       /\ Numbered(self[x].todo, "bind", 2 - part["primary"].synced)
       /\ IF Without(self[x].todo, {"bind"})
          THEN bound = x /\ self[x].acceptor # "none"
          ELSE bound = Nobody

WaitInv(x) ==
    x = <<"secondary", 0>> =>
       \/ Without(self[x].todo, {"connect"})
       \/ part["primary"].synced >= 3
       \/ Waits(self[x].todo, "connect", 3 - part["secondary"].synced)

FitInv ==
    /\ \A x \in Proc : FlowInv(x) /\ KnockInv(x)
    /\ Format = "socket" => PortsKnown
    /\ Format = "local_socket" => \A x \in Proc : BindInv(x) /\ WaitInv(x)

MatchFit == Matching => FitInv

\* What one partner of a coupled program sends, the other receives.
LEMMA CoupledFits ==
    ASSUME NEW c \in Instances, c.script \in Coupled, NEW p \in Partner
    PROVE  Rest(c.script[p], "send") = Rest(c.script[Other(p)], "receive")
BY CoupledAssumption DEF Rest, Count, Places, Calls

-----------------------------------------------------------------------------
(* Why none of the steps throws.                                            *)

\* What is known of matching partners.
Whole == /\ OneLocalRank /\ Matching
         /\ RankInv /\ MeetInv /\ FitInv

\* The two ranks with the same number, and the programs they run.
LEMMA WholeFacts ==
    ASSUME Whole, NEW x \in Proc
    PROVE  /\ Twin(x) \in Proc /\ Twin(Twin(x)) = x /\ Twin(x) # x
           /\ x[1] \in Partner /\ Other(x[1]) \in Partner /\ Other(x[1]) # x[1]
           /\ Size[Other(x[1])] = Size[x[1]]
           /\ conn.setting[Other(x[1])] = conn.setting[x[1]]
           /\ Format \in {"socket", "local_socket", "mpi_inter"}
           /\ Rest(conn.script[Other(x[1])], "send") = Rest(conn.script[x[1]], "receive")
           /\ self[x].todo \in Seq(StepName)
           /\ Types
<1>1. conn \in Instances /\ Types /\ ListInv(x)
  BY DEF Whole, RankInv, Types, RanksTypeOK
<1>2. /\ x[1] \in Partner /\ Other(x[1]) \in Partner /\ Other(x[1]) # x[1]
      /\ Other(Other(x[1])) = x[1]
  BY <1>1, ProcFacts, OtherPartner
<1>3. \A p \in Partner : Size[Other(p)] = Size[p] /\ conn.setting[Other(p)] = conn.setting[p]
  BY OtherPartner DEF Whole, Matching, Agreed, Partner
<1>4. Twin(x) \in Proc /\ Twin(Twin(x)) = x /\ Twin(x) # x
  BY <1>1, <1>2, <1>3, ProcFacts
<1>5. Rest(conn.script[Other(x[1])], "send") = Rest(conn.script[x[1]], "receive")
  BY <1>1, <1>2, CoupledFits DEF Whole, Matching
<1>6. Format \in {"socket", "local_socket", "mpi_inter"}
  BY <1>1, ConnFacts
<1> QED BY <1>1, <1>2, <1>3, <1>4, <1>5, <1>6 DEF ListInv

\* Rank 0 finds the information of the other partner compatible.
LEMMA JudgeFits ==
    ASSUME Whole, NEW x \in Proc, part[Other(x[1])].offer # NoInfo
    PROVE  Compatible(x[1], part[Other(x[1])].offer)
BY WholeFacts DEF Whole, RankInv, HandShakeInv, Compatible

\* A rank knows the ports of all ranks when it looks up its own.
LEMMA LookUpFits ==
    ASSUME Whole, NEW x \in Proc, At(x, "look_up")
    PROVE  Len(self[x].info.ports) = Size[x[1]]
<1>1. Format = "socket" /\ x[1] = "secondary"
  BY WholeFacts, HeadFacts DEF Whole, At, Foreign, Partner
<1>2. AddressInv(x)
  BY <1>1 DEF Whole, FitInv, PortsKnown
<1> DEFINE s == self[x].todo
<1>3. s \in Seq(StepName) /\ s # << >> /\ Head(s) = "look_up"
  BY WholeFacts DEF At
<1>4. NotAfter(s, {"look_up"}, {"judge", "get_info"})
  BY <1>1, <1>2 DEF AddressInv
<1> HIDE DEF s
<1>5. Without(Tail(s), {"judge", "get_info"})
  BY <1>3, <1>4, NotAfterTail
<1>6. Without(s, {"judge", "get_info"})
  <2> SUFFICES ASSUME NEW i \in 1..Len(s) PROVE s[i] \notin {"judge", "get_info"}
    BY DEF Without
  <2>1. CASE i = 1
    BY <1>3, <2>1, TailFacts
  <2>2. CASE i # 1
    <3>1. i - 1 \in 1..Len(Tail(s)) /\ (i - 1) + 1 = i
      BY <1>3, <2>2, TailFacts
    <3>2. Tail(s)[i - 1] = s[i]
      BY <1>3, <3>1, TailFacts
    <3> QED BY <1>5, <3>1, <3>2 DEF Without
  <2> QED BY <2>1, <2>2
<1>7. self[x].info # NoInfo
  BY <1>1, <1>2, <1>6 DEF AddressInv, s
<1>8. Len(self[x].info.ports) = Size["primary"]
  BY <1>1, <1>2, <1>7 DEF AddressInv, AllPorts
<1> QED BY <1>1, <1>8, WholeFacts DEF Other

\* The file of a local socket has been removed before it is bound.
LEMMA BindFits ==
    ASSUME Whole, NEW x \in Proc, At(x, "bind")
    PROVE  /\ bound = Nobody /\ Format = "local_socket" /\ x = <<"primary", 0>>
<1> DEFINE s == self[x].todo
<1>1. s \in Seq(StepName) /\ s # << >> /\ Head(s) = "bind"
  BY WholeFacts DEF At
<1>2. ~Without(s, {"bind"}) /\ ~Without(s, {"bind", "unlink"})
  BY <1>1, TailFacts DEF Without
<1>3. Format = "local_socket" /\ x[1] = "primary"
  BY <1>2, WholeFacts DEF Whole, FitInv, KnockInv, Partner
<1>4. x = <<"primary", 0>>
  <2>1. conn \in Instances
    BY DEF Whole, RankInv, RanksTypeOK
  <2>2. Size[x[1]] = 1
    BY <1>3, <2>1, WholeFacts DEF Whole, OneLocalRank, Format, Size
  <2>3. x[2] = 0 /\ x = <<x[1], x[2]>>
    BY <2>1, <2>2, ProcFacts
  <2> QED BY <1>3, <2>3
<1>5. BindInv(x)
  BY <1>3 DEF Whole, FitInv
<1> QED BY <1>2, <1>3, <1>4, <1>5 DEF BindInv

\* A step that a rank is at is on its list.
LEMMA HeadIn ==
    ASSUME Whole, NEW x \in Proc, NEW c, At(x, c), NEW K, c \in K
    PROVE  ~Without(self[x].todo, K)
<1>1. self[x].todo \in Seq(StepName) /\ self[x].todo # << >> /\ Head(self[x].todo) = c
  BY WholeFacts DEF At
<1> QED BY <1>1, TailFacts DEF Without

\* The counterpart listens when a rank connects.
LEMMA ServerListens ==
    ASSUME Whole, NEW x \in Proc, At(x, "connect")
    PROVE  Server(x) # {}
<1> DEFINE y == Twin(x)
           s == self[x].todo
<1>1. x[1] = "secondary" /\ Format # "mpi_inter"
  BY WholeFacts, HeadFacts DEF Whole, At, Foreign, Partner
<1>2. y \in Proc /\ y[1] = "primary" /\ Twin(y) = x /\ y \in Ranks("primary") /\ x \in Ranks("secondary")
  BY <1>1, WholeFacts DEF Twin, Other, Ranks
<1>3. ~Without(s, {"connect"})
  BY HeadIn
<1>4. self[y].acceptor # "closed"
  BY <1>2, <1>3 DEF Whole, FitInv, KnockInv
<1>5. self[y].acceptor \in {"none", "listening", "closed"}
  BY <1>2, WholeFacts DEF Types, RankState
<1>6. s \in Seq(StepName) /\ s # << >> /\ Head(s) = "connect"
  BY WholeFacts DEF At
<1>7. CASE Format = "socket"
  <2>1. AddressInv(x) /\ AddressInv(y)
    BY <1>2, <1>7 DEF Whole, FitInv, PortsKnown
  <2>2. Without(s, {"look_up"})
    <3>1. NotAfter(s, {"connect"}, {"look_up"})
      BY <1>1, <2>1 DEF AddressInv
    <3> HIDE DEF s
    <3>2. Without(Tail(s), {"look_up"})
      BY <1>6, <3>1, NotAfterTail
    <3> SUFFICES ASSUME NEW i \in 1..Len(s) PROVE s[i] # "look_up"
      BY DEF Without
    <3>3. CASE i = 1
      BY <1>6, <3>3, TailFacts
    <3>4. CASE i # 1
      <4>1. i - 1 \in 1..Len(Tail(s)) /\ (i - 1) + 1 = i
        BY <1>6, <3>4, TailFacts
      <4>2. Tail(s)[i - 1] = s[i]
        BY <1>6, <4>1, TailFacts
      <4> QED BY <3>2, <4>1, <4>2 DEF Without
    <3> QED BY <3>3, <3>4
  <2>3. self[x].port # 0
    BY <1>1, <2>1, <2>2 DEF AddressInv
  <2>4. self[x].port = self[y].port
    BY <1>2, <1>7, <2>3 DEF Whole, RankInv, PortsInv
  <2>5. self[y].acceptor = "listening"
    BY <1>2, <1>4, <1>5, <2>1, <2>3, <2>4 DEF AddressInv
  <2> QED BY <1>2, <1>7, <2>4, <2>5 DEF Server
<1>8. CASE Format = "local_socket"
  <2>1. conn \in Instances
    BY DEF Whole, RankInv, RanksTypeOK
  <2>2. Size[x[1]] = 1
    BY <1>8, <2>1, WholeFacts DEF Whole, OneLocalRank, Format, Size
  <2>3. x[2] = 0 /\ x = <<x[1], x[2]>>
    BY <2>1, <2>2, ProcFacts
  <2>4. x = <<"secondary", 0>> /\ y = <<"primary", 0>>
    BY <1>1, <2>3 DEF Twin, Other
  <2>5. WaitInv(x) /\ BindInv(y)
    BY <1>2, <1>8 DEF Whole, FitInv
  <2>6. part["primary"].synced \in Nat /\ part["secondary"].synced \in Nat
    BY WholeFacts DEF Types, PartState, Partner
  <2>7. ~Waits(s, "connect", 3 - part["secondary"].synced)
    BY <1>6, <2>6, WaitsTail
  <2>8. part["primary"].synced >= 3
    BY <1>3, <2>4, <2>5, <2>7 DEF WaitInv
  <2>9. Without(self[y].todo, {"bind"})
    <3> SUFFICES ASSUME NEW i \in 1..Len(self[y].todo), self[y].todo[i] = "bind" PROVE FALSE
      BY DEF Without
    <3>1. Count(self[y].todo, i - 1, "sync") = 2 - part["primary"].synced
      BY <2>4, <2>5 DEF BindInv, Numbered
    <3>2. self[y].todo \in Seq(StepName)
      BY <1>2, WholeFacts
    <3>3. i - 1 \in Nat
      BY <3>2
    <3>4. Count(self[y].todo, i - 1, "sync") \in Nat
      BY <3>3, CountType
    <3> QED BY <2>6, <2>8, <3>1, <3>4
  <2>10. bound = y /\ self[y].acceptor = "listening"
    BY <1>4, <1>5, <2>4, <2>5, <2>9 DEF BindInv
  <2> QED BY <1>2, <1>8, <2>10 DEF Server
<1> QED BY <1>1, <1>7, <1>8, WholeFacts

\* The peer of a rank that sends, receives or closes is its counterpart.
LEMMA PeerIsTwin ==
    ASSUME Whole, NEW x \in Proc, At(x, "send") \/ At(x, "receive") \/ At(x, "close")
    PROVE  self[x].peer = Twin(x)
<1>1. self[x].peer \in Proc
  BY HasPeerHolds DEF Whole, HasPeer
<1>2. Nobody \notin Proc
  BY ProcFacts DEF Whole, RankInv, RanksTypeOK
<1> QED BY <1>1, <1>2 DEF Whole, MeetInv

\* Messages that are still to be sent and received, and those on the way.
LEMMA FlowFacts ==
    ASSUME Whole, NEW x \in Proc
    PROVE  /\ self[x].sent \in Nat /\ Len(self[x].received) \in Nat
           /\ Len(self[x].stream) \in Nat /\ (Len(self[x].stream) = 0 <=> self[x].stream = << >>)
           /\ self[x].stream \in Seq(Proc \X Nat) /\ self[x].received \in Seq(Proc \X Nat)
           /\ \A c \in Op : /\ Rest(self[x].todo, c) \in Nat
                            /\ Rest(self[x].todo, c) = 0 <=> Without(self[x].todo, {c})
           /\ FlowInv(x)
           /\ self[x].closed => /\ Rest(self[x].todo, "send") = 0
                                /\ Rest(self[x].todo, "receive") = 0
<1>1. /\ self[x].sent \in Nat /\ self[x].stream \in Seq(Proc \X Nat)
      /\ self[x].received \in Seq(Proc \X Nat)
  BY WholeFacts DEF Types, RankState
<1>2. \A c : /\ Rest(self[x].todo, c) \in Nat
             /\ Rest(self[x].todo, c) = 0 <=> Without(self[x].todo, {c})
  BY WholeFacts, RestType
<1>3. FlowInv(x)
  BY DEF Whole, FitInv
<1>4. self[x].closed => Without(self[x].todo, {"send"}) /\ Without(self[x].todo, {"receive"})
  BY <1>3 DEF FlowInv, Without
<1> QED BY <1>1, <1>2, <1>3, <1>4

\* The counterpart of a rank that sends has not closed its socket ...
LEMMA SendFits ==
    ASSUME Whole, NEW x \in Proc, At(x, "send")
    PROVE  ~self[self[x].peer].closed
<1> DEFINE y == Twin(x)
<1>1. self[x].peer = y /\ y \in Proc /\ Twin(y) = x
  BY PeerIsTwin, WholeFacts
<1>2. Rest(self[x].todo, "send") > 0
  <2>1. ~Without(self[x].todo, {"send"})
    BY HeadIn
  <2>2. /\ Rest(self[x].todo, "send") \in Nat
        /\ Rest(self[x].todo, "send") = 0 <=> Without(self[x].todo, {"send"})
    BY FlowFacts DEF Op
  <2> QED BY <2>1, <2>2
<1>3. y[1] = Other(x[1]) /\ Other(y[1]) = x[1]
  BY OtherPartner, WholeFacts DEF Twin
<1>4. Rest(conn.script[x[1]], "send") = Rest(conn.script[y[1]], "receive")
  BY <1>1, <1>3, WholeFacts
<1> HIDE DEF y
<1>5. /\ self[x].sent + Rest(self[x].todo, "send") = Rest(conn.script[x[1]], "send")
      /\ Len(self[y].received) + Rest(self[y].todo, "receive") = Rest(conn.script[y[1]], "receive")
      /\ self[x].sent = Len(self[y].received) + Len(self[y].stream)
  BY <1>1, FlowFacts DEF FlowInv
<1>6. /\ self[x].sent \in Nat /\ Len(self[y].received) \in Nat /\ Len(self[y].stream) \in Nat
      /\ Rest(self[x].todo, "send") \in Nat
      /\ self[y].closed => Rest(self[y].todo, "receive") = 0
  BY <1>1, FlowFacts DEF Op
<1>7. ASSUME self[y].closed PROVE FALSE
  <2>1. Rest(self[y].todo, "receive") = 0
    BY <1>6, <1>7
  <2>2. Rest(self[y].todo, "receive") \in Nat
    BY <2>1
  <2> DEFINE sent  == self[x].sent
             got   == Len(self[y].received)
             moves == Len(self[y].stream)
             left  == Rest(self[x].todo, "send")
  <2>3. /\ sent \in Nat /\ got \in Nat /\ moves \in Nat /\ left \in Nat /\ left > 0
        /\ sent = got + moves
    BY <1>2, <1>5, <1>6
  <2>4. sent + left = got + Rest(self[y].todo, "receive")
    BY <1>4, <1>5
  <2>5. sent + left = got + 0
    BY <2>1, <2>4
  <2> HIDE DEF sent, got, moves, left
  <2> QED BY <2>3, <2>5
<1> QED BY <1>1, <1>7

\* ... nor that of a rank that waits for a message ...
LEMMA ReceiveFits ==
    ASSUME Whole, NEW x \in Proc, At(x, "receive"), self[x].stream = << >>
    PROVE  ~self[self[x].peer].closed
<1> DEFINE y == Twin(x)
<1>1. self[x].peer = y /\ y \in Proc
  BY PeerIsTwin, WholeFacts
<1>2. Rest(self[x].todo, "receive") > 0
  <2>1. ~Without(self[x].todo, {"receive"})
    BY HeadIn
  <2>2. /\ Rest(self[x].todo, "receive") \in Nat
        /\ Rest(self[x].todo, "receive") = 0 <=> Without(self[x].todo, {"receive"})
    BY FlowFacts DEF Op
  <2> QED BY <2>1, <2>2
<1>3. y[1] = Other(x[1])
  BY DEF Twin
<1>4. Rest(conn.script[y[1]], "send") = Rest(conn.script[x[1]], "receive")
  BY <1>3, WholeFacts
<1>5. self[y].sent = Len(self[x].received) + Len(self[x].stream)
  BY FlowFacts DEF FlowInv
<1> HIDE DEF y
<1>6. /\ self[y].sent + Rest(self[y].todo, "send") = Rest(conn.script[y[1]], "send")
      /\ Len(self[x].received) + Rest(self[x].todo, "receive") = Rest(conn.script[x[1]], "receive")
  BY <1>1, FlowFacts DEF FlowInv
<1>7. /\ self[y].sent \in Nat /\ Len(self[x].received) \in Nat /\ Len(self[x].stream) = 0
      /\ Rest(self[x].todo, "receive") \in Nat
      /\ self[y].closed => Rest(self[y].todo, "send") = 0
  BY <1>1, FlowFacts DEF Op
<1>8. ASSUME self[y].closed PROVE FALSE
  <2>1. Rest(self[y].todo, "send") = 0
    BY <1>7, <1>8
  <2> DEFINE sent == self[y].sent
             got  == Len(self[x].received)
             left == Rest(self[x].todo, "receive")
  <2>2. sent \in Nat /\ got \in Nat /\ left \in Nat /\ left > 0 /\ sent = got + 0
    BY <1>2, <1>5, <1>7
  <2>3. got + left = sent + Rest(self[y].todo, "send")
    BY <1>4, <1>6
  <2>4. got + left = sent + 0
    BY <2>1, <2>3
  <2> HIDE DEF sent, got, left
  <2> QED BY <2>2, <2>4
<1> QED BY <1>1, <1>8

\* ... and a rank that closes its socket has read everything.
LEMMA CloseFits ==
    ASSUME Whole, NEW x \in Proc, At(x, "close")
    PROVE  self[x].stream = << >>
<1> DEFINE y == Twin(x)
           s == self[x].todo
<1>1. y \in Proc /\ y[1] = Other(x[1])
  BY WholeFacts DEF Twin
<1>2. s \in Seq(StepName) /\ s # << >> /\ Head(s) = "close"
  BY WholeFacts DEF At
<1>3. Rest(s, "receive") = 0
  <2>1. NotAfter(s, {"close", "leave"}, {"send", "receive"})
    BY FlowFacts DEF FlowInv
  <2> HIDE DEF s
  <2>2. Without(Tail(s), {"send", "receive"}) /\ Tail(s) \in Seq(StepName)
    BY <1>2, <2>1, NotAfterTail, TailFacts
  <2>3. Without(Tail(s), {"receive"})
    BY <2>2 DEF Without
  <2>4. Rest(Tail(s), "receive") = 0
    BY <2>2, <2>3, RestWithout
  <2> QED BY <1>2, <2>4, RestTail
<1>4. Rest(conn.script[y[1]], "send") = Rest(conn.script[x[1]], "receive")
  BY <1>1, WholeFacts
<1>5. self[y].sent = Len(self[x].received) + Len(self[x].stream)
  BY FlowFacts DEF FlowInv
<1> HIDE DEF y
<1>6. /\ self[y].sent + Rest(self[y].todo, "send") = Rest(conn.script[y[1]], "send")
      /\ Len(self[x].received) + Rest(s, "receive") = Rest(conn.script[x[1]], "receive")
  BY <1>1, FlowFacts DEF FlowInv
<1>7. /\ self[y].sent \in Nat /\ Len(self[x].received) \in Nat /\ Len(self[x].stream) \in Nat
      /\ Rest(self[y].todo, "send") \in Nat
  BY <1>1, FlowFacts DEF Op
<1>8. Len(self[x].stream) = 0
  <2> DEFINE sent  == self[y].sent
             got   == Len(self[x].received)
             moves == Len(self[x].stream)
             left  == Rest(self[y].todo, "send")
  <2>1. /\ sent \in Nat /\ got \in Nat /\ moves \in Nat /\ left \in Nat
        /\ sent = got + moves
    BY <1>5, <1>7
  <2>2. sent + left = got + Rest(s, "receive")
    BY <1>4, <1>6
  <2>3. sent + left = got + 0
    BY <1>3, <2>2
  <2>4. moves = 0
    <3> HIDE DEF sent, got, moves, left
    <3> QED BY <2>1, <2>3
  <2> QED BY <2>4
<1>9. Len(self[x].stream) = 0 <=> self[x].stream = << >>
  BY FlowFacts
<1> QED BY <1>8, <1>9

-----------------------------------------------------------------------------
(* A step of a rank of matching partners, which does not throw.             *)

\* What the step does to the messages, to acceptors and to synchronisations.
FlowEffect(x) == \A y \in Proc :
    /\ self'[y].sent = IF y = x /\ At(x, "send") THEN self[y].sent + 1 ELSE self[y].sent
    /\ Len(self'[y].received) = IF y = x /\ At(x, "receive")
                                THEN Len(self[y].received) + 1 ELSE Len(self[y].received)
    /\ Len(self'[y].stream) = IF y = Twin(x) /\ At(x, "send") THEN Len(self[y].stream) + 1
                              ELSE IF y = x /\ At(x, "receive") THEN Len(self[y].stream) - 1
                              ELSE Len(self[y].stream)

AcceptorEffect(x) ==
    /\ \A y \in Proc : y # x => self'[y].acceptor = self[y].acceptor
    /\ self'[x].acceptor = IF At(x, "listen") \/ At(x, "bind") THEN "listening"
                           ELSE IF At(x, "accept") THEN "closed" ELSE self[x].acceptor

SyncEffect(x) ==
    /\ \A p \in Partner : part'[p].synced = IF p = x[1] /\ At(x, "sync")
                                            THEN part[p].synced + 1 ELSE part[p].synced
    /\ At(x, "synced") => part[Other(x[1])].synced >= part[x[1]].synced

\* The step takes itself off the list and does what its function promises.
Smooth(x) ==
    /\ \A y \in Proc : self'[y].status = self[y].status
    /\ \/ self'[x].todo = Tail(self[x].todo)
       \/ At(x, "collect") /\ self'[x].todo = self[x].todo
    /\ At(x, "collect") /\ self'[x].todo # self[x].todo =>
          Len(part'["primary"].infos) = Size["primary"]
    /\ bound' = IF At(x, "unlink") THEN Nobody ELSE IF At(x, "bind") THEN x ELSE bound
    /\ AcceptorEffect(x) /\ SyncEffect(x) /\ FlowEffect(x)

SyncKept == \A p \in Partner : part'[p].synced = part[p].synced

\* A step that does nothing that matters here.
Plain(x) ==
    /\ OthersKept(x) /\ StreamKept(x)
    /\ self'[x].status = self[x].status /\ self'[x].acceptor = self[x].acceptor
    /\ self'[x].todo = Tail(self[x].todo)

\* A step without an effect is smooth.
LEMMA PlainSmooth ==
    ASSUME NEW x \in Proc, Plain(x), bound' = bound, SyncKept, self[x].todo # << >>,
           Head(self[x].todo) \notin {"send", "receive", "listen", "bind", "accept", "unlink",
                                      "sync", "synced", "collect"}
    PROVE  Smooth(x)
<1>1. \A c \in {"send", "receive", "listen", "bind", "accept", "unlink", "sync", "synced",
               "collect"} : ~At(x, c)
  BY DEF At
<1>2. FlowEffect(x)
  BY <1>1 DEF Plain, OthersKept, StreamKept, FlowEffect
<1>3. AcceptorEffect(x) /\ SyncEffect(x)
  BY <1>1 DEF Plain, OthersKept, AcceptorEffect, SyncEffect, SyncKept
<1>4. \A y \in Proc : self'[y].status = self[y].status
  BY DEF Plain, OthersKept
<1> QED BY <1>1, <1>2, <1>3, <1>4 DEF Smooth, Plain

\* A step that only takes itself off the list has no effect.
LEMMA AdvancePlain ==
    ASSUME Types, NEW x \in Proc, Advance(x)
    PROVE  Plain(x) /\ bound' = bound
<1>1. /\ \A y \in Proc : y # x => self'[y] = self[y]
      /\ self'[x] = [self[x] EXCEPT !.todo = Tail(@)] /\ bound' = bound
  BY DEF Types, Advance
<1> QED BY <1>1 DEF Types, RankState, OthersKept, Plain, StreamKept

\* No step of a rank of matching partners throws: each takes itself off the list
\* and has the effect it should have.
LEMMA SmoothStep ==
    ASSUME Whole, NEW x \in Proc, RankStep(x)
    PROVE  Smooth(x)
<1>1. Types /\ x[1] \in Partner
  BY WholeFacts
<1>2. \A c : At(x, c) => self[x].todo # << >> /\ Head(self[x].todo) = c
  BY DEF At
<1>3. part' = part => SyncKept
  BY DEF SyncKept
<1>4. ASSUME NEW c, At(x, c), Plain(x), bound' = bound, SyncKept,
             c \notin {"send", "receive", "listen", "bind", "accept", "unlink",
                       "sync", "synced", "collect"}
      PROVE  Smooth(x)
  BY <1>4, <1>2, PlainSmooth
<1>5. CASE Arrive(x)
  <2>1. /\ At(x, "arrive") /\ OthersKept(x) /\ bound' = bound /\ part' = part
        /\ self'[x] = [self[x] EXCEPT !.todo = Tail(@), !.arrived = @ + 1]
    BY <1>1, <1>5 DEF Arrive, Types, OthersKept
  <2>2. Plain(x)
    BY <1>1, <2>1 DEF Types, RankState, Plain, StreamKept
  <2> QED BY <1>3, <1>4, <2>1, <2>2
<1>6. CASE Depart(x)
  BY <1>1, <1>3, <1>4, <1>6, AdvancePlain DEF Depart
<1>7. CASE Sync(x)
  <2>1. At(x, "sync") /\ Plain(x) /\ bound' = bound
    BY <1>1, <1>7, AdvancePlain DEF Sync
  <2>2. \A c : At(x, c) => c = "sync"
    BY <2>1 DEF At
  <2>3. SyncEffect(x)
    BY <1>1, <1>7, <2>1, <2>2 DEF Sync, SyncEffect, Types, PartState
  <2>4. FlowEffect(x) /\ AcceptorEffect(x)
    BY <2>1, <2>2 DEF Plain, OthersKept, StreamKept, FlowEffect, AcceptorEffect
  <2> QED BY <2>1, <2>2, <2>3, <2>4 DEF Smooth, Plain, OthersKept
<1>8. CASE Synced(x)
  <2>1. At(x, "synced") /\ Plain(x) /\ bound' = bound /\ part' = part
    BY <1>1, <1>8, AdvancePlain DEF Synced
  <2>2. \A c : At(x, c) => c = "synced"
    BY <2>1 DEF At
  <2>3. SyncEffect(x)
    BY <1>8, <2>1, <2>2 DEF Synced, SyncEffect, Part
  <2>4. FlowEffect(x) /\ AcceptorEffect(x)
    BY <2>1, <2>2 DEF Plain, OthersKept, StreamKept, FlowEffect, AcceptorEffect
  <2> QED BY <2>1, <2>2, <2>3, <2>4 DEF Smooth, Plain, OthersKept
<1>9. CASE Listen(x)
  <2>1. /\ At(x, "listen") /\ OthersKept(x) /\ bound' = bound /\ part' = part
        /\ self'[x] = [self[x] EXCEPT !.todo = Tail(@), !.port = FreePort,
                                      !.acceptor = "listening"]
    BY <1>1, <1>9 DEF Listen, Types, OthersKept
  <2>2. \A c : At(x, c) => c = "listen"
    BY <2>1 DEF At
  <2>3. /\ StreamKept(x) /\ self'[x].status = self[x].status
        /\ self'[x].acceptor = "listening" /\ self'[x].todo = Tail(self[x].todo)
    BY <1>1, <2>1 DEF Types, RankState, StreamKept
  <2>4. FlowEffect(x) /\ AcceptorEffect(x) /\ SyncEffect(x)
    BY <2>1, <2>2, <2>3 DEF OthersKept, StreamKept, FlowEffect, AcceptorEffect, SyncEffect
  <2> QED BY <2>1, <2>2, <2>3, <2>4 DEF Smooth, OthersKept
<1>10. CASE Report(x)
  <2>1. /\ At(x, "report") /\ OthersKept(x) /\ bound' = bound /\ part' = part
        /\ self'[x] = [self[x] EXCEPT !.todo = Tail(@), !.letter = self[x].port]
    BY <1>1, <1>10 DEF Report, Types, OthersKept
  <2>2. Plain(x)
    BY <1>1, <2>1 DEF Types, RankState, Plain, StreamKept
  <2> QED BY <1>3, <1>4, <2>1, <2>2
<1>11. CASE Reported(x)
  BY <1>1, <1>3, <1>4, <1>11, AdvancePlain DEF Reported
<1>12. CASE Collect(x)
  <2> DEFINE infos == IF Part(x).infos = << >> THEN <<self[x].port>> ELSE Part(x).infos
  <2>1. At(x, "collect") /\ \A c : At(x, c) => c = "collect"
    BY <1>12 DEF Collect, At
  <2>2. CASE /\ Len(infos) = Size["primary"] /\ Advance(x)
             /\ part' = [part EXCEPT !["primary"].infos = infos]
    <3>1. Plain(x) /\ bound' = bound
      BY <1>1, <2>2, AdvancePlain
    <3>2. part'["primary"].infos = infos
      BY <1>1, <2>2 DEF Types, PartState, Partner
    <3>3. SyncKept
      BY <1>1, <2>2 DEF Types, PartState, SyncKept
    <3>4. FlowEffect(x) /\ AcceptorEffect(x) /\ SyncEffect(x)
      BY <2>1, <3>1, <3>3 DEF Plain, OthersKept, StreamKept, FlowEffect, AcceptorEffect,
         SyncEffect, SyncKept
    <3> QED BY <2>1, <2>2, <3>1, <3>2, <3>4 DEF Smooth, Plain, OthersKept
  <2>3. ASSUME NEW y \in Sender(Len(infos)), bound' = bound,
               part' = [part EXCEPT !["primary"].infos = Append(infos, self[y].letter)],
               self' = [self EXCEPT ![y].letter = 0]
        PROVE  Smooth(x)
    <3>1. SyncKept
      BY <1>1, <2>3 DEF Types, PartState, SyncKept
    <3>2. \A z \in Proc : /\ self'[z].status = self[z].status /\ self'[z].todo = self[z].todo
                          /\ self'[z].acceptor = self[z].acceptor /\ StreamKept(z)
      <4> TAKE z \in Proc
      <4>1. self'[z] = IF z = y THEN [self[z] EXCEPT !.letter = 0] ELSE self[z]
        BY <1>1, <2>3 DEF Types
      <4> QED BY <1>1, <4>1 DEF Types, RankState, StreamKept
    <3>3. FlowEffect(x) /\ AcceptorEffect(x) /\ SyncEffect(x)
      BY <2>1, <3>1, <3>2 DEF StreamKept, FlowEffect, AcceptorEffect, SyncEffect, SyncKept
    <3> QED BY <2>1, <2>3, <3>2, <3>3 DEF Smooth
  <2> QED BY <1>12, <2>2, <2>3 DEF Collect
<1>13. CASE OpenPort(x)
  <2>1. /\ At(x, "open_port") /\ OthersKept(x) /\ bound' = bound
        /\ self'[x] = [self[x] EXCEPT !.todo = Tail(@), !.port = FreePort]
    BY <1>1, <1>13 DEF OpenPort, Types, OthersKept
  <2>2. Plain(x)
    BY <1>1, <2>1 DEF Types, RankState, Plain, StreamKept
  <2>3. SyncKept
    BY <1>1, <1>13 DEF OpenPort, Types, PartState, SyncKept
  <2> QED BY <1>4, <2>1, <2>2, <2>3
<1>14. CASE GetPort(x)
  <2>1. /\ At(x, "get_port") /\ OthersKept(x) /\ bound' = bound /\ part' = part
        /\ self'[x] = [self[x] EXCEPT !.todo = Tail(@), !.port = Part(x).portName]
    BY <1>1, <1>14 DEF GetPort, Types, OthersKept
  <2>2. Plain(x)
    BY <1>1, <2>1 DEF Types, RankState, Plain, StreamKept
  <2> QED BY <1>3, <1>4, <2>1, <2>2
<1>15. CASE Offer(x)
  <2>1. SyncKept
    BY <1>1, <1>15 DEF Offer, Types, PartState, SyncKept
  <2> QED BY <1>1, <1>4, <1>15, <2>1, AdvancePlain DEF Offer
<1>16. CASE Judge(x)
  <2> DEFINE info == part[Other(x[1])].offer
  <2>1. /\ At(x, "judge") /\ OthersKept(x) /\ bound' = bound /\ part' = part
        /\ self'[x] = [self[x] EXCEPT !.todo = Tail(@), !.info = info]
    BY <1>1, <1>16, JudgeFits DEF Judge, Types, OthersKept
  <2>2. Plain(x)
    BY <1>1, <2>1 DEF Types, RankState, Plain, StreamKept
  <2> QED BY <1>3, <1>4, <2>1, <2>2
<1>17. CASE Broadcast(x)
  <2>1. SyncKept
    BY <1>1, <1>17 DEF Broadcast, Types, PartState, SyncKept
  <2> QED BY <1>1, <1>4, <1>17, <2>1, AdvancePlain DEF Broadcast
<1>18. CASE GetInfo(x)
  <2>1. /\ At(x, "get_info") /\ OthersKept(x) /\ bound' = bound /\ part' = part
        /\ self'[x] = [self[x] EXCEPT !.todo = Tail(@), !.info = Part(x).cast]
    BY <1>1, <1>18 DEF GetInfo, Types, OthersKept
  <2>2. Plain(x)
    BY <1>1, <2>1 DEF Types, RankState, Plain, StreamKept
  <2> QED BY <1>3, <1>4, <2>1, <2>2
<1>19. CASE LookUp(x)
  <2>1. At(x, "look_up") /\ Len(self[x].info.ports) = Size[x[1]]
    BY <1>19, LookUpFits DEF LookUp
  <2>2. /\ OthersKept(x) /\ bound' = bound /\ part' = part
        /\ self'[x] = [self[x] EXCEPT !.todo = Tail(@),
                                      !.port = self[x].info.ports[Entry(x)]]
    BY <1>1, <1>19, <2>1 DEF LookUp, Types, OthersKept
  <2>3. Plain(x)
    BY <1>1, <2>2 DEF Types, RankState, Plain, StreamKept
  <2> QED BY <1>3, <1>4, <2>1, <2>2, <2>3
<1>20. CASE Unlink(x)
  <2>1. /\ At(x, "unlink") /\ OthersKept(x) /\ bound' = Nobody /\ part' = part
        /\ self'[x] = [self[x] EXCEPT !.todo = Tail(@)]
    BY <1>1, <1>20 DEF Unlink, Types, OthersKept
  <2>2. Plain(x)
    BY <1>1, <2>1 DEF Types, RankState, Plain, StreamKept
  <2>3. \A c : At(x, c) => c = "unlink"
    BY <2>1 DEF At
  <2>4. FlowEffect(x) /\ AcceptorEffect(x) /\ SyncEffect(x)
    BY <2>1, <2>2, <2>3 DEF Plain, OthersKept, StreamKept, FlowEffect, AcceptorEffect, SyncEffect
  <2> QED BY <2>1, <2>2, <2>3, <2>4 DEF Smooth, Plain, OthersKept
<1>21. CASE Bind(x)
  <2>1. At(x, "bind") /\ bound = Nobody
    BY <1>21, BindFits DEF Bind
  <2>2. /\ OthersKept(x) /\ bound' = x /\ part' = part
        /\ self'[x] = [self[x] EXCEPT !.todo = Tail(@), !.acceptor = "listening"]
    BY <1>1, <1>21, <2>1 DEF Bind, Types, OthersKept
  <2>3. \A c : At(x, c) => c = "bind"
    BY <2>1 DEF At
  <2>4. /\ StreamKept(x) /\ self'[x].status = self[x].status
        /\ self'[x].acceptor = "listening" /\ self'[x].todo = Tail(self[x].todo)
    BY <1>1, <2>2 DEF Types, RankState, StreamKept
  <2>5. FlowEffect(x) /\ AcceptorEffect(x) /\ SyncEffect(x)
    BY <2>1, <2>2, <2>3, <2>4 DEF OthersKept, StreamKept, FlowEffect, AcceptorEffect, SyncEffect
  <2> QED BY <2>1, <2>2, <2>3, <2>4, <2>5 DEF Smooth, OthersKept
<1>22. CASE ConnectSocket(x)
  <2>1. At(x, "connect") /\ Server(x) # {} /\ part' = part
    BY <1>22, ServerListens DEF ConnectSocket
  <2>2. PICK y \in Server(x) :
           /\ self' = [self EXCEPT ![x].todo = Tail(@), ![x].peer = y, ![y].backlog = Append(@, x)]
           /\ bound' = bound
    BY <1>22, <2>1 DEF ConnectSocket
  <2>3. y \in Proc /\ y # x
    BY <2>1, ServerIsTwin, WholeFacts DEF Whole
  <2>31. self'[x] = [self[x] EXCEPT !.todo = Tail(@), !.peer = y]
    BY <1>1, <2>2, <2>3 DEF Types, RankState
  <2>32. self'[y] = [self[y] EXCEPT !.backlog = Append(@, x)]
    BY <1>1, <2>2, <2>3 DEF Types, RankState
  <2>33. \A z \in Proc : z # x /\ z # y => self'[z] = self[z]
    BY <1>1, <2>2, <2>3 DEF Types
  <2>34. /\ self'[x].status = self[x].status
         /\ self'[x].acceptor = self[x].acceptor /\ StreamKept(x)
    BY <1>1, <2>31 DEF Types, RankState, StreamKept
  <2>35. /\ self'[y].status = self[y].status
         /\ self'[y].acceptor = self[y].acceptor /\ StreamKept(y)
    BY <1>1, <2>3, <2>32 DEF Types, RankState, StreamKept
  <2>4. \A z \in Proc : /\ self'[z].status = self[z].status
                        /\ self'[z].acceptor = self[z].acceptor /\ StreamKept(z)
    BY <2>33, <2>34, <2>35 DEF StreamKept
  <2>5. self'[x].todo = Tail(self[x].todo)
    BY <1>1, <2>31 DEF Types, RankState
  <2>6. \A c : At(x, c) => c = "connect"
    BY <2>1 DEF At
  <2>7. FlowEffect(x) /\ AcceptorEffect(x) /\ SyncEffect(x)
    BY <2>1, <2>4, <2>6 DEF StreamKept, FlowEffect, AcceptorEffect, SyncEffect
  <2> QED BY <2>2, <2>4, <2>5, <2>6, <2>7 DEF Smooth
<1>23. CASE Accept(x)
  <2>1. /\ At(x, "accept") /\ OthersKept(x) /\ bound' = bound /\ part' = part
        /\ self'[x] = [self[x] EXCEPT !.todo = Tail(@), !.acceptor = "closed",
                                      !.peer = Head(self[x].backlog)]
    BY <1>1, <1>23 DEF Accept, Types, OthersKept
  <2>2. \A c : At(x, c) => c = "accept"
    BY <2>1 DEF At
  <2>3. /\ StreamKept(x) /\ self'[x].status = self[x].status
        /\ self'[x].acceptor = "closed" /\ self'[x].todo = Tail(self[x].todo)
    BY <1>1, <2>1 DEF Types, RankState, StreamKept
  <2>4. FlowEffect(x) /\ AcceptorEffect(x) /\ SyncEffect(x)
    BY <2>1, <2>2, <2>3 DEF OthersKept, StreamKept, FlowEffect, AcceptorEffect, SyncEffect
  <2> QED BY <2>1, <2>2, <2>3, <2>4 DEF Smooth, OthersKept
<1>24. CASE Join(x)
  <2>1. /\ At(x, "join") /\ OthersKept(x) /\ bound' = bound /\ part' = part
        /\ self'[x] = [self[x] EXCEPT !.todo = Tail(@), !.joined = TRUE,
               !.port = IF x[1] = "primary" THEN @ ELSE self[x].info.ports[1]]
    BY <1>1, <1>24 DEF Join, Types, OthersKept
  <2>2. Plain(x)
    BY <1>1, <2>1 DEF Types, RankState, Plain, StreamKept
  <2> QED BY <1>3, <1>4, <2>1, <2>2
<1>25. CASE Joined(x)
  <2>1. /\ At(x, "joined") /\ OthersKept(x) /\ bound' = bound /\ part' = part
        /\ self'[x] = [self[x] EXCEPT !.todo = Tail(@), !.peer = Twin(x)]
    BY <1>1, <1>25 DEF Joined, Types, OthersKept
  <2>2. Plain(x)
    BY <1>1, <2>1 DEF Types, RankState, Plain, StreamKept
  <2> QED BY <1>3, <1>4, <2>1, <2>2
<1>26. CASE Leave(x)
  <2>1. /\ At(x, "leave") /\ OthersKept(x) /\ bound' = bound /\ part' = part
        /\ self'[x] = [self[x] EXCEPT !.todo = Tail(@), !.closed = TRUE]
    BY <1>1, <1>26 DEF Leave, Types, OthersKept
  <2>2. Plain(x)
    BY <1>1, <2>1 DEF Types, RankState, Plain, StreamKept
  <2> QED BY <1>3, <1>4, <2>1, <2>2
<1>27. CASE Left(x)
  BY <1>1, <1>3, <1>4, <1>27, AdvancePlain DEF Left
<1>28. CASE Send(x)
  <2> DEFINE y == Twin(x)
             m == <<x, self[x].sent + 1>>
  <2>1. /\ At(x, "send") /\ self[x].peer = y /\ ~self[y].closed /\ y \in Proc /\ y # x
        /\ part' = part
    BY <1>28, SendFits, PeerIsTwin, WholeFacts DEF Send
  <2>2. \A c : At(x, c) => c = "send"
    BY <2>1 DEF At
  <2>3. /\ self' = [self EXCEPT ![x].todo = Tail(@), ![x].sent = @ + 1,
                                ![y].stream = Append(@, m)]
        /\ bound' = bound
    BY <1>28, <2>1 DEF Send
  <2>4. self[y].stream \in Seq(Proc \X Nat) /\ m \in Proc \X Nat
    <3>1. self[y].stream \in Seq(Proc \X Nat) /\ self[x].sent + 1 \in Nat
      BY <2>1, FlowFacts
    <3> QED BY <3>1
  <2> HIDE DEF m
  <2>5. self'[x] = [self[x] EXCEPT !.todo = Tail(@), !.sent = @ + 1]
    BY <1>1, <2>1, <2>3 DEF Types, RankState
  <2>6. self'[y] = [self[y] EXCEPT !.stream = Append(@, m)]
    BY <1>1, <2>1, <2>3 DEF Types, RankState
  <2>7. \A z \in Proc : z # x /\ z # y => self'[z] = self[z]
    BY <1>1, <2>1, <2>3 DEF Types
  <2> HIDE DEF y
  <2>8. /\ self'[x].todo = Tail(self[x].todo) /\ self'[x].sent = self[x].sent + 1
        /\ self'[x].received = self[x].received /\ self'[x].stream = self[x].stream
        /\ self'[x].status = self[x].status /\ self'[x].acceptor = self[x].acceptor
    BY <1>1, <2>5 DEF Types, RankState
  <2>9. /\ self'[y].sent = self[y].sent /\ self'[y].received = self[y].received
        /\ self'[y].status = self[y].status /\ self'[y].acceptor = self[y].acceptor
        /\ Len(self'[y].stream) = Len(self[y].stream) + 1
    BY <1>1, <2>1, <2>4, <2>6 DEF Types, RankState
  <2>10. FlowEffect(x)
    <3>1. ~At(x, "receive") /\ y = Twin(x)
      BY <2>2 DEF y
    <3> SUFFICES ASSUME NEW z \in Proc
        PROVE /\ self'[z].sent = IF z = x THEN self[z].sent + 1 ELSE self[z].sent
              /\ self'[z].received = self[z].received
              /\ Len(self'[z].stream) = IF z = y THEN Len(self[z].stream) + 1
                                        ELSE Len(self[z].stream)
      BY <2>1, <3>1 DEF FlowEffect
    <3> QED BY <2>1, <2>7, <2>8, <2>9
  <2>11. AcceptorEffect(x)
    BY <2>2, <2>7, <2>8, <2>9 DEF AcceptorEffect
  <2>12. SyncEffect(x)
    BY <2>1, <2>2 DEF SyncEffect
  <2> QED BY <2>2, <2>3, <2>7, <2>8, <2>9, <2>10, <2>11, <2>12 DEF Smooth
<1>29. CASE Receive(x)
  <2>1. /\ At(x, "receive") /\ part' = part /\ self[x].stream # << >>
    BY <1>29, ReceiveFits DEF Receive
  <2>2. \A c : At(x, c) => c = "receive"
    BY <2>1 DEF At
  <2>3. /\ self' = [self EXCEPT ![x].todo = Tail(@), ![x].stream = Tail(@),
                                ![x].received = Append(@, Head(self[x].stream))]
        /\ bound' = bound
    BY <1>29, <2>1 DEF Receive
  <2>4. /\ OthersKept(x) /\ self'[x].todo = Tail(self[x].todo)
        /\ self'[x].status = self[x].status /\ self'[x].acceptor = self[x].acceptor
        /\ self'[x].sent = self[x].sent /\ self'[x].stream = Tail(self[x].stream)
        /\ self'[x].received = Append(self[x].received, Head(self[x].stream))
    <3>1. /\ OthersKept(x)
          /\ self'[x] = [self[x] EXCEPT !.todo = Tail(@), !.stream = Tail(@),
                                        !.received = Append(@, Head(self[x].stream))]
      BY <1>1, <2>3 DEF Types, OthersKept
    <3> QED BY <1>1, <3>1 DEF Types, RankState
  <2>5. self[x].stream \in Seq(Proc \X Nat) /\ self[x].received \in Seq(Proc \X Nat)
    BY FlowFacts
  <2>6. /\ Len(self'[x].stream) = Len(self[x].stream) - 1
        /\ Len(self'[x].received) = Len(self[x].received) + 1
    BY <2>1, <2>4, <2>5
  <2>7. FlowEffect(x)
    BY <2>1, <2>2, <2>4, <2>6 DEF FlowEffect, OthersKept
  <2>8. AcceptorEffect(x) /\ SyncEffect(x)
    BY <2>1, <2>2, <2>4 DEF AcceptorEffect, SyncEffect, OthersKept
  <2> QED BY <2>2, <2>3, <2>4, <2>7, <2>8 DEF Smooth, OthersKept
<1>30. CASE Close(x)
  <2>1. At(x, "close") /\ self[x].stream = << >> /\ part' = part /\ bound' = bound
    BY <1>30, CloseFits DEF Close
  <2>2. \A c : At(x, c) => c = "close"
    BY <2>1 DEF At
  <2> DEFINE y == Twin(x)
  <2>3. /\ self[x].peer = y /\ y \in Proc /\ y # x
        /\ self' = [self EXCEPT ![x].todo = Tail(@), ![x].closed = TRUE, ![y].stream = @]
    BY <1>30, <2>1, PeerIsTwin, WholeFacts DEF Close
  <2> HIDE DEF y
  <2>31. /\ self'[x] = [self[x] EXCEPT !.todo = Tail(@), !.closed = TRUE]
         /\ self'[y] = [self[y] EXCEPT !.stream = @]
         /\ \A z \in Proc : z # x /\ z # y => self'[z] = self[z]
    BY <1>1, <2>3 DEF Types
  <2>32. self'[y] = self[y]
    BY <1>1, <2>3, <2>31 DEF Types, RankState
  <2>5. /\ self'[x].todo = Tail(self[x].todo) /\ self'[x].status = self[x].status
        /\ self'[x].acceptor = self[x].acceptor /\ StreamKept(x)
    BY <1>1, <2>31 DEF Types, RankState, StreamKept
  <2>4. \A z \in Proc : /\ self'[z].status = self[z].status
                        /\ self'[z].acceptor = self[z].acceptor /\ StreamKept(z)
    BY <2>5, <2>31, <2>32 DEF StreamKept
  <2>6. FlowEffect(x) /\ AcceptorEffect(x) /\ SyncEffect(x)
    BY <2>1, <2>2, <2>4 DEF StreamKept, FlowEffect, AcceptorEffect, SyncEffect
  <2> QED BY <2>1, <2>2, <2>4, <2>5, <2>6 DEF Smooth
<1> QED BY <1>5, <1>6, <1>7, <1>8, <1>9, <1>10, <1>11, <1>12, <1>13, <1>14, <1>15, <1>16,
           <1>17, <1>18, <1>19, <1>20, <1>21, <1>22, <1>23, <1>24, <1>25, <1>26, <1>27,
           <1>28, <1>29, <1>30 DEF RankStep

-----------------------------------------------------------------------------
(* The invariant of matching partners.                                      *)

\* A list without a step, but for the step that is taken off.
LEMMA WithoutHead ==
    ASSUME NEW S, NEW s \in Seq(S), s # << >>, NEW K, Without(Tail(s), K), Head(s) \notin K
    PROVE  Without(s, K)
<1> SUFFICES ASSUME NEW i \in 1..Len(s) PROVE s[i] \notin K
  BY DEF Without
<1>1. CASE i = 1
  BY <1>1, TailFacts
<1>2. CASE i # 1
  <2>1. i - 1 \in 1..Len(Tail(s)) /\ (i - 1) + 1 = i
    BY <1>2, TailFacts
  <2>2. Tail(s)[i - 1] = s[i]
    BY <2>1, TailFacts
  <2> QED BY <2>1, <2>2 DEF Without
<1> QED BY <1>1, <1>2

\* What a rank gets by a step.
Gains(x) ==
    /\ At(x, "accept") => /\ self[x].backlog # << >>
                          /\ self'[x].peer = Head(self[x].backlog)
    /\ At(x, "judge") \/ At(x, "get_info") => self'[x].info # NoInfo
    /\ At(x, "look_up") => self'[x].port = self[x].info.ports[Entry(x)]

\* A rank gets what it has waited for.
LEMMA StepGains ==
    ASSUME Whole, NEW x \in Proc, RankStep(x)
    PROVE  Gains(x)
<1>1. Types
  BY WholeFacts
<1>2. /\ At(x, "accept") => Accept(x)
      /\ At(x, "judge") => Judge(x)
      /\ At(x, "get_info") => GetInfo(x)
      /\ At(x, "look_up") => LookUp(x)
  BY DEF RankStep, At, Arrive, Depart, Sync, Synced, Listen, Report, Reported, Collect,
     OpenPort, GetPort, Offer, Judge, Broadcast, GetInfo, LookUp, Unlink, Bind, ConnectSocket,
     Accept, Join, Joined, Send, Receive, Close, Leave, Left
<1>3. ASSUME At(x, "accept")
      PROVE  self[x].backlog # << >> /\ self'[x].peer = Head(self[x].backlog)
  BY <1>1, <1>2, <1>3 DEF Accept, Types, RankState
<1>4. ASSUME At(x, "judge") PROVE self'[x].info # NoInfo
  <2>1. Judge(x) /\ Compatible(x[1], part[Other(x[1])].offer)
    BY <1>2, <1>4, JudgeFits DEF Judge
  <2> QED BY <1>1, <2>1 DEF Judge, Types, RankState
<1>5. ASSUME At(x, "get_info") PROVE self'[x].info # NoInfo
  BY <1>1, <1>2, <1>5 DEF GetInfo, Types, RankState
<1>6. ASSUME At(x, "look_up") PROVE self'[x].port = self[x].info.ports[Entry(x)]
  BY <1>1, <1>2, <1>6, LookUpFits DEF LookUp, Types, RankState
<1> QED BY <1>3, <1>4, <1>5, <1>6 DEF Gains

\* A step that rank x of matching partners takes.
Going(x) == Whole /\ conn' = conn /\ Effects(x) /\ Smooth(x) /\ Gains(x)

\* What a step does to the lists of the ranks.
LEMMA GoingTodo ==
    ASSUME NEW x \in Proc, Going(x), NEW y \in Proc
    PROVE  LET s == self[y].todo
               r == self'[y].todo
           IN  /\ s \in Seq(StepName)
               /\ \/ r = s /\ (y # x \/ At(x, "collect"))
                  \/ y = x /\ s # << >> /\ r = Tail(s)
               /\ \A K : Without(s, K) => Without(r, K)
               /\ \A F, B : NotAfter(s, F, B) => NotAfter(r, F, B)
               /\ \A K : Without(r, K) /\ ~Without(s, K) =>
                     y = x /\ r = Tail(s) /\ r # s /\ s # << >> /\ Head(s) \in K
               /\ \A c : y = x /\ At(x, c) /\ c # "collect" => r = Tail(s) /\ s # << >> /\ Head(s) = c
<1> DEFINE s == self[y].todo
           r == self'[y].todo
<1>1. s \in Seq(StepName)
  BY WholeFacts DEF Going
<1>2. \/ r = s /\ (y # x \/ At(x, "collect"))
      \/ y = x /\ s # << >> /\ r = Tail(s)
  BY DEF Going, Effects, SelfEffects, TodoEffect, Smooth
<1>3. \A c : y = x /\ At(x, c) /\ c # "collect" => r = Tail(s) /\ s # << >> /\ Head(s) = c
  BY <1>2 DEF At
<1> HIDE DEF s, r
<1>4. ASSUME NEW K, Without(s, K) PROVE Without(r, K)
  <2>1. CASE r = s
    BY <1>4, <2>1
  <2>2. CASE s # << >> /\ r = Tail(s)
    BY <1>1, <1>4, <2>2, WithoutTail
  <2> QED BY <1>2, <2>1, <2>2
<1>5. \A F, B : NotAfter(s, F, B) => NotAfter(r, F, B)
  BY <1>1, <1>2, NotAfterTail
<1>6. ASSUME NEW K, Without(r, K), ~Without(s, K)
      PROVE  y = x /\ r = Tail(s) /\ r # s /\ s # << >> /\ Head(s) \in K
  BY <1>1, <1>2, <1>6, WithoutHead
<1> QED BY <1>1, <1>2, <1>3, <1>4, <1>5, <1>6 DEF s, r

\* A step keeps the account of the messages.
LEMMA FlowStep ==
    ASSUME NEW x \in Proc, Going(x), NEW y \in Proc
    PROVE  FlowInv(y)'
<1> DEFINE s == self[y].todo
           r == self'[y].todo
           z == Twin(y)
<1>1. /\ s \in Seq(StepName)
      /\ \/ r = s /\ (y # x \/ At(x, "collect"))
         \/ y = x /\ s # << >> /\ r = Tail(s)
      /\ \A K : Without(s, K) => Without(r, K)
      /\ \A F, B : NotAfter(s, F, B) => NotAfter(r, F, B)
      /\ \A c : y = x /\ At(x, c) /\ c # "collect" =>
            r = Tail(s) /\ s # << >> /\ Head(s) = c
  BY GoingTodo
<1>2. /\ Whole /\ conn' = conn /\ FlowEffect(x) /\ CloseEffect(x) /\ FlowInv(y)
      /\ self'[y].status = self[y].status
  BY FlowFacts DEF Going, Effects, SelfEffects, Smooth
<1>3. z \in Proc /\ z # y /\ Twin(z) = y /\ Twin(x) \in Proc /\ Twin(Twin(x)) = x /\ Twin(x) # x
  BY <1>2, WholeFacts
<1>4. \A c : At(x, c) => c = Head(self[x].todo)
  BY DEF At
<1>5. NotAfter(r, {"close", "leave"}, {"send", "receive"})
  BY <1>1, <1>2 DEF FlowInv
<1>6. self'[y].closed => Without(r, {"send", "receive"})
  <2>1. CASE self'[y].closed = self[y].closed
    BY <1>1, <1>2, <2>1 DEF FlowInv
  <2>2. CASE y = x /\ (At(x, "close") \/ At(x, "leave"))
    <3>1. r = Tail(s) /\ s # << >> /\ Head(s) \in {"close", "leave"}
      BY <1>1, <2>2
    <3>2. NotAfter(s, {"close", "leave"}, {"send", "receive"})
      BY <1>2 DEF FlowInv
    <3> HIDE DEF s, r
    <3> QED BY <1>1, <3>1, <3>2, NotAfterTail
  <2> QED BY <1>2, <2>1, <2>2 DEF CloseEffect
<1>7. \A c \in Op : /\ Rest(s, c) \in Nat /\ Rest(r, c) \in Nat
                    /\ Rest(s, c) = Rest(r, c) + (IF y = x /\ At(x, c) THEN 1 ELSE 0)
  <2> SUFFICES ASSUME NEW c \in Op
               PROVE  /\ Rest(s, c) \in Nat /\ Rest(r, c) \in Nat
                      /\ Rest(s, c) = Rest(r, c) + (IF y = x /\ At(x, c) THEN 1 ELSE 0)
    OBVIOUS
  <2>1. c # "collect"
    BY DEF Op
  <2>2. y = x /\ s # << >> => (At(x, c) <=> Head(s) = c)
    BY DEF At
  <2>3. ASSUME r = s, y # x \/ At(x, "collect") PROVE ~(y = x /\ At(x, c))
    BY <1>4, <2>1, <2>3
  <2> HIDE DEF s, r
  <2>4. Rest(s, c) \in Nat
    BY <1>1, RestType
  <2>5. CASE r = s /\ (y # x \/ At(x, "collect"))
    BY <2>3, <2>4, <2>5
  <2>6. CASE y = x /\ s # << >> /\ r = Tail(s)
    <3>1. r \in Seq(StepName)
      BY <1>1, <2>6, TailFacts
    <3>2. Rest(r, c) \in Nat
      BY <3>1, RestType
    <3>3. Rest(s, c) = Rest(r, c) + (IF Head(s) = c THEN 1 ELSE 0)
      BY <1>1, <2>6, RestTail
    <3> QED BY <2>2, <2>4, <2>6, <3>2, <3>3
  <2> QED BY <1>1, <2>5, <2>6
<1>8. /\ self[y].sent \in Nat /\ Len(self[y].received) \in Nat /\ Len(self[y].stream) \in Nat
      /\ self[z].sent \in Nat
      /\ self[y].sent + Rest(s, "send") = Rest(conn.script[y[1]], "send")
      /\ Len(self[y].received) + Rest(s, "receive") = Rest(conn.script[y[1]], "receive")
      /\ self[z].sent = Len(self[y].received) + Len(self[y].stream)
  BY <1>2, <1>3, FlowFacts DEF FlowInv
<1>9. self'[y].sent + Rest(r, "send") = Rest(conn.script[y[1]], "send")
  <2> DEFINE a == Rest(s, "send")
             b == Rest(r, "send")
  <2>1. self'[y].sent = IF y = x /\ At(x, "send") THEN self[y].sent + 1 ELSE self[y].sent
    BY <1>2 DEF FlowEffect
  <2>2. a \in Nat /\ b \in Nat /\ a = b + (IF y = x /\ At(x, "send") THEN 1 ELSE 0)
    BY <1>7 DEF Op
  <2>3. self[y].sent + a = Rest(conn.script[y[1]], "send")
    BY <1>8
  <2> HIDE DEF a, b
  <2>4. self'[y].sent + b = self[y].sent + a
    BY <1>8, <2>1, <2>2
  <2> QED BY <2>3, <2>4 DEF b
<1>10. Len(self'[y].received) + Rest(r, "receive") = Rest(conn.script[y[1]], "receive")
  <2> DEFINE a == Rest(s, "receive")
             b == Rest(r, "receive")
             m == Len(self[y].received)
             n == Len(self'[y].received)
  <2>1. n = IF y = x /\ At(x, "receive") THEN m + 1 ELSE m
    BY <1>2 DEF FlowEffect
  <2>2. a \in Nat /\ b \in Nat /\ a = b + (IF y = x /\ At(x, "receive") THEN 1 ELSE 0)
    BY <1>7 DEF Op
  <2>3. m \in Nat /\ m + a = Rest(conn.script[y[1]], "receive")
    BY <1>8
  <2> HIDE DEF a, b, m, n
  <2>4. n + b = m + a
    BY <2>1, <2>2, <2>3
  <2> QED BY <2>3, <2>4 DEF b, n
<1>11. self'[z].sent = Len(self'[y].received) + Len(self'[y].stream)
  <2> DEFINE m == Len(self[y].received)
             n == Len(self'[y].received)
             k == Len(self[y].stream)
             l == Len(self'[y].stream)
  <2>1. self'[z].sent = IF z = x /\ At(x, "send") THEN self[z].sent + 1 ELSE self[z].sent
    BY <1>2, <1>3 DEF FlowEffect
  <2>2. n = IF y = x /\ At(x, "receive") THEN m + 1 ELSE m
    BY <1>2 DEF FlowEffect
  <2>3. l = IF y = Twin(x) /\ At(x, "send") THEN k + 1
            ELSE IF y = x /\ At(x, "receive") THEN k - 1 ELSE k
    BY <1>2 DEF FlowEffect
  <2>4. z = x <=> y = Twin(x)
    BY <1>3
  <2>5. y = Twin(x) => y # x
    BY <1>3
  <2>6. m \in Nat /\ k \in Nat /\ self[z].sent \in Nat /\ self[z].sent = m + k
    BY <1>8
  <2> HIDE DEF m, n, k, l, z
  <2>7. self'[z].sent = n + l
    BY <2>1, <2>2, <2>3, <2>4, <2>5, <2>6
  <2> QED BY <2>7 DEF n, l
<1>12. Twin(y)' = z
  BY DEF Twin
<1> QED BY <1>2, <1>5, <1>6, <1>9, <1>10, <1>11, <1>12 DEF FlowInv

\* A step keeps what is known of acceptors and those that connect to them.
LEMMA KnockStep ==
    ASSUME NEW x \in Proc, Going(x), NEW y \in Proc
    PROVE  KnockInv(y)'
<1> DEFINE s == self[y].todo
           r == self'[y].todo
           z == Twin(y)
<1>1. /\ \A K : Without(s, K) => Without(r, K)
      /\ \A F, B : NotAfter(s, F, B) => NotAfter(r, F, B)
  BY GoingTodo
<1>2. /\ Whole /\ conn' = conn /\ Effects(x) /\ PeerEffect(x) /\ SocketEffect(x)
      /\ AcceptorEffect(x) /\ Gains(x) /\ KnockInv(y) /\ KnockInv(x) /\ MeetInv /\ RankInv
      /\ conn \in Instances
  BY DEF Going, Effects, SelfEffects, Smooth, Whole, FitInv, RankInv, RanksTypeOK
<1>3. Format' = Format /\ Twin(y)' = z /\ Nobody' = Nobody
  BY <1>2, SameConn DEF Twin, Nobody
<1>4. z \in Proc /\ Twin(z) = y /\ y # Nobody /\ z # Nobody
  BY <1>2, WholeFacts, ProcFacts
<1>5. NotAfter(r, {"connect"}, {"connect"})
  BY <1>1, <1>2 DEF KnockInv
<1>6. Format # "local_socket" \/ y[1] = "secondary" => Without(r, {"bind", "unlink"})
  BY <1>1, <1>2 DEF KnockInv
<1>7. y[2] # 0 => Without(r, {"offer"})
  BY <1>1, <1>2 DEF KnockInv
<1>8. ASSUME NEW v \in Proc PROVE v # Nobody
  BY <1>2, ProcFacts
<1>9. At(x, "accept") => self[x].backlog # << >> /\ self'[x].peer \in Proc
  <2>1. self[x].backlog \in Seq(Proc)
    BY <1>2, WholeFacts DEF Types, RankState
  <2>2. self[x].backlog # << >> => Head(self[x].backlog) \in Proc
    BY <2>1
  <2> QED BY <1>2, <2>2 DEF Gains
<1>10. self[y].peer # Nobody => self'[y].peer # Nobody
  <2> SUFFICES ASSUME self[y].peer # Nobody, self'[y].peer # self[y].peer
               PROVE  self'[y].peer # Nobody
    OBVIOUS
  <2>1. y = x
    BY <1>2 DEF PeerEffect
  <2>2. CASE At(x, "accept")
    BY <1>8, <1>9, <2>1, <2>2
  <2>3. CASE At(x, "connect") /\ self'[x].peer \in Server(x)
    BY <1>8, <2>1, <2>3 DEF Server, Ranks
  <2>4. CASE At(x, "joined") /\ self'[x].peer = Twin(x)
    BY <1>4, <2>1, <2>4
  <2> QED BY <1>2, <2>1, <2>2, <2>3, <2>4 DEF PeerEffect
<1>11. self'[y].acceptor = "closed" => self'[y].peer # Nobody
  <2> SUFFICES ASSUME self'[y].acceptor = "closed" PROVE self'[y].peer # Nobody
    OBVIOUS
  <2>1. CASE self'[y].acceptor = self[y].acceptor
    BY <1>2, <1>10, <2>1 DEF KnockInv
  <2>2. CASE self'[y].acceptor # self[y].acceptor
    <3>1. y = x /\ At(x, "accept")
      BY <1>2, <2>2 DEF AcceptorEffect
    <3> QED BY <1>8, <1>9, <3>1
  <2> QED BY <2>1, <2>2
<1>12. ASSUME y[1] = "primary", self'[y].peer # Nobody \/ self'[y].backlog # << >>
       PROVE  Without(self'[z].todo, {"connect"})
  <2>1. \A K : Without(self[z].todo, K) => Without(self'[z].todo, K)
    BY <1>4, GoingTodo
  <2>2. CASE self[y].peer # Nobody \/ self[y].backlog # << >>
    BY <1>2, <1>12, <2>1, <2>2 DEF KnockInv
  <2>3. CASE /\ self[y].peer = Nobody /\ self[y].backlog = << >>
             /\ self'[y].peer = Nobody
    <3>1. At(x, "connect") /\ y \in Server(x)
      BY <1>2, <1>12, <2>3 DEF SocketEffect
    <3>2. y = Twin(x) /\ x = z
      BY <1>2, <3>1, ServerIsTwin, WholeFacts DEF Whole
    <3>3. /\ self'[x].todo = Tail(self[x].todo) /\ self[x].todo # << >>
          /\ Head(self[x].todo) = "connect" /\ self[x].todo \in Seq(StepName)
      BY <3>1, GoingTodo
    <3>4. NotAfter(self[x].todo, {"connect"}, {"connect"})
      BY <1>2 DEF KnockInv
    <3>5. Without(Tail(self[x].todo), {"connect"})
      BY <3>3, <3>4, NotAfterTail
    <3> QED BY <3>2, <3>3, <3>5
  <2>4. CASE /\ self[y].peer = Nobody /\ self[y].backlog = << >>
             /\ self'[y].peer # Nobody
    <3>1. y = x
      BY <1>2, <2>4 DEF PeerEffect
    <3>2. ~At(x, "accept") /\ ~At(x, "connect")
      BY <1>2, <1>9, <1>12, <2>4, <3>1, HasPeerHolds DEF HasPeer
    <3>3. At(x, "joined")
      BY <1>2, <2>4, <3>1, <3>2 DEF PeerEffect
    <3>4. Format = "mpi_inter"
      BY <1>2, <3>3, WholeFacts, HeadFacts DEF At, Foreign
    <3>5. Without(self[z].todo, Foreign(z)) /\ "connect" \in Foreign(z)
      BY <1>2, <1>4, <3>4 DEF RankInv, ListInv, Foreign
    <3>6. Without(self[z].todo, {"connect"})
      BY <3>5 DEF Without
    <3> QED BY <2>1, <3>6
  <2> QED BY <2>2, <2>3, <2>4
<1> QED BY <1>3, <1>5, <1>6, <1>7, <1>11, <1>12 DEF KnockInv

-----------------------------------------------------------------------------
(* Ports.                                                                   *)

\* Only rank 0 of the primary collects.
LEMMA Collector ==
    ASSUME RankInv, NEW x \in Proc, At(x, "collect")
    PROVE  x = <<"primary", 0>>
<1>1. x[1] \in Partner /\ x = <<x[1], x[2]>>
  BY ProcFacts DEF RankInv, RanksTypeOK
<1>2. Head(self[x].todo) = "collect" /\ "collect" \notin Foreign(x)
  BY HeadFacts DEF At
<1>3. x[1] = "primary" /\ x[2] = 0
  BY <1>1, <1>2 DEF Foreign, Partner
<1> QED BY <1>1, <1>3

\* A step of any rank keeps what rank 0 of the primary has collected ...
LEMMA CollectStep ==
    ASSUME NEW x \in Proc, Going(x), Format = "socket", NEW y \in Proc
    PROVE  CollectInv(y)'
<1> SUFFICES ASSUME y[1] = "primary", y[2] = 0
             PROVE  /\ NotAfter(self'[y].todo, {"offer"}, {"collect"})
                    /\ Without(self'[y].todo, {"collect"}) =>
                          Len(part'["primary"].infos) = Size["primary"]
  BY SameConn DEF CollectInv, Going
<1> DEFINE s == self[y].todo
           r == self'[y].todo
<1>1. /\ Whole /\ RankInv /\ conn \in Instances /\ CollectInv(y) /\ PartEffect(x)
      /\ At(x, "collect") /\ self'[x].todo # self[x].todo =>
            Len(part'["primary"].infos) = Size["primary"]
  BY DEF Going, Whole, RankInv, RanksTypeOK, FitInv, PortsKnown, Effects, Smooth
<1>2. NotAfter(r, {"offer"}, {"collect"})
  BY <1>1, GoingTodo DEF CollectInv
<1>3. ASSUME Without(r, {"collect"})
      PROVE  Len(part'["primary"].infos) = Size["primary"]
  <2>1. CASE Without(s, {"collect"})
    <3>1. ~At(x, "collect")
      <4>1. y = <<"primary", 0>>
        BY <1>1, ProcFacts
      <4>2. ~At(y, "collect")
        BY <1>1, <2>1, HeadIn
      <4> QED BY <1>1, <4>1, <4>2, Collector
    <3>2. ~At(x, "open_port")
      BY <1>1, HeadFacts DEF At, Foreign
    <3>3. part'["primary"].infos = part["primary"].infos
      BY <1>1, <3>1, <3>2, OtherPartner DEF PartEffect
    <3> QED BY <1>1, <2>1, <3>3 DEF CollectInv
  <2>2. CASE ~Without(s, {"collect"})
    <3>1. y = x /\ r # s /\ s # << >> /\ Head(s) \in {"collect"}
      BY <1>3, <2>2, GoingTodo
    <3> QED BY <1>1, <3>1 DEF At
  <2> QED BY <2>1, <2>2
<1> QED BY <1>2, <1>3

\* ... the ports that rank 0 offers, and those that rank 0 of the secondary spreads ...
LEMMA OfferStep ==
    ASSUME NEW x \in Proc, Going(x), Format = "socket"
    PROVE  AllPorts(part'["primary"].offer) /\ AllPorts(part'["secondary"].cast)
<1>1. /\ Whole /\ RankInv /\ conn \in Instances /\ CollectInv(x) /\ PartEffect(x)
      /\ AddressInv(x) /\ KnockInv(x)
      /\ AllPorts(part["primary"].offer) /\ AllPorts(part["secondary"].cast)
  BY DEF Going, Whole, RankInv, RanksTypeOK, FitInv, PortsKnown, Effects
<1>2. ASSUME part'["primary"].offer # part["primary"].offer
      PROVE  AllPorts(part'["primary"].offer)
  <2>1. At(x, "offer") /\ x[1] = "primary" /\ part'["primary"].offer = MyInfo("primary")
    BY <1>1, <1>2, OtherPartner DEF PartEffect
  <2>2. /\ self[x].todo \in Seq(StepName) /\ self[x].todo # << >>
        /\ Head(self[x].todo) = "offer"
    BY <1>1, <2>1, WholeFacts DEF At
  <2>3. x[2] = 0
    BY <1>1, <2>1, HeadIn DEF KnockInv
  <2>4. NotAfter(self[x].todo, {"offer"}, {"collect"})
    BY <1>1, <2>1, <2>3 DEF CollectInv
  <2>5. Without(Tail(self[x].todo), {"collect"})
    BY <2>2, <2>4, NotAfterTail
  <2>6. Without(self[x].todo, {"collect"})
    BY <2>2, <2>5, WithoutHead
  <2>7. Len(part["primary"].infos) = Size["primary"]
    BY <1>1, <2>1, <2>3, <2>6 DEF CollectInv
  <2>8. part'["primary"].offer.ports = part["primary"].infos
    BY <2>1 DEF MyInfo
  <2> QED BY <2>7, <2>8 DEF AllPorts
<1>3. AllPorts(part'["primary"].offer)
  BY <1>1, <1>2
<1>4. ASSUME part'["secondary"].cast # part["secondary"].cast
      PROVE  AllPorts(part'["secondary"].cast)
  <2>1. x[1] = "secondary" /\ part'["secondary"].cast = self[x].info
    BY <1>1, <1>4, OtherPartner DEF PartEffect
  <2> QED BY <1>1, <2>1 DEF AddressInv
<1> QED BY <1>1, <1>3, <1>4

\* ... and the port that a rank connects to.
LEMMA AddressStep ==
    ASSUME NEW x \in Proc, Going(x), Format = "socket", NEW y \in Proc
    PROVE  AddressInv(y)'
<1> DEFINE s == self[y].todo
           r == self'[y].todo
<1>1. /\ Whole /\ RankInv /\ conn \in Instances /\ AddressInv(y) /\ conn' = conn
      /\ PortEffect(x) /\ InfoEffect(x) /\ AcceptorEffect(x) /\ Gains(x)
      /\ AllPorts(part["primary"].offer) /\ AllPorts(part["secondary"].cast)
  BY DEF Going, Whole, RankInv, RanksTypeOK, FitInv, PortsKnown, Effects, SelfEffects, Smooth
<1>2. ~At(x, "open_port") /\ ~At(x, "get_port") /\ ~At(x, "join")
  BY <1>1, HeadFacts DEF At, Foreign
<1>3. y[1] \in Partner
  BY <1>1, ProcFacts
<1>4. CASE y[1] = "primary"
  <2>1. ASSUME self'[y].port # 0 PROVE self'[y].acceptor # "none"
    <3>1. CASE self'[y].port = self[y].port
      BY <1>1, <1>4, <2>1, <3>1 DEF AddressInv, AcceptorEffect
    <3>2. CASE self'[y].port # self[y].port
      <4>1. y = x /\ (At(x, "listen") \/ At(x, "look_up"))
        BY <1>1, <1>2, <3>2 DEF PortEffect
      <4>2. ~At(x, "look_up")
        BY <1>1, <1>4, <4>1, HeadFacts DEF At, Foreign
      <4> QED BY <1>1, <4>1, <4>2 DEF AcceptorEffect
    <3> QED BY <3>1, <3>2
  <2> QED BY <1>4, <2>1 DEF AddressInv
<1>5. CASE y[1] = "secondary"
  <2>1. /\ NotAfter(s, {"look_up"}, {"judge", "get_info"})
        /\ NotAfter(s, {"connect"}, {"look_up"})
        /\ Without(s, {"judge", "get_info"}) => self[y].info # NoInfo
        /\ Without(s, {"look_up"}) => self[y].port # 0
        /\ AllPorts(self[y].info)
    BY <1>1, <1>5 DEF AddressInv
  <2>2. /\ NotAfter(r, {"look_up"}, {"judge", "get_info"})
        /\ NotAfter(r, {"connect"}, {"look_up"})
    BY <2>1, GoingTodo
  <2>3. ASSUME Without(r, {"judge", "get_info"}) PROVE self'[y].info # NoInfo
    <3>1. CASE Without(s, {"judge", "get_info"})
      BY <1>1, <2>1, <3>1 DEF InfoEffect
    <3>2. CASE ~Without(s, {"judge", "get_info"})
      <4>1. y = x /\ s # << >> /\ Head(s) \in {"judge", "get_info"}
        BY <2>3, <3>2, GoingTodo
      <4> QED BY <1>1, <4>1 DEF Gains, At
    <3> QED BY <3>1, <3>2
  <2>4. ASSUME Without(r, {"look_up"}) PROVE self'[y].port # 0
    <3>1. CASE Without(s, {"look_up"})
      <4>1. ~(y = x /\ At(x, "look_up"))
        BY <1>1, <3>1, HeadIn
      <4>2. ~(y = x /\ At(x, "listen"))
        BY <1>1, <1>5, HeadFacts DEF At, Foreign
      <4>3. self'[y].port = self[y].port
        BY <1>1, <1>2, <4>1, <4>2 DEF PortEffect
      <4> QED BY <2>1, <3>1, <4>3
    <3>2. CASE ~Without(s, {"look_up"})
      <4>1. y = x /\ At(x, "look_up")
        <5>1. y = x /\ s # << >> /\ Head(s) \in {"look_up"}
          BY <2>4, <3>2, GoingTodo
        <5> QED BY <5>1 DEF At
      <4>2. Len(self[x].info.ports) = Size[x[1]] /\ Known(self[x].info.ports)
        BY <1>1, <4>1, LookUpFits DEF RankInv, PortsInv
      <4>3. Entry(x) \in 1..Size[x[1]]
        <5>1. x[2] \in Nat /\ x[2] < Size[x[1]] /\ Size[x[1]] \in Nat
          BY <1>1, ProcFacts, ConnFacts
        <5> QED BY <5>1 DEF Entry
      <4>4. self[x].info.ports[Entry(x)] # 0
        BY <4>2, <4>3 DEF Known
      <4> QED BY <1>1, <4>1, <4>4 DEF Gains
    <3> QED BY <3>1, <3>2
  <2>5. AllPorts(self'[y].info)
    <3>1. CASE self'[y].info = self[y].info
      BY <2>1, <3>1
    <3>2. CASE y = x /\ self'[x].info = part[Other(x[1])].offer
      BY <1>1, <1>5, <3>2, OtherPartner DEF Other
    <3>3. CASE y = x /\ self'[x].info = part[x[1]].cast
      BY <1>1, <1>5, <3>3
    <3> QED BY <1>1, <3>1, <3>2, <3>3 DEF InfoEffect
  <2>6. AllPorts(self[y].info)'
    BY <1>1, <2>5, SameConn DEF AllPorts, NoInfo
  <2> QED BY <1>5, <2>2, <2>3, <2>4, <2>6 DEF AddressInv, NoInfo
<1> QED BY <1>3, <1>4, <1>5 DEF Partner

-----------------------------------------------------------------------------
(* The local socket.                                                        *)

\* A local socket connects two ranks.
LEMMA LocalRanks ==
    ASSUME Whole, Format = "local_socket", NEW x \in Proc
    PROVE  x = <<x[1], 0>> /\ x[1] \in Partner
<1>1. conn \in Instances
  BY DEF Whole, RankInv, RanksTypeOK
<1>2. Size[x[1]] = 1
  BY <1>1, WholeFacts DEF Whole, OneLocalRank, Format, Size
<1> QED BY <1>1, <1>2, ProcFacts

\* The primary binds its local socket before its third synchronisation ...
LEMMA BindStep ==
    ASSUME NEW x \in Proc, Going(x), Format = "local_socket", NEW y \in Proc
    PROVE  BindInv(y)'
<1> SUFFICES ASSUME y = <<"primary", 0>> PROVE BindInv(y)'
  BY DEF BindInv
<1> DEFINE s == self[y].todo
           r == self'[y].todo
           n == part["primary"].synced
           m == part'["primary"].synced
<1>1. /\ Whole /\ SyncEffect(x) /\ AcceptorEffect(x) /\ KnockInv(x)
      /\ bound' = IF At(x, "unlink") THEN Nobody ELSE IF At(x, "bind") THEN x ELSE bound
      /\ NotAfter(s, {"bind"}, {"bind"}) /\ Leads(s, {"unlink"}, {"bind"})
      /\ Numbered(s, "bind", 2 - n)
      /\ IF Without(s, {"bind"}) THEN bound = y /\ self[y].acceptor # "none"
         ELSE bound = Nobody
  BY DEF Going, Whole, FitInv, BindInv, Smooth
<1>2. n \in Nat /\ m = IF x[1] = "primary" /\ At(x, "sync") THEN n + 1 ELSE n
  BY <1>1, WholeFacts, OtherPartner DEF Types, PartState, SyncEffect
<1>3. x[1] = "primary" <=> x = y
  BY <1>1, LocalRanks
<1>4. /\ s \in Seq(StepName)
      /\ \/ r = s /\ (y # x \/ At(x, "collect"))
         \/ y = x /\ s # << >> /\ r = Tail(s)
      /\ \A c : y = x /\ At(x, c) /\ c # "collect" =>
            r = Tail(s) /\ s # << >> /\ Head(s) = c
  BY GoingTodo
<1>5. \A c : At(x, c) => c = Head(self[x].todo)
  BY DEF At
<1>6. NotAfter(r, {"bind"}, {"bind"})
  BY <1>1, GoingTodo
<1>7. Leads(r, {"unlink"}, {"bind"})
  <2> HIDE DEF s, r
  <2>1. CASE r = s
    BY <1>1, <2>1
  <2>2. CASE s # << >> /\ r = Tail(s)
    BY <1>1, <1>4, <2>2, LeadsTail
  <2> QED BY <1>4, <2>1, <2>2
<1>8. Numbered(r, "bind", 2 - m)
  <2>1. CASE r = s /\ (y # x \/ At(x, "collect"))
    <3>1. ~(x[1] = "primary" /\ At(x, "sync"))
      BY <1>3, <1>5, <2>1
    <3>2. m = n
      BY <1>2, <3>1
    <3> QED BY <1>1, <2>1, <3>2
  <2>2. CASE y = x /\ s # << >> /\ r = Tail(s)
    <3>1. m = IF Head(s) = "sync" THEN n + 1 ELSE n
      BY <1>2, <1>3, <2>2 DEF At
    <3> HIDE DEF s, r, m, n
    <3>2. 2 - n \in Int
      BY <1>2
    <3>3. Numbered(Tail(s), "bind", IF Head(s) = "sync" THEN (2 - n) - 1 ELSE 2 - n)
      BY <1>1, <1>4, <2>2, <3>2, NumberedTail
    <3>4. 2 - m = IF Head(s) = "sync" THEN (2 - n) - 1 ELSE 2 - n
      BY <1>2, <3>1
    <3> QED BY <2>2, <3>3, <3>4
  <2> QED BY <1>4, <2>1, <2>2
<1>9. At(x, "unlink") => x = y
  BY <1>1, <1>3, HeadIn, LocalRanks DEF KnockInv, Partner
<1>10. At(x, "bind") => x = y
  BY <1>1, BindFits
<1>11. IF Without(r, {"bind"}) THEN bound' = y /\ self'[y].acceptor # "none"
       ELSE bound' = Nobody
  <2>1. CASE Without(s, {"bind"})
    <3>1. Without(r, {"bind"})
      BY <2>1, GoingTodo
    <3>2. ~At(x, "bind")
      BY <1>1, <1>10, <2>1, HeadIn
    <3>3. ~At(x, "unlink")
      <4>1. SUFFICES ASSUME At(x, "unlink") PROVE FALSE
        OBVIOUS
      <4>2. y = x /\ s # << >> /\ r = Tail(s) /\ Head(s) = "unlink"
        BY <1>4, <1>9, <4>1
      <4> HIDE DEF s, r
      <4>3. Has(Tail(s), {"bind"})
        BY <1>1, <1>4, <4>2, LeadsTail
      <4> QED BY <3>1, <4>2, <4>3, HasNot
    <3>4. bound' = y
      BY <1>1, <2>1, <3>2, <3>3
    <3>5. self'[y].acceptor # "none"
      BY <1>1, <2>1 DEF AcceptorEffect
    <3> QED BY <3>1, <3>4, <3>5
  <2>2. CASE ~Without(s, {"bind"}) /\ Without(r, {"bind"})
    <3>1. y = x /\ s # << >> /\ Head(s) \in {"bind"}
      BY <2>2, GoingTodo
    <3>2. At(x, "bind") /\ ~At(x, "unlink")
      BY <3>1 DEF At
    <3>3. bound' = y /\ self'[y].acceptor = "listening"
      BY <1>1, <3>1, <3>2 DEF AcceptorEffect
    <3> QED BY <2>2, <3>3
  <2>3. CASE ~Without(s, {"bind"}) /\ ~Without(r, {"bind"})
    <3>1. ~At(x, "bind")
      <4>1. SUFFICES ASSUME At(x, "bind") PROVE FALSE
        OBVIOUS
      <4>2. y = x /\ s # << >> /\ r = Tail(s) /\ Head(s) = "bind"
        BY <1>4, <1>10, <4>1
      <4> HIDE DEF s, r
      <4>3. Without(Tail(s), {"bind"})
        BY <1>1, <1>4, <4>2, NotAfterTail
      <4> QED BY <2>3, <4>2, <4>3
    <3>2. bound' = Nobody
      BY <1>1, <2>3, <3>1
    <3> QED BY <2>3, <3>2
  <2> QED BY <2>1, <2>2, <2>3
<1> QED BY <1>6, <1>7, <1>8, <1>11 DEF BindInv, Nobody

\* ... and the secondary connects its own when the primary has entered the third.
LEMMA WaitStep ==
    ASSUME NEW x \in Proc, Going(x), Format = "local_socket", NEW y \in Proc
    PROVE  WaitInv(y)'
<1> SUFFICES ASSUME y = <<"secondary", 0>> PROVE WaitInv(y)'
  BY DEF WaitInv
<1> DEFINE s == self[y].todo
           r == self'[y].todo
           n == part["secondary"].synced
           m == part'["secondary"].synced
           k == part["primary"].synced
           l == part'["primary"].synced
<1>1. /\ Whole /\ SyncEffect(x)
      /\ \/ Without(s, {"connect"})
         \/ k >= 3
         \/ Waits(s, "connect", 3 - n)
  BY DEF Going, Whole, FitInv, WaitInv, Smooth
<1>2. /\ n \in Nat /\ m = IF x[1] = "secondary" /\ At(x, "sync") THEN n + 1 ELSE n
      /\ k \in Nat /\ l \in Nat /\ l >= k
      /\ x[1] = "secondary" /\ At(x, "synced") => k >= n
  <2>1. n \in Nat /\ k \in Nat
    BY <1>1, WholeFacts, OtherPartner DEF Types, PartState
  <2>2. /\ m = IF x[1] = "secondary" /\ At(x, "sync") THEN n + 1 ELSE n
        /\ l = IF x[1] = "primary" /\ At(x, "sync") THEN k + 1 ELSE k
    BY <1>1, OtherPartner DEF SyncEffect
  <2>3. x[1] = "secondary" /\ At(x, "synced") => k >= n
    BY <1>1, OtherPartner DEF SyncEffect
  <2> HIDE DEF n, m, k, l
  <2> QED BY <2>1, <2>2, <2>3
<1>3. x[1] = "secondary" <=> x = y
  BY <1>1, LocalRanks
<1>4. /\ s \in Seq(StepName)
      /\ \/ r = s /\ (y # x \/ At(x, "collect"))
         \/ y = x /\ s # << >> /\ r = Tail(s)
  BY GoingTodo
<1>5. \A c : At(x, c) => c = Head(self[x].todo)
  BY DEF At
<1>6. CASE Without(s, {"connect"})
  <2>1. Without(r, {"connect"})
    BY <1>6, GoingTodo
  <2> QED BY <2>1 DEF WaitInv
<1>7. CASE k >= 3
  <2>1. l >= 3
    <3> HIDE DEF k, l
    <3> QED BY <1>2, <1>7
  <2> QED BY <2>1 DEF WaitInv
<1>8. CASE Waits(s, "connect", 3 - n)
  <2>1. CASE r = s /\ (y # x \/ At(x, "collect"))
    <3>1. ~(x[1] = "secondary" /\ At(x, "sync"))
      BY <1>3, <1>5, <2>1
    <3>2. Waits(r, "connect", 3 - m)
      BY <1>2, <1>8, <2>1, <3>1
    <3> QED BY <3>2 DEF WaitInv
  <2>2. CASE y = x /\ s # << >> /\ r = Tail(s)
    <3>1. /\ m = IF Head(s) = "sync" THEN n + 1 ELSE n
          /\ Head(s) = "synced" => k >= n
      BY <1>2, <1>3, <2>2 DEF At
    <3>2. l >= 3 \/ Waits(r, "connect", 3 - m)
      <4> HIDE DEF s, r, m, n, k, l
      <4>1. 3 - n \in Int
        BY <1>2
      <4>2. \/ Head(s) = "synced" /\ 3 - n <= 0
            \/ Waits(Tail(s), "connect", IF Head(s) = "sync" THEN (3 - n) - 1 ELSE 3 - n)
        BY <1>4, <1>8, <2>2, <4>1, WaitsTail
      <4>3. 3 - m = IF Head(s) = "sync" THEN (3 - n) - 1 ELSE 3 - n
        BY <1>2, <3>1
      <4>4. ASSUME Head(s) = "synced", 3 - n <= 0 PROVE l >= 3
        BY <1>2, <3>1, <4>4
      <4> QED BY <2>2, <4>2, <4>3, <4>4
    <3> QED BY <3>2 DEF WaitInv
  <2> QED BY <1>4, <2>1, <2>2
<1> QED BY <1>1, <1>6, <1>7, <1>8

-----------------------------------------------------------------------------
(* Together.                                                                *)

\* A step keeps all of it.
LEMMA FitStep ==
    ASSUME NEW x \in Proc, Going(x)
    PROVE  FitInv'
<1>1. conn' = conn /\ Whole
  BY DEF Going
<1>2. Proc' = Proc /\ Format' = Format
  BY <1>1, SameConn
<1>3. \A y \in Proc : FlowInv(y)' /\ KnockInv(y)'
  BY FlowStep, KnockStep
<1>4. ASSUME Format = "socket" PROVE PortsKnown'
  <2>1. \A y \in Proc : CollectInv(y)' /\ AddressInv(y)'
    BY <1>4, CollectStep, AddressStep
  <2>2. AllPorts(part'["primary"].offer) /\ AllPorts(part'["secondary"].cast)
    BY <1>4, OfferStep
  <2>3. /\ AllPorts(part["primary"].offer)' /\ AllPorts(part["secondary"].cast)'
    BY <1>1, <2>2, SameConn DEF AllPorts, NoInfo
  <2> QED BY <1>2, <2>1, <2>3 DEF PortsKnown
<1>5. ASSUME Format = "local_socket" PROVE \A y \in Proc : BindInv(y)' /\ WaitInv(y)'
  BY <1>5, BindStep, WaitStep
<1> QED BY <1>2, <1>3, <1>4, <1>5 DEF FitInv

\* The same for a step of the whole system.
LEMMA MatchFitStep ==
    ASSUME OneLocalRank, RankInv, MeetInv, MatchFit, [RanksNext]_rvars
    PROVE  MatchFit'
<1>1. CASE UNCHANGED rvars
  <2>1. conn' = conn /\ part' = part /\ self' = self /\ bound' = bound
    BY <1>1 DEF rvars
  <2>2. Proc' = Proc /\ Format' = Format /\ Size' = Size /\ (Agreed <=> Agreed')
    BY <2>1, SameConn
  <2>3. Matching' <=> Matching
    BY <2>1, <2>2 DEF Matching
  <2>4. (\A x \in Proc : FlowInv(x)) => \A x \in Proc : FlowInv(x)'
    BY <2>1, <2>2 DEF FlowInv, Twin
  <2>5. (\A x \in Proc : KnockInv(x)) => \A x \in Proc : KnockInv(x)'
    BY <2>1, <2>2 DEF KnockInv, Twin, Nobody
  <2>6. (\A x \in Proc : BindInv(x) /\ WaitInv(x)) =>
           \A x \in Proc : BindInv(x)' /\ WaitInv(x)'
    BY <2>1, <2>2 DEF BindInv, WaitInv, Nobody
  <2>7. PortsKnown => PortsKnown'
    BY <2>1, <2>2 DEF PortsKnown, CollectInv, AddressInv, AllPorts, NoInfo
  <2>8. FitInv => FitInv'
    BY <2>2, <2>4, <2>5, <2>6, <2>7 DEF FitInv
  <2> QED BY <2>3, <2>8 DEF MatchFit
<1>2. ASSUME NEW x \in AnyProc, RankStep(x) PROVE MatchFit'
  <2>1. x \in Proc /\ conn' = conn
    BY <1>2 DEF RankStep
  <2>2. Matching' <=> Matching
    BY <2>1, SameConn DEF Matching
  <2> SUFFICES ASSUME Matching PROVE FitInv'
    BY <2>2 DEF MatchFit
  <2>3. Whole
    BY DEF Whole, MatchFit
  <2>4. Effects(x)
    BY <1>2, <2>1, StepEffects, HasPeerHolds, InvTypes
  <2>5. Going(x)
    BY <1>2, <2>1, <2>3, <2>4, SmoothStep, StepGains DEF Going
  <2> QED BY <2>1, <2>5, FitStep
<1> QED BY <1>1, <1>2 DEF RanksNext

\* The ranks start with lists that fit.
LEMMA FitInit ==
    ASSUME RanksInit, Matching
    PROVE  FitInv
<1>1. /\ conn \in Instances /\ bound = Nobody
      /\ \A p \in Partner : /\ part[p].offer = NoInfo /\ part[p].cast = NoInfo
                            /\ part[p].synced = 0
  BY DEF RanksInit
<1>2. \A x \in Proc :
         /\ self[x].todo = Connect(x[1], x[2]) \o conn.script[x[1]] \o Disconnect(x[2])
         /\ self[x].status = "running" /\ self[x].sent = 0 /\ self[x].received = << >>
         /\ self[x].stream = << >> /\ self[x].closed = FALSE /\ self[x].acceptor = "none"
         /\ self[x].peer = Nobody /\ self[x].backlog = << >> /\ self[x].port = 0
         /\ self[x].info = NoInfo
  BY DEF RanksInit
<1>3. \A x \in Proc : x[1] \in Partner /\ conn.script[x[1]] \in Seq(Op)
  BY <1>1, ProcFacts, ConnFacts
<1>4. Format \in {"socket", "local_socket", "mpi_inter"}
  BY <1>1, ConnFacts
<1>5. ASSUME NEW x \in Proc PROVE FlowInv(x) /\ KnockInv(x)
  <2> DEFINE L == self[x].todo
  <2>1. /\ NotAfter(L, {"close", "leave"}, {"send", "receive"})
        /\ \A c \in Op : Rest(L, c) = Rest(conn.script[x[1]], c)
        /\ NotAfter(L, {"connect"}, {"connect"})
        /\ Format # "local_socket" \/ x[1] = "secondary" => Without(L, {"bind", "unlink"})
        /\ x[2] # 0 => Without(L, {"offer"})
    BY <1>2, <1>3, <1>4, FitStart
  <2>2. Twin(x) \in Proc
    <3>1. Size[Other(x[1])] = Size[x[1]]
      BY <1>3, OtherPartner DEF Matching, Agreed, Partner
    <3> QED BY <1>1, <3>1, ProcFacts
  <2>3. self[Twin(x)].sent = 0
    BY <1>2, <2>2
  <2>4. \A c \in Op : 0 + Rest(L, c) = Rest(conn.script[x[1]], c)
    <3>1. \A c \in Op : Rest(conn.script[x[1]], c) \in Nat
      BY <1>3, RestType
    <3> HIDE DEF L
    <3> QED BY <2>1, <3>1
  <2>5. FlowInv(x)
    <3>1. Len(self[x].received) = 0 /\ Len(self[x].stream) = 0 /\ 0 + 0 = 0
      <4>1. self[x].received = << >> /\ self[x].stream = << >>
        BY <1>2
      <4> QED BY <4>1
    <3>2. /\ 0 + Rest(L, "send") = Rest(conn.script[x[1]], "send")
          /\ 0 + Rest(L, "receive") = Rest(conn.script[x[1]], "receive")
      BY <2>4 DEF Op
    <3>3. self[x].status = "running" /\ self[x].sent = 0 /\ self[x].closed = FALSE
      BY <1>2
    <3> HIDE DEF L
    <3> QED BY <2>1, <2>3, <3>1, <3>2, <3>3 DEF FlowInv, L
  <2>6. KnockInv(x)
    BY <1>2, <2>1 DEF KnockInv
  <2> QED BY <2>5, <2>6
<1>6. ASSUME Format = "socket" PROVE PortsKnown
  <2>1. AllPorts(NoInfo)
    BY DEF AllPorts
  <2>2. ASSUME NEW x \in Proc PROVE CollectInv(x) /\ AddressInv(x)
    <3> DEFINE L == self[x].todo
    <3>1. /\ NotAfter(L, {"offer"}, {"collect"})
          /\ x[1] = "primary" /\ x[2] = 0 => Has(L, {"collect"})
          /\ NotAfter(L, {"look_up"}, {"judge", "get_info"})
          /\ Has(L, {"judge", "get_info"})
          /\ x[1] = "secondary" => NotAfter(L, {"connect"}, {"look_up"}) /\ Has(L, {"look_up"})
      BY <1>2, <1>3, <1>6, FitStart
    <3>2. CollectInv(x)
      BY <3>1, HasNot DEF CollectInv
    <3>3. AddressInv(x)
      BY <1>2, <1>3, <2>1, <3>1, HasNot DEF AddressInv, Partner
    <3> QED BY <3>2, <3>3
  <2> QED BY <1>1, <2>1, <2>2, OtherPartner DEF PortsKnown
<1>7. ASSUME Format = "local_socket", NEW x \in Proc PROVE BindInv(x) /\ WaitInv(x)
  <2> DEFINE L == self[x].todo
  <2>1. part["primary"].synced = 0 /\ part["secondary"].synced = 0
    BY <1>1, OtherPartner
  <2>2. ASSUME x = <<"primary", 0>> PROVE BindInv(x)
    <3>1. x[1] = "primary" /\ x[2] = 0
      BY <2>2
    <3>2. /\ NotAfter(L, {"bind"}, {"bind"}) /\ Leads(L, {"unlink"}, {"bind"})
          /\ Numbered(L, "bind", 2) /\ Has(L, {"bind"})
      BY <1>2, <1>3, <1>7, <3>1, FitStart
    <3>3. ~Without(L, {"bind"})
      BY <3>2, HasNot
    <3>4. Numbered(L, "bind", 2 - part["primary"].synced)
      BY <2>1, <3>2
    <3> QED BY <1>1, <3>2, <3>3, <3>4 DEF BindInv
  <2>3. ASSUME x = <<"secondary", 0>> PROVE WaitInv(x)
    <3>1. x[1] = "secondary" /\ x[2] = 0
      BY <2>3
    <3>2. Waits(L, "connect", 3)
      BY <1>2, <1>3, <1>7, <3>1, FitStart
    <3>3. Waits(L, "connect", 3 - part["secondary"].synced)
      BY <2>1, <3>2
    <3> QED BY <3>3 DEF WaitInv
  <2> QED BY <2>2, <2>3 DEF BindInv, WaitInv
<1> QED BY <1>5, <1>6, <1>7 DEF FitInv

\* Partners with matching settings, numbers of ranks and programs never throw: every
\* rank of the secondary finds the port of its counterpart and an acceptor behind it,
\* a local socket is bound before the other partner connects, and nobody closes a
\* socket that its counterpart still writes to or reads from, although the sockets
\* are closed before the synchronisation of Disconnect
\* (SocketCommunication::GetConnectionInformation, LocalSocketCommunication,
\* BaseSocketCommunication::DisconnectDetail).
THEOREM MatchingNeverThrowsAlways ==
    ASSUME OneLocalRank
    PROVE  RanksSpec => []MatchingNeverThrows
<1> DEFINE Inv == RankInv /\ MeetInv /\ StreamInv /\ MatchFit
<1>1. RanksInit => Inv
  BY RankInit, MeetInit, FitInit DEF MatchFit
<1>2. Inv /\ [RanksNext]_rvars => Inv'
  BY RankInvStep, MeetInvStep, MatchFitStep
<1>3. Inv => MatchingNeverThrows
  BY DEF MatchFit, FitInv, FlowInv, MatchingNeverThrows
<1> QED BY <1>1, <1>2, <1>3, PTL DEF RanksSpec
===============================================================================
