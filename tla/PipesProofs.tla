----------------------------- MODULE PipesProofs ------------------------------
(***************************************************************************)
(* The streams of one client socket keep the promises of Pipes, for any    *)
(* number of node muxes that replace one another, of streams and payloads, *)
(* whatever the relay loses, buffers or drops.                             *)
(***************************************************************************)
EXTENDS MuxProofs

(* There is one client socket, and at most one node mux opens streams to it:  *)
(* a node opens a stream only for a Bind it was sent, and a client sends its  *)
(* Binds once, when it connects. The client's own streams may meet any number *)
(* of node muxes.                                                             *)
Alone ==
    /\ \A a, b \in Access : a = b
    /\ \A i, j \in Node : MaxOpens[i] > 0 /\ MaxOpens[j] > 0 => i = j

(* The frames of each stream end in a queue, or in two, are in order. *)
Increasing(q) ==
    \A j, k \in 1 .. Len(q) : j < k /\ q[j].from = q[k].from => q[j].n < q[k].n

Before(q, r) ==
    \A f \in Range(q), g \in Range(r) : f.from = g.from => f.n < g.n

(* Whether p may yet get what e has not written to its websocket. *)
Reaches(e, p) ==
    /\ p \in up \cap Peers(e)
    /\ p \in Node => p \in route \/ p \notin joined

From(q, t) == {f \in Range(q) : f.from = t}

(* The frames of t that p may yet read. *)
OnWay(p, t) ==
    From(inbox[p], t) \cup
       IF Reaches(t.at, p) THEN From(outbound[t.at], t) \cup From(pending, t) ELSE {}

OrderOK ==
    /\ \A e \in End : Increasing(inbox[e]) /\ Increasing(outbound[e])
    /\ Increasing(pending)
    /\ \A e \in End : \A p \in Peers(e) : Reaches(e, p) => Before(inbox[p], outbound[e])
    /\ \A a \in Access : Before(pending, outbound[a])

RelayOK ==
    /\ route # {} => pending = <<>>
    /\ route \subseteq joined
    /\ Access \subseteq joined
    /\ \A p \in End : p \notin joined => inbox[p] = <<>>
    /\ \A p \in End : \A f \in Range(inbox[p]) : f.from.at \in joined
    /\ \A t \in Stream : phase[t] # "none" /\ t.at # t.by => t.at \in joined /\ t.by \in joined

(* A frame is what its stream end has sent. *)
Said(f) ==
    /\ phase[f.from] # "none"
    /\ f.type = "Open" <=> f.n = 0
    /\ f.type = "Data" => f.n <= wrote[f.from]
    /\ f.type = "Close" => f.from \in sent_close /\ f.n = wrote[f.from] + 1

Frames == Range(pending) \cup UNION {Range(outbound[e]) \cup Range(inbox[e]) : e \in End}

FramesOK == \A f \in Frames : Said(f)

(* What s has received. *)
Rcv(s) == got[s] \o inbound[s]

UsersOK ==
    /\ \A s \in Stream : s.at = s.by /\ s.n <= opened[s.by] => phase[s] # "none"
    /\ \A s \in Stream : phase[s] = "none" =>
          wrote[s] = 0 /\ got[s] = <<>> /\ inbound[s] = <<>> /\ s \notin sent_close
    /\ \A s \in removing : phase[s] = "dropped"
    /\ \A s \in streams : phase[s] # "none"

RcvOK ==
    \A s \in Stream : \A k \in 1 .. Len(Rcv(s)) :
       /\ AreEnds(s, Rcv(s)[k][1]) /\ phase[Rcv(s)[k][1]] # "none"
       /\ Rcv(s)[k][2] \in 1 .. wrote[Rcv(s)[k][1]]
       /\ s \notin torn => Rcv(s)[k][2] = k
       /\ \A j \in 1 .. k - 1 : Rcv(s)[j][2] < Rcv(s)[k][2]

(* The Open of a stream comes to one mux, once. *)
Opens(q, s) == \E f \in Range(q) : f.from = s /\ f.n = 0
Taken(s, t) == phase[t] # "none" \/ Opens(inbox[t.at], s)
Waits(s) == Opens(pending, s) \/ Opens(outbound[s.at], s)

OnceOK ==
    \A s, t \in Stream : AreEnds(s, t) /\ s.at = s.by =>
       /\ \A u \in Stream : AreEnds(s, u) /\ Taken(s, t) /\ Taken(s, u) => t = u
       /\ Waits(s) => ~Taken(s, t)

Alive(s) == phase[s] \in {"incoming", "held"}
Listening(s) == s \in streams /\ Alive(s)

(* The end s will read on from t, or begin to. *)
Expects(s, t) ==
    /\ s \notin torn
    /\ s.at \in reading
    /\ Listening(s) \/ (phase[s] = "none" /\ \E f \in OnWay(s.at, t) : f.n = 0)

Next1(s, t, f) ==
    \/ f.n = 0 \/ f.n = Len(Rcv(s)) + 1
    \/ \E g \in OnWay(s.at, t) : g.n + 1 = f.n

Topped(s, t) ==
    \/ wrote[t] = Len(Rcv(s))
    \/ \E g \in OnWay(s.at, t) : g.n = wrote[t]

(* What is on its way to s comes after what s has received; and unless s is    *)
(* torn, it goes on from there without a gap, up to the last that t has sent. *)
WayOK(s, t) ==
    /\ phase[s] # "none" => \A f \in OnWay(s.at, t) : f.n > 0
    /\ Listening(s) => \A f \in OnWay(s.at, t) : \A k \in 1 .. Len(Rcv(s)) : Rcv(s)[k][2] < f.n
    /\ Expects(s, t) => \A f \in OnWay(s.at, t) : Next1(s, t, f)
    /\ Expects(s, t) /\ Reaches(t.at, s.at) /\ t.at \in writing /\ phase[t] # "none" /\ t \notin sent_close =>
          Topped(s, t)

WaysOK == \A s, t \in Stream : AreEnds(s, t) => WayOK(s, t)

(* A stream end whose sender is gone has received all. *)
ClosedOK ==
    \A s \in Stream : Alive(s) /\ s \notin streams =>
       \E t \in Stream : AreEnds(s, t) /\ t \in sent_close
                         /\ (s \notin torn => Len(Rcv(s)) = wrote[t])

PathInv == OrderOK /\ RelayOK /\ FramesOK /\ UsersOK /\ OnceOK

PipeInv == PathInv /\ RcvOK /\ WaysOK /\ ClosedOK

-----------------------------------------------------------------------------
(* Queues: their frames, and the order of these. *)

LEMMA RangeEmpty == Range(<<>>) = {}
  BY DEF Range

LEMMA RangeAppend ==
    ASSUME NEW S, NEW q \in Seq(S), NEW x
    PROVE  Range(Append(q, x)) = Range(q) \cup {x}
  <1>1. /\ DOMAIN Append(q, x) = DOMAIN q \cup {Len(q) + 1}
        /\ \A i \in DOMAIN q : Append(q, x)[i] = q[i]
        /\ Append(q, x)[Len(q) + 1] = x
    OBVIOUS
  <1>2. ASSUME NEW y \in Range(Append(q, x)) PROVE y \in Range(q) \cup {x}
    BY <1>1 DEF Range
  <1>3. ASSUME NEW y \in Range(q) PROVE y \in Range(Append(q, x))
    BY <1>1 DEF Range
  <1>4. x \in Range(Append(q, x))
    BY <1>1 DEF Range
  <1> QED
    BY <1>2, <1>3, <1>4

LEMMA RangeTail ==
    ASSUME NEW S, NEW q \in Seq(S), q # <<>>
    PROVE  Range(q) = {Head(q)} \cup Range(Tail(q)) /\ Range(Tail(q)) \subseteq Range(q)
  <1>1. /\ 1 \in DOMAIN q /\ Head(q) = q[1]
        /\ \A i \in DOMAIN Tail(q) : i + 1 \in DOMAIN q /\ Tail(q)[i] = q[i + 1]
        /\ \A i \in DOMAIN q : i # 1 => i - 1 \in DOMAIN Tail(q) /\ Tail(q)[i - 1] = q[i]
    OBVIOUS
  <1>2. ASSUME NEW y \in Range(q) PROVE y \in {Head(q)} \cup Range(Tail(q))
    BY <1>1 DEF Range
  <1>3. ASSUME NEW y \in Range(Tail(q)) PROVE y \in Range(q)
    BY <1>1 DEF Range
  <1>4. Head(q) \in Range(q)
    BY <1>1 DEF Range
  <1> QED
    BY <1>2, <1>3, <1>4

LEMMA RangeOf ==
    ASSUME NEW S, NEW q \in Seq(S)
    PROVE  /\ Range(q) \subseteq S
           /\ \A x \in Range(q) : \E k \in 1 .. Len(q) : x = q[k]
           /\ \A k \in 1 .. Len(q) : q[k] \in Range(q)
  BY DEF Range

LEMMA IncreasingAppend ==
    ASSUME NEW q \in Seq(FrameType), NEW f \in FrameType, Increasing(q),
           \A g \in Range(q) : g.from = f.from => g.n < f.n
    PROVE  Increasing(Append(q, f))
  <1>1. /\ Len(Append(q, f)) = Len(q) + 1 /\ Len(q) \in Nat
        /\ \A i \in 1 .. Len(q) : Append(q, f)[i] = q[i]
        /\ Append(q, f)[Len(q) + 1] = f
    OBVIOUS
  <1>2. \A j \in 1 .. Len(q) : q[j].from = f.from => q[j].n < f.n
    BY RangeOf
  <1> SUFFICES ASSUME NEW j \in 1 .. Len(q) + 1, NEW k \in 1 .. Len(q) + 1, j < k,
                      Append(q, f)[j].from = Append(q, f)[k].from
               PROVE  Append(q, f)[j].n < Append(q, f)[k].n
    BY <1>1 DEF Increasing
  <1>3. j \in 1 .. Len(q)
    BY <1>1
  <1>4. CASE k = Len(q) + 1
    BY <1>1, <1>2, <1>3, <1>4
  <1>5. CASE k # Len(q) + 1
    <2>1. k \in 1 .. Len(q)
      BY <1>1, <1>5
    <2> QED
      BY <1>1, <1>3, <2>1 DEF Increasing
  <1> QED
    BY <1>4, <1>5

LEMMA IncreasingTail ==
    ASSUME NEW q \in Seq(FrameType), q # <<>>, Increasing(q)
    PROVE  /\ Increasing(Tail(q))
           /\ \A g \in Range(Tail(q)) : g.from = Head(q).from => Head(q).n < g.n
  <1>1. /\ 1 \in 1 .. Len(q) /\ Head(q) = q[1] /\ Tail(q) \in Seq(FrameType)
        /\ \A i \in 1 .. Len(Tail(q)) : /\ i \in Nat /\ i > 0 /\ i + 1 \in 1 .. Len(q)
                                        /\ Tail(q)[i] = q[i + 1]
    OBVIOUS
  <1>2. \A j, k \in 1 .. Len(Tail(q)) : j < k => j + 1 < k + 1
    OBVIOUS
  <1>3. Increasing(Tail(q))
    BY <1>1, <1>2 DEF Increasing
  <1>4. ASSUME NEW g \in Range(Tail(q)), g.from = Head(q).from
        PROVE  Head(q).n < g.n
    <2>1. PICK i \in 1 .. Len(Tail(q)) : g = Tail(q)[i]
      BY <1>1, RangeOf
    <2>2. i + 1 \in 1 .. Len(q) /\ g = q[i + 1] /\ 1 < i + 1
      BY <1>1, <2>1
    <2> QED
      BY <1>1, <1>4, <2>2 DEF Increasing
  <1> QED
    BY <1>3, <1>4

LEMMA IncreasingKept ==
    ASSUME NEW q \in Seq(FrameType), NEW r \in Subsequences(q), Increasing(q)
    PROVE  Increasing(r) /\ Range(r) \subseteq Range(q) /\ r \in Seq(FrameType)
  <1>1. /\ r \in Seq(FrameType) /\ Len(r) \in Nat
        /\ \E h \in [1 .. Len(r) -> 1 .. Len(q)] :
              /\ \A j, k \in 1 .. Len(r) : j < k => h[j] < h[k]
              /\ \A k \in 1 .. Len(r) : r[k] = q[h[k]]
    BY KeptFrames
  <1>2. PICK h \in [1 .. Len(r) -> 1 .. Len(q)] :
              /\ \A j, k \in 1 .. Len(r) : j < k => h[j] < h[k]
              /\ \A k \in 1 .. Len(r) : r[k] = q[h[k]]
    BY <1>1
  <1>3. Increasing(r)
    <2> SUFFICES ASSUME NEW j \in 1 .. Len(r), NEW k \in 1 .. Len(r), j < k, r[j].from = r[k].from
                 PROVE  r[j].n < r[k].n
      BY DEF Increasing
    <2>1. /\ h[j] \in 1 .. Len(q) /\ h[k] \in 1 .. Len(q) /\ h[j] < h[k]
          /\ r[j] = q[h[j]] /\ r[k] = q[h[k]]
      BY <1>2
    <2> QED
      BY <2>1 DEF Increasing
  <1>4. Range(r) \subseteq Range(q)
    <2> SUFFICES ASSUME NEW x \in Range(r) PROVE x \in Range(q)
      OBVIOUS
    <2>1. PICK k \in 1 .. Len(r) : x = r[k]
      BY <1>1, RangeOf
    <2>2. x = q[h[k]] /\ h[k] \in 1 .. Len(q)
      BY <1>2, <2>1
    <2> QED
      BY <2>2, RangeOf
  <1> QED
    BY <1>1, <1>3, <1>4

LEMMA BeforeParts ==
    ASSUME NEW q, NEW r, NEW q2, NEW r2, Before(q, r),
           Range(q2) \subseteq Range(q), Range(r2) \subseteq Range(r)
    PROVE  Before(q2, r2)
  BY DEF Before

-----------------------------------------------------------------------------
(* Stream ends and their partners. *)

LEMMA Sides ==
    ASSUME NEW e \in End, NEW p \in Peers(e)
    PROVE  /\ p \in End /\ p # e /\ e \in Peers(p)
           /\ e \in Node => p \in Access /\ p \notin Node /\ Peers(e) = Access
           /\ e \in Access => p \in Node /\ p \notin Access /\ Peers(e) = Node /\ e \notin Node
  BY MuxAssumption DEF End, Peers

(* Ids tell the streams of one client apart. *)
LEMMA IdsDiffer ==
    ASSUME Alone, NEW s \in Stream, NEW t \in Stream, Id(s) = Id(t)
    PROVE  s.by = t.by /\ s.n = t.n
  <1>1. /\ s.by \in End /\ t.by \in End
        /\ s.n \in Nat /\ t.n \in Nat
        /\ s.by \in Node => MaxOpens[s.by] > 0
        /\ t.by \in Node => MaxOpens[t.by] > 0
    <2>1. s.by \in End /\ t.by \in End /\ s.n \in 1 .. MaxOpens[s.by] /\ t.n \in 1 .. MaxOpens[t.by]
      BY StreamParts
    <2>2. MaxOpens[s.by] \in Nat /\ MaxOpens[t.by] \in Nat
      BY <2>1, MuxAssumption DEF End
    <2> QED
      BY <2>1, <2>2
  <1>2. /\ Id(s) = First(s.by) + 2 * (s.n - 1) /\ Id(t) = First(t.by) + 2 * (t.n - 1)
        /\ First(s.by) \in {1, 2} /\ First(t.by) \in {1, 2}
    BY DEF Id, First
  <1>3. First(s.by) = First(t.by) /\ s.n = t.n
    <2>1. \A a, b \in {1, 2} : \A m, n \in Nat : a + 2 * (m - 1) = b + 2 * (n - 1) => a = b /\ m = n
      OBVIOUS
    <2>2. First(s.by) + 2 * (s.n - 1) = First(t.by) + 2 * (t.n - 1)
      BY <1>2
    <2> QED
      BY <1>1, <1>2, <2>1, <2>2
  <1>4. s.by \in Node <=> t.by \in Node
    BY <1>3 DEF First
  <1>5. ASSUME s.by \in Node PROVE s.by = t.by
    BY <1>1, <1>4, <1>5 DEF Alone
  <1>6. ASSUME s.by \notin Node PROVE s.by = t.by
    BY <1>1, <1>4, <1>6 DEF Alone, End
  <1> QED
    BY <1>3, <1>5, <1>6

LEMMA EndAtIs ==
    ASSUME NEW s \in Stream, NEW t \in Stream
    PROVE  /\ AreEnds(s, t) => AreEnds(t, s) /\ s = EndAt(s.at, t) /\ t = EndAt(t.at, s)
           /\ EndAt(s.at, t) = s /\ t.at \in Peers(s.at) => AreEnds(s, t)
           /\ EndAt(t.at, t) = t
  <1>1. /\ s = [at |-> s.at, by |-> s.by, n |-> s.n] /\ t = [at |-> t.at, by |-> t.by, n |-> t.n]
        /\ s.at \in End /\ t.at \in End
    BY StreamParts
  <1>2. t.at \in Peers(s.at) => s.at \in Peers(t.at)
    BY <1>1, PeersMutual
  <1> QED
    BY <1>1, <1>2 DEF AreEnds, EndAt

LEMMA EntriesAre ==
    ASSUME TypeOK, Alone, NEW e \in End, NEW t \in Stream
    PROVE  Entries(e, Id(t)) = streams \cap {EndAt(e, t)}
  <1>1. ASSUME NEW s \in Entries(e, Id(t)) PROVE s \in streams \cap {EndAt(e, t)}
    <2>1. s \in streams /\ s \in Stream /\ s.at = e /\ Id(s) = Id(t)
      BY <1>1 DEF Entries, TypeOK
    <2>2. s.by = t.by /\ s.n = t.n
      BY <2>1, IdsDiffer
    <2>3. s = [at |-> s.at, by |-> s.by, n |-> s.n]
      BY <2>1, StreamParts
    <2> QED
      BY <2>1, <2>2, <2>3 DEF EndAt
  <1>2. ASSUME NEW s \in streams \cap {EndAt(e, t)} PROVE s \in Entries(e, Id(t))
    <2>1. s.at = e /\ s.by = t.by /\ s.n = t.n
      BY <1>2 DEF EndAt
    <2> QED
      BY <1>2, <2>1 DEF Entries, Id
  <1> QED
    BY <1>1, <1>2

LEMMA InsertedIs ==
    ASSUME TypeOK, Alone, NEW s \in Stream
    PROVE  Inserted(s) = streams \cup {s}
  <1>1. s.at \in End
    BY StreamParts
  <1> QED
    BY <1>1, EntriesAre, EndAtIs DEF Inserted

(* The end that did not open the stream has one partner. *)
LEMMA OneMateAway ==
    ASSUME Alone, NEW s \in Stream, NEW t \in Stream, NEW u \in Stream,
           AreEnds(s, t), AreEnds(s, u), s.at # s.by
    PROVE  t = u /\ t.at = t.by
  <1>1. /\ s.by \in End /\ s.at \in Peers(s.by)
        /\ t.at \in {s.by} \cup Peers(s.by) /\ u.at \in {s.by} \cup Peers(s.by)
        /\ t.at \in Peers(s.at) /\ u.at \in Peers(s.at)
        /\ t.by = s.by /\ u.by = s.by
    BY StreamParts DEF AreEnds
  <1>2. \A a, b \in Access : a = b
    BY DEF Alone
  <1>3. ASSUME s.by \in Access PROVE t.at = s.by /\ u.at = s.by
    <2>1. s.at \in Node /\ Peers(s.at) = Access
      BY <1>1, <1>3, Sides
    <2> QED
      BY <1>1, <1>2, <1>3, <2>1
  <1>4. ASSUME s.by \in Node PROVE t.at = s.by /\ u.at = s.by
    <2>1. s.at \in Access /\ Peers(s.at) = Node /\ Peers(s.by) = Access /\ s.at \notin Node
      BY <1>1, <1>4, Sides
    <2>2. Node \cap Access = {}
      BY MuxAssumption
    <2> QED
      BY <1>1, <1>4, <2>1, <2>2
  <1>5. t.at = s.by /\ u.at = s.by
    BY <1>1, <1>3, <1>4 DEF End
  <1> QED
    BY <1>1, <1>5, EndAtIs

(* The one that did has one that it can have heard of. *)
LEMMA OneMate ==
    ASSUME Alone, OnceOK, NEW s \in Stream, NEW t \in Stream, NEW u \in Stream,
           AreEnds(s, t), AreEnds(s, u), phase[t] # "none", phase[u] # "none"
    PROVE  t = u
  <1>1. CASE s.at # s.by
    BY <1>1, OneMateAway
  <1>2. CASE s.at = s.by
    BY <1>2 DEF OnceOK, Taken
  <1> QED
    BY <1>1, <1>2

LEMMA OwnIsNoMate ==
    ASSUME NEW s \in Stream, NEW t \in Stream, AreEnds(s, t), s.at = s.by
    PROVE  t.at # t.by
  <1>1. s.at \in End /\ t.at \in Peers(s.at) /\ t.by = s.by
    BY StreamParts DEF AreEnds
  <1> QED
    BY <1>1, Sides

-----------------------------------------------------------------------------
(* The frames on their way. *)

LEMMA WireFrames ==
    ASSUME MuxInv
    PROVE  /\ \A e \in End : outbound[e] \in Seq(FrameType) /\ Range(outbound[e]) \subseteq SentBy(e)
           /\ \A e \in End : inbox[e] \in Seq(FrameType) /\ Range(inbox[e]) \subseteq SentTo(e)
           /\ pending \in Seq(FrameType) /\ Range(pending) \subseteq Buffering
           /\ Frames \subseteq FrameType
  <1>1. /\ \A e \in End : outbound[e] \in Seq(SentBy(e)) /\ inbox[e] \in Seq(SentTo(e))
        /\ pending \in Seq(Buffering)
    BY DEF MuxInv, WiresOK
  <1>2. /\ \A e \in End : Range(outbound[e]) \subseteq SentBy(e) /\ Range(inbox[e]) \subseteq SentTo(e)
        /\ Range(pending) \subseteq Buffering
    BY <1>1, RangeOf
  <1>3. /\ \A e \in End : outbound[e] \in Seq(FrameType) /\ inbox[e] \in Seq(FrameType)
        /\ pending \in Seq(FrameType)
    BY DEF MuxInv, TypeOK
  <1>4. /\ \A e \in End : SentBy(e) \subseteq FrameType /\ SentTo(e) \subseteq FrameType
        /\ Buffering \subseteq FrameType
    BY DEF SentBy, SentTo, Buffering
  <1> QED
    BY <1>2, <1>3, <1>4 DEF Frames

LEMMA FrameParts ==
    ASSUME NEW f \in FrameType
    PROVE  f.from \in Stream /\ f.n \in Nat /\ f.type \in {"Open", "Data", "Close"}
  BY DEF FrameType

LEMMA OnWayFrames ==
    ASSUME NEW s \in Stream, NEW t \in Stream
    PROVE  OnWay(s.at, t) \subseteq Frames /\ \A f \in OnWay(s.at, t) : f.from = t
  <1>1. s.at \in End /\ t.at \in End
    BY StreamParts
  <1> QED
    BY <1>1 DEF OnWay, From, Frames

(* A stream end that nobody has is quiet, and one that may still write has    *)
(* sent nothing with the next number.                                         *)
LEMMA NoneIsQuiet ==
    ASSUME FramesOK, NEW t \in Stream, phase[t] = "none"
    PROVE  /\ \A f \in Frames : f.from # t
           /\ \A s \in Stream : OnWay(s.at, t) = {}
  <1>1. \A f \in Frames : f.from # t
    BY DEF FramesOK, Said
  <1> QED
    BY <1>1, OnWayFrames

LEMMA OlderFrames ==
    ASSUME MuxInv, FramesOK, NEW s \in Stream, s \notin sent_close,
           NEW f \in Frames, f.from = s
    PROVE  f.n <= wrote[s]
  <1>1. f \in FrameType /\ Said(f)
    BY WireFrames DEF FramesOK
  <1>2. f.n \in Nat /\ f.type \in {"Open", "Data", "Close"} /\ wrote[s] \in Nat
    BY <1>1, FrameParts DEF MuxInv, TypeOK
  <1> QED
    BY <1>1, <1>2 DEF Said

(* Frames go on saying what their stream ends have sent. *)
LEMMA SaidKept ==
    ASSUME NEW f \in FrameType, Said(f),
           wrote[f.from] \in Nat, wrote'[f.from] \in Nat,
           phase[f.from] # "none" => phase'[f.from] # "none",
           wrote[f.from] <= wrote'[f.from],
           f.from \in sent_close => f.from \in sent_close' /\ wrote'[f.from] = wrote[f.from]
    PROVE  Said(f)'
  <1>1. f.n \in Nat
    BY FrameParts
  <1> QED
    BY <1>1 DEF Said

-----------------------------------------------------------------------------
(* The order of the frames, action by action. *)

(* A user sends a frame with a number of its own. *)
LEMMA OrderSent ==
    ASSUME MuxInv, OrderOK, NEW s \in Stream, NEW f \in FrameType, f.from = s,
           outbound' = Sent(s, f), UNCHANGED <<inbox, pending, joined, route, up>>,
           \A g \in Frames : g.from = s => g.n < f.n
    PROVE  OrderOK' /\ Frames' \subseteq Frames \cup {f}
  <1>0. s.at \in End
    BY StreamParts
  <1>1. ASSUME NEW e \in End
        PROVE  Increasing(outbound'[e]) /\ Range(outbound'[e]) \subseteq Range(outbound[e]) \cup {f}
    <2>1. outbound[e] \in Seq(FrameType) /\ Increasing(outbound[e]) /\ Range(outbound[e]) \subseteq Frames
      BY WireFrames DEF OrderOK, Frames
    <2>2. CASE outbound'[e] = outbound[e]
      BY <2>1, <2>2
    <2>3. CASE outbound'[e] = Append(outbound[e], f)
      <3>1. \A g \in Range(outbound[e]) : g.from = f.from => g.n < f.n
        BY <2>1
      <3>2. Range(Append(outbound[e], f)) = Range(outbound[e]) \cup {f}
        BY <2>1, RangeAppend
      <3>3. Increasing(Append(outbound[e], f))
        BY <2>1, <3>1, IncreasingAppend
      <3> QED
        BY <2>3, <3>2, <3>3
    <2>4. outbound'[e] = outbound[e] \/ outbound'[e] = Append(outbound[e], f)
      BY DEF Sent, MuxInv, TypeOK
    <2> QED
      BY <2>2, <2>3, <2>4
  <1>2. ASSUME NEW e \in End, NEW q, Before(q, outbound[e]), Range(q) \subseteq Frames
        PROVE  Before(q, outbound'[e])
    BY <1>1, <1>2 DEF Before
  <1>3. \A e, p \in End : Reaches(e, p)' = Reaches(e, p)
    BY DEF Reaches
  <1>4. Frames' \subseteq Frames \cup {f}
    BY <1>1 DEF Frames
  <1>5. ASSUME NEW e \in End, NEW p \in Peers(e), Reaches(e, p)'
        PROVE  Before(inbox[p], outbound'[e])
    <2>1. p \in End
      BY Sides
    <2>2. Before(inbox[p], outbound[e]) /\ Range(inbox[p]) \subseteq Frames
      BY <1>3, <1>5, <2>1 DEF OrderOK, Frames
    <2> QED
      BY <1>2, <2>2
  <1>6. ASSUME NEW a \in Access PROVE Before(pending, outbound'[a])
    <2>1. a \in End /\ Before(pending, outbound[a]) /\ Range(pending) \subseteq Frames
      BY DEF OrderOK, Frames, End
    <2> QED
      BY <1>2, <2>1
  <1> QED
    BY <1>1, <1>4, <1>5, <1>6 DEF OrderOK

(* A read loop takes the first frame. *)
LEMMA OrderReceived ==
    ASSUME MuxInv, OrderOK, NEW e \in End, Received(e),
           UNCHANGED <<outbound, pending, joined, route, up>>
    PROVE  /\ OrderOK' /\ Frames' \subseteq Frames
           /\ Head(inbox[e]) \in Range(inbox[e])
           /\ Range(inbox[e]) = {Head(inbox[e])} \cup Range(inbox'[e])
           /\ \A g \in Range(inbox'[e]) : g.from = Head(inbox[e]).from => Head(inbox[e]).n < g.n
           /\ \A p \in End : p # e => inbox'[p] = inbox[p]
  <1>1. /\ inbox[e] \in Seq(FrameType) /\ inbox[e] # <<>> /\ Increasing(inbox[e])
        /\ inbox'[e] = Tail(inbox[e]) /\ \A p \in End : p # e => inbox'[p] = inbox[p]
    BY DEF Received, MuxInv, TypeOK, OrderOK
  <1>2. /\ Range(inbox[e]) = {Head(inbox[e])} \cup Range(inbox'[e])
        /\ Increasing(inbox'[e])
        /\ \A g \in Range(inbox'[e]) : g.from = Head(inbox[e]).from => Head(inbox[e]).n < g.n
    BY <1>1, RangeTail, IncreasingTail
  <1>3. \A p \in End : Range(inbox'[p]) \subseteq Range(inbox[p])
    BY <1>1, <1>2
  <1>4. \A b, p \in End : Reaches(b, p)' = Reaches(b, p)
    BY DEF Reaches
  <1>5. ASSUME NEW b \in End, NEW p \in Peers(b), Reaches(b, p)'
        PROVE  Before(inbox'[p], outbound'[b])
    <2>1. p \in End
      BY Sides
    <2>2. Before(inbox[p], outbound[b])
      BY <1>4, <1>5, <2>1 DEF OrderOK
    <2> QED
      BY <1>3, <2>1, <2>2, BeforeParts
  <1>6. OrderOK'
    BY <1>1, <1>2, <1>5 DEF OrderOK
  <1> QED
    BY <1>1, <1>2, <1>3, <1>6 DEF Frames

(* Queues are emptied, sockets end, the slot is given up; or nothing happens. *)
Shrinks ==
    /\ \A e \in End : outbound'[e] = outbound[e] \/ (outbound'[e] = <<>> /\ e \notin writing')
    /\ \A e \in End : inbox'[e] = inbox[e] \/ (inbox'[e] = <<>> /\ e \notin reading')
    /\ pending' = pending \/ (pending' = <<>> /\ route' = {})
    /\ up' \subseteq up /\ joined' = joined /\ route' \subseteq route /\ torn' = torn
    /\ reading' \subseteq reading /\ writing' \subseteq writing

LEMMA OrderShrinks ==
    ASSUME MuxInv, OrderOK, Shrinks
    PROVE  /\ OrderOK' /\ Frames' \subseteq Frames
           /\ \A e, p \in End : Reaches(e, p)' => Reaches(e, p)
  <1>1. \A e \in End : Range(outbound'[e]) \subseteq Range(outbound[e]) /\ Range(inbox'[e]) \subseteq Range(inbox[e])
    BY RangeEmpty DEF Shrinks
  <1>2. Range(pending') \subseteq Range(pending)
    BY RangeEmpty DEF Shrinks
  <1>3. Increasing(<<>>)
    BY DEF Increasing
  <1>4. \A e, p \in End : Reaches(e, p)' => Reaches(e, p)
    BY DEF Reaches, Shrinks
  <1>5. ASSUME NEW b \in End, NEW p \in Peers(b), Reaches(b, p)'
        PROVE  Before(inbox'[p], outbound'[b])
    <2>1. p \in End
      BY Sides
    <2>2. Before(inbox[p], outbound[b])
      BY <1>4, <1>5, <2>1 DEF OrderOK
    <2> QED
      BY <1>1, <2>1, <2>2, BeforeParts
  <1>6. \A a \in Access : Before(pending', outbound'[a])
    BY <1>1, <1>2, BeforeParts DEF OrderOK, End
  <1>7. /\ \A e \in End : Increasing(inbox'[e]) /\ Increasing(outbound'[e])
        /\ Increasing(pending')
    BY <1>3 DEF OrderOK, Shrinks
  <1> QED
    BY <1>1, <1>2, <1>4, <1>5, <1>6, <1>7 DEF OrderOK, Frames

-----------------------------------------------------------------------------
(* The write loop and the relay: what becomes of the first frame. *)

LEMMA BeforeMoved ==
    ASSUME NEW q, NEW q2, NEW r \in Seq(FrameType), r # <<>>, Before(q, r), Increasing(r),
           Range(q2) \subseteq Range(q) \cup {Head(r)}
    PROVE  Before(q2, Tail(r))
  <1>1. Range(r) = {Head(r)} \cup Range(Tail(r))
    BY RangeTail
  <1>2. \A g \in Range(Tail(r)) : g.from = Head(r).from => Head(r).n < g.n
    BY IncreasingTail
  <1> QED
    BY <1>1, <1>2 DEF Before

LEMMA BeforeOther ==
    ASSUME NEW q, NEW q2, NEW r, NEW f, Before(q, r), \A h \in Range(r) : h.from # f.from,
           Range(q2) \subseteq Range(q) \cup {f}
    PROVE  Before(q2, r)
  BY DEF Before

LEMMA WriteFrameFacts ==
    ASSUME MuxInv, OrderOK, NEW e \in End, WriteFrame(e), NEW f, f = Head(outbound[e])
    PROVE  /\ f \in Range(outbound[e]) /\ f \in FrameType /\ f \in Frames
           /\ f.from \in Stream /\ f.from.at = e
           /\ Range(outbound[e]) = {f} \cup Range(outbound'[e])
           /\ \A g \in Range(outbound'[e]) : g.from = f.from => f.n < g.n
           /\ \A b \in End : b # e => outbound'[b] = outbound[b]
           /\ Increasing(outbound'[e])
           /\ Targets(e) \subseteq Peers(e)
           /\ UNCHANGED <<table, joined, left, route, loops, users>>
           /\ pending' = IF e \in Access /\ route = {} THEN Buffered(pending, f) ELSE pending
           /\ \E full \in SUBSET Targets(e) :
                 /\ \A p \in End : inbox'[p] = IF p \in (Targets(e) \cap up) \ full
                                               THEN Append(inbox[p], f) ELSE inbox[p]
                 /\ torn' = torn \cup (Stream \cap {EndAt(p, f.from) : p \in full})
  <1>1. /\ outbound[e] \in Seq(FrameType) /\ outbound[e] # <<>> /\ Increasing(outbound[e])
        /\ outbound'[e] = Tail(outbound[e]) /\ \A b \in End : b # e => outbound'[b] = outbound[b]
    BY DEF WriteFrame, MuxInv, TypeOK, OrderOK
  <1>2. /\ Range(outbound[e]) = {f} \cup Range(outbound'[e])
        /\ \A g \in Range(outbound'[e]) : g.from = f.from => f.n < g.n
        /\ Increasing(outbound'[e])
    BY <1>1, RangeTail, IncreasingTail
  <1>3. f \in Range(outbound[e]) /\ f \in SentBy(e) /\ f \in FrameType /\ f \in Frames
    BY <1>2, WireFrames DEF Frames, SentBy
  <1>4. f.from \in Stream /\ f.from.at = e
    BY <1>3, FrameParts DEF SentBy
  <1>5. Targets(e) \subseteq Peers(e)
    BY MuxAssumption DEF Targets, Peers, MuxInv, TypeOK, End
  <1>6. /\ UNCHANGED <<table, joined, left, route, loops, users>>
        /\ pending' = IF e \in Access /\ route = {} THEN Buffered(pending, f) ELSE pending
        /\ \E full \in SUBSET Targets(e) :
              /\ \A p \in End : inbox'[p] = IF p \in (Targets(e) \cap up) \ full
                                            THEN Append(inbox[p], f) ELSE inbox[p]
              /\ torn' = torn \cup (Stream \cap {EndAt(p, f.from) : p \in full})
    <2>1. PICK full \in SUBSET (Targets(e) \cap Slow) :
             /\ inbox' = [p \in End |-> IF p \in (Targets(e) \cap up) \ full
                                          THEN Append(inbox[p], f) ELSE inbox[p]]
             /\ torn' = torn \cup (Stream \cap {EndAt(p, f.from) : p \in full})
      BY DEF WriteFrame
    <2>2. full \in SUBSET Targets(e)
      OBVIOUS
    <2>3. \A p \in End : inbox'[p] = IF p \in (Targets(e) \cap up) \ full
                                     THEN Append(inbox[p], f) ELSE inbox[p]
      BY <2>1
    <2> QED
      BY <2>1, <2>2, <2>3 DEF WriteFrame
  <1> QED
    BY <1>1, <1>2, <1>3, <1>4, <1>5, <1>6

(* What the buffer becomes. *)
LEMMA BufferedFrames ==
    ASSUME NEW q \in Seq(FrameType), NEW f \in FrameType, Increasing(q),
           \A g \in Range(q) : g.from = f.from => g.n < f.n
    PROVE  /\ Buffered(q, f) \in Seq(FrameType) /\ Increasing(Buffered(q, f))
           /\ f \in Range(Buffered(q, f)) /\ Range(Buffered(q, f)) \subseteq Range(q) \cup {f}
           /\ \A g \in Range(q) \ Range(Buffered(q, f)) :
                 \A h \in Range(Buffered(q, f)) : h.from = g.from => g.n < h.n
  <1>1. CASE Len(q) < Buffer
    <2>1. Buffered(q, f) = Append(q, f)
      BY <1>1 DEF Buffered
    <2>2. Range(Append(q, f)) = Range(q) \cup {f}
      BY RangeAppend
    <2> QED
      BY <2>1, <2>2, IncreasingAppend, SeqAppend
  <1>2. CASE ~(Len(q) < Buffer)
    <2>1. Buffered(q, f) = Append(Tail(q), f) /\ q # <<>>
      BY <1>2, MuxAssumption DEF Buffered
    <2>2. /\ Tail(q) \in Seq(FrameType) /\ Range(q) = {Head(q)} \cup Range(Tail(q)) /\ Increasing(Tail(q))
          /\ \A g \in Range(Tail(q)) : g.from = Head(q).from => Head(q).n < g.n
      BY <2>1, SeqHeadTail, RangeTail, IncreasingTail
    <2>3. Range(Append(Tail(q), f)) = Range(Tail(q)) \cup {f}
      BY <2>2, RangeAppend
    <2>4. Append(Tail(q), f) \in Seq(FrameType) /\ Increasing(Append(Tail(q), f))
      BY <2>2, IncreasingAppend, SeqAppend
    <2> QED
      BY <2>1, <2>2, <2>3, <2>4
  <1> QED
    BY <1>1, <1>2

LEMMA OrderWritten ==
    ASSUME MuxInv, OrderOK, NEW e \in End, WriteFrame(e)
    PROVE  OrderOK' /\ Frames' \subseteq Frames
  <1>0. PICK f : f = Head(outbound[e])
    OBVIOUS
  <1>1. /\ f \in Range(outbound[e]) /\ f \in FrameType /\ f \in Frames
        /\ f.from \in Stream /\ f.from.at = e
        /\ Range(outbound[e]) = {f} \cup Range(outbound'[e])
        /\ \A b \in End : b # e => outbound'[b] = outbound[b]
        /\ Increasing(outbound'[e])
        /\ Targets(e) \subseteq Peers(e)
        /\ UNCHANGED <<table, joined, left, route, loops, users>>
        /\ pending' = IF e \in Access /\ route = {} THEN Buffered(pending, f) ELSE pending
    BY <1>0, WriteFrameFacts
  <1>2. PICK full \in SUBSET Targets(e) :
           \A p \in End : inbox'[p] = IF p \in (Targets(e) \cap up) \ full
                                      THEN Append(inbox[p], f) ELSE inbox[p]
    BY <1>0, WriteFrameFacts
  <1>3. \A b, p \in End : Reaches(b, p)' = Reaches(b, p)
    BY <1>1 DEF Reaches, loops
  <1>4. /\ outbound[e] \in Seq(FrameType) /\ outbound[e] # <<>> /\ outbound'[e] = Tail(outbound[e])
        /\ Increasing(outbound[e])
    BY DEF WriteFrame, MuxInv, TypeOK, OrderOK
  <1>5. ASSUME NEW p \in End
        PROVE  /\ Increasing(inbox'[p])
               /\ Range(inbox'[p]) \subseteq Range(inbox[p]) \cup {f}
               /\ inbox'[p] # inbox[p] => p \in Peers(e)
    <2>1. inbox[p] \in Seq(FrameType) /\ Increasing(inbox[p])
      BY DEF MuxInv, TypeOK, OrderOK
    <2>2. CASE inbox'[p] = inbox[p]
      BY <2>1, <2>2
    <2>3. CASE p \in Targets(e) \cap up /\ inbox'[p] = Append(inbox[p], f)
      <3>1. p \in Peers(e) /\ Reaches(e, p)
        BY <1>1, <2>3, Sides DEF Reaches, Targets
      <3>2. \A g \in Range(inbox[p]) : g.from = f.from => g.n < f.n
        BY <1>1, <3>1 DEF OrderOK, Before
      <3>3. Range(Append(inbox[p], f)) = Range(inbox[p]) \cup {f}
        BY <2>1, RangeAppend
      <3>4. Increasing(Append(inbox[p], f))
        BY <1>1, <2>1, <3>2, IncreasingAppend
      <3> QED
        BY <2>3, <3>1, <3>3, <3>4
    <2> QED
      BY <1>2, <2>2, <2>3
  <1>6. /\ Increasing(pending') /\ Range(pending') \subseteq Range(pending) \cup {f}
        /\ e \notin Access => pending' = pending
    <2>1. CASE e \in Access /\ route = {}
      <3>1. pending \in Seq(FrameType) /\ Increasing(pending) /\ Before(pending, outbound[e])
        BY <2>1 DEF MuxInv, TypeOK, OrderOK
      <3>2. \A g \in Range(pending) : g.from = f.from => g.n < f.n
        BY <1>1, <3>1 DEF Before
      <3> QED
        BY <1>1, <2>1, <3>1, <3>2, BufferedFrames
    <2>2. CASE ~(e \in Access /\ route = {})
      BY <1>1, <2>2 DEF OrderOK
    <2> QED
      BY <2>1, <2>2
  <1>7. ASSUME NEW b \in End, b # e, NEW h \in Range(outbound[b]) PROVE h.from # f.from
    BY <1>1, <1>7, WireFrames DEF SentBy
  <1>8. ASSUME NEW b \in End, NEW p \in Peers(b), Reaches(b, p)'
        PROVE  Before(inbox'[p], outbound'[b])
    <2>1. p \in End
      BY Sides
    <2>2. Before(inbox[p], outbound[b]) /\ Range(inbox'[p]) \subseteq Range(inbox[p]) \cup {f}
      BY <1>3, <1>5, <1>8, <2>1 DEF OrderOK
    <2>3. CASE b = e
      <3>1. Before(inbox[p], outbound[e])
        BY <2>2, <2>3
      <3>2. Range(inbox'[p]) \subseteq Range(inbox[p]) \cup {Head(outbound[e])}
        BY <1>0, <2>2
      <3>3. Before(inbox'[p], Tail(outbound[e]))
        BY <1>4, <3>1, <3>2, BeforeMoved
      <3> QED
        BY <1>4, <2>3, <3>3
    <2>4. CASE b # e
      <3>1. outbound'[b] = outbound[b] /\ \A h \in Range(outbound[b]) : h.from # f.from
        BY <1>1, <1>7, <2>4
      <3>2. Before(inbox'[p], outbound[b])
        BY <2>2, <3>1, BeforeOther
      <3> QED
        BY <3>1, <3>2
    <2> QED
      BY <2>3, <2>4
  <1>9. ASSUME NEW a \in Access PROVE Before(pending', outbound'[a])
    <2>1. a \in End /\ Before(pending, outbound[a])
      BY DEF OrderOK, End
    <2>2. CASE a = e
      <3>1. Range(pending') \subseteq Range(pending) \cup {Head(outbound[e])} /\ Before(pending, outbound[e])
        BY <1>0, <1>6, <2>1, <2>2
      <3>2. Before(pending', Tail(outbound[e]))
        BY <1>4, <3>1, BeforeMoved
      <3> QED
        BY <1>4, <2>2, <3>2
    <2>3. CASE a # e
      <3>1. outbound'[a] = outbound[a] /\ \A h \in Range(outbound[a]) : h.from # f.from
        BY <1>1, <1>7, <2>1, <2>3
      <3>2. Before(pending', outbound[a])
        BY <1>6, <2>1, <3>1, BeforeOther
      <3> QED
        BY <3>1, <3>2
    <2> QED
      BY <2>2, <2>3
  <1>10. \A b \in End : Increasing(inbox'[b]) /\ Increasing(outbound'[b])
    BY <1>1, <1>5 DEF OrderOK
  <1>11. OrderOK'
    BY <1>6, <1>8, <1>9, <1>10 DEF OrderOK
  <1>12. Frames' \subseteq Frames
    <2>1. \A b \in End : Range(outbound'[b]) \subseteq Range(outbound[b])
      BY <1>1
    <2> QED
      BY <1>1, <1>5, <1>6, <2>1 DEF Frames
  <1> QED
    BY <1>11, <1>12

(* The relay registers a node mux. *)
LEMMA RegisterFacts ==
    ASSUME MuxInv, OrderOK, NEW i \in End, Register(i)
    PROVE  /\ i \in Node \ joined /\ joined' = joined \cup {i} /\ route' = {i} /\ pending' = <<>>
           /\ UNCHANGED <<table, outbound, left, loops, users>>
           /\ \A p \in End : p # i => inbox'[p] = inbox[p]
           /\ \E kept \in Seq(FrameType) :
                 /\ Increasing(kept) /\ Range(kept) \subseteq Range(pending)
                 /\ inbox'[i] = IF i \in up THEN kept ELSE <<>>
                 /\ torn' = torn \cup
                             (Stream \cap {EndAt(i, f.from) : f \in Range(pending) \ Range(kept)})
  <1>1. PICK kept \in IF i \in Slow THEN Subsequences(pending) ELSE {pending} :
           /\ inbox' = [inbox EXCEPT ![i] = IF i \in up THEN kept ELSE <<>>]
           /\ torn' = torn \cup (Stream \cap {EndAt(i, f.from) : f \in Range(pending) \ Range(kept)})
    BY DEF Register
  <1>2. pending \in Seq(FrameType) /\ Increasing(pending)
    BY DEF MuxInv, TypeOK, OrderOK
  <1>3. kept \in Seq(FrameType) /\ Increasing(kept) /\ Range(kept) \subseteq Range(pending)
    BY <1>1, <1>2, IncreasingKept
  <1>4. /\ inbox'[i] = IF i \in up THEN kept ELSE <<>>
        /\ \A p \in End : p # i => inbox'[p] = inbox[p]
    BY <1>1 DEF MuxInv, TypeOK
  <1>5. /\ i \in Node \ joined /\ joined' = joined \cup {i} /\ route' = {i} /\ pending' = <<>>
        /\ UNCHANGED <<table, outbound, left, loops, users>>
    BY DEF Register
  <1> QED
    BY <1>1, <1>3, <1>4, <1>5

LEMMA OrderRegistered ==
    ASSUME MuxInv, OrderOK, NEW i \in End, Register(i)
    PROVE  OrderOK' /\ Frames' \subseteq Frames
  <1>1. /\ i \in Node \ joined /\ joined' = joined \cup {i} /\ route' = {i} /\ pending' = <<>>
        /\ UNCHANGED <<table, outbound, left, loops, users>>
        /\ \A p \in End : p # i => inbox'[p] = inbox[p]
    BY RegisterFacts
  <1>2. Increasing(inbox'[i]) /\ Range(inbox'[i]) \subseteq Range(pending)
    <2>1. Increasing(<<>>) /\ Range(<<>>) = {}
      BY RangeEmpty DEF Increasing
    <2> QED
      BY <2>1, RegisterFacts
  <1>3. ASSUME NEW b \in End, NEW p \in Peers(b), Reaches(b, p)'
        PROVE  Before(inbox'[p], outbound'[b])
    <2>1. p \in End
      BY Sides
    <2>2. CASE p = i
      <3>1. b \in Access
        BY <1>1, <2>2, Sides DEF End
      <3>2. Before(pending, outbound[b])
        BY <3>1 DEF OrderOK
      <3> QED
        BY <1>1, <1>2, <2>2, <3>2, BeforeParts
    <2>3. CASE p # i
      <3>1. Reaches(b, p)
        BY <1>1, <1>3, <2>3 DEF Reaches, loops
      <3> QED
        BY <1>1, <2>1, <2>3, <3>1 DEF OrderOK
    <2> QED
      BY <2>2, <2>3
  <1>4. \A e \in End : Increasing(inbox'[e]) /\ Increasing(outbound'[e])
    BY <1>1, <1>2 DEF OrderOK
  <1>5. Increasing(pending') /\ \A a \in Access : Before(pending', outbound'[a])
    BY <1>1, RangeEmpty DEF Increasing, Before
  <1>6. OrderOK'
    BY <1>3, <1>4, <1>5 DEF OrderOK
  <1>7. Frames' \subseteq Frames
    BY <1>1, <1>2, RangeEmpty DEF Frames
  <1> QED
    BY <1>6, <1>7

-----------------------------------------------------------------------------
(* Most steps: frames, sockets and loops get fewer at most, and no stream end *)
(* receives or sends anything.                                                *)

Still ==
    /\ UNCHANGED <<opened, wrote, sent_close>>
    /\ streams' \subseteq streams /\ \A s \in streams \ streams' : ~Alive(s)
    /\ \A s \in removing' : phase'[s] = "dropped"
    /\ \A s \in Stream : phase'[s] = "none" <=> phase[s] = "none"
    /\ \A s \in Stream : phase[s] = "none" => got'[s] = got[s] /\ inbound'[s] = inbound[s]
    /\ \A s \in Stream : Alive(s)' => Alive(s) /\ Rcv(s)' = Rcv(s)
    /\ \A s \in Stream : /\ Len(Rcv(s)') <= Len(Rcv(s))
                         /\ \A k \in 1 .. Len(Rcv(s)') : Rcv(s)'[k] = Rcv(s)[k]

LEMMA OnceKept ==
    ASSUME OnceOK,
           \A s, t \in Stream : AreEnds(s, t) /\ s.at = s.by /\ Taken(s, t)' => Taken(s, t),
           \A s \in Stream : Waits(s)' => Waits(s)
    PROVE  OnceOK'
  BY DEF OnceOK

LEMMA ShrinkPath ==
    ASSUME MuxInv, PathInv, Shrinks, Still
    PROVE  PathInv'
  <1>1. OrderOK' /\ Frames' \subseteq Frames
    BY OrderShrinks DEF PathInv
  <1>2. /\ \A e \in End : Range(outbound'[e]) \subseteq Range(outbound[e]) /\ Range(inbox'[e]) \subseteq Range(inbox[e])
        /\ Range(pending') \subseteq Range(pending)
    BY RangeEmpty DEF Shrinks
  <1>3. RelayOK'
    BY <1>2 DEF PathInv, RelayOK, Shrinks, Still
  <1>4. FramesOK'
    <2> SUFFICES ASSUME NEW f \in Frames' PROVE Said(f)'
      BY DEF FramesOK
    <2>1. f \in FrameType /\ Said(f) /\ f.from \in Stream
      BY <1>1, WireFrames, FrameParts DEF PathInv, FramesOK
    <2> QED
      BY <2>1 DEF Said, Still
  <1>5. UsersOK'
    <2>1. UsersOK
      BY DEF PathInv
    <2>2. \A s \in Stream : s.at = s.by /\ s.n <= opened'[s.by] => phase'[s] # "none"
      BY <2>1 DEF UsersOK, Still
    <2>3. \A s \in Stream : phase'[s] = "none" =>
             wrote'[s] = 0 /\ got'[s] = <<>> /\ inbound'[s] = <<>> /\ s \notin sent_close'
      BY <2>1 DEF UsersOK, Still
    <2>4. \A s \in streams' : phase'[s] # "none"
      BY <2>1 DEF UsersOK, Still, MuxInv, TypeOK
    <2>5. \A s \in removing' : phase'[s] = "dropped"
      BY DEF Still
    <2> QED
      BY <2>2, <2>3, <2>4, <2>5 DEF UsersOK
  <1>6. OnceOK'
    <2>1. OnceOK
      BY DEF PathInv
    <2>2. ASSUME NEW s \in Stream, NEW t \in Stream, Taken(s, t)' PROVE Taken(s, t)
      <3>1. t.at \in End
        BY StreamParts
      <3> QED
        BY <1>2, <2>2, <3>1 DEF Taken, Opens, Still
    <2>3. ASSUME NEW s \in Stream, Waits(s)' PROVE Waits(s)
      <3>1. s.at \in End
        BY StreamParts
      <3> QED
        BY <1>2, <2>3, <3>1 DEF Waits, Opens
    <2> QED
      BY <2>1, <2>2, <2>3, OnceKept
  <1> QED
    BY <1>1, <1>3, <1>4, <1>5, <1>6 DEF PathInv

(* Reads only move payloads. *)
LEMMA RcvFacts ==
    ASSUME MuxInv, NEW s \in Stream
    PROVE  /\ Rcv(s) \in Seq(Stream \X Nat) /\ Len(Rcv(s)) = Len(got[s]) + Len(inbound[s])
           /\ Len(got[s]) \in Nat /\ Len(inbound[s]) \in Nat
           /\ \A k \in 1 .. Len(got[s]) : Rcv(s)[k] = got[s][k]
           /\ inbound[s] # <<>> => Rcv(s)[Len(got[s]) + 1] = Head(inbound[s]) /\ Len(inbound[s]) > 0
  <1>1. got[s] \in Seq(Stream \X Nat) /\ inbound[s] \in Seq(Stream \X Nat)
    BY DEF MuxInv, TypeOK
  <1>2. ASSUME NEW g \in Seq(Stream \X Nat), NEW q \in Seq(Stream \X Nat)
        PROVE  /\ g \o q \in Seq(Stream \X Nat) /\ Len(g \o q) = Len(g) + Len(q)
               /\ Len(g) \in Nat /\ Len(q) \in Nat
               /\ \A k \in 1 .. Len(g) : (g \o q)[k] = g[k]
    OBVIOUS
  <1>3. ASSUME NEW g \in Seq(Stream \X Nat), NEW q \in Seq(Stream \X Nat), q # <<>>
        PROVE  (g \o q)[Len(g) + 1] = Head(q) /\ Len(q) > 0
    BY <1>3
  <1> QED
    BY <1>1, <1>2, <1>3 DEF Rcv

LEMMA Regroup ==
    ASSUME NEW S, NEW g \in Seq(S), NEW q \in Seq(S), q # <<>>
    PROVE  Append(g, Head(q)) \o Tail(q) = g \o q
  OBVIOUS

LEMMA StillUnread ==
    ASSUME MuxInv, UNCHANGED <<opened, wrote, sent_close, streams, removing, phase, got, inbound>>, UsersOK
    PROVE  Still
  BY RcvFacts DEF Still, Alive, Rcv, UsersOK

LEMMA UsersShrink ==
    ASSUME MuxInv, PathInv, Alone, NEW s \in Stream,
           Take(s) \/ Read(s) \/ ReadEnd(s) \/ Remove(s) \/ (Drop(s) /\ s \in sent_close)
    PROVE  Shrinks /\ Still
  <1>0. UsersOK
    BY DEF PathInv
  <1>1. Shrinks
    BY DEF Shrinks, Take, Read, ReadEnd, Remove, Drop, wires, relay, loops
  <1>2. CASE Take(s)
    <2>1. Still
      BY <1>0, <1>2, RcvFacts DEF Still, Take, Alive, Rcv, UsersOK, table, MuxInv, TypeOK
    <2> QED
      BY <1>1, <2>1
  <1>3. CASE Read(s)
    <2>1. /\ got[s] \in Seq(Stream \X Nat) /\ inbound[s] \in Seq(Stream \X Nat) /\ inbound[s] # <<>>
          /\ got'[s] = Append(got[s], Head(inbound[s])) /\ inbound'[s] = Tail(inbound[s])
          /\ \A t \in Stream : t # s => got'[t] = got[t] /\ inbound'[t] = inbound[t]
      BY <1>3 DEF Read, MuxInv, TypeOK
    <2>2. ASSUME NEW t \in Stream PROVE Rcv(t)' = Rcv(t)
      <3>1. Append(got[s], Head(inbound[s])) \o Tail(inbound[s]) = got[s] \o inbound[s]
        BY <2>1, Regroup
      <3> QED
        BY <2>1, <3>1 DEF Rcv
    <2>3. Still
      BY <1>0, <1>3, <2>1, <2>2, RcvFacts DEF Still, Read, Alive, UsersOK, table
    <2> QED
      BY <1>1, <2>3
  <1>4. CASE ReadEnd(s)
    BY <1>0, <1>1, <1>4, StillUnread DEF ReadEnd, table
  <1>5. CASE Remove(s)
    <2>1. ASSUME NEW t \in streams \ streams' PROVE ~Alive(t)
      <3>1. s.at \in End /\ TypeOK
        BY StreamParts DEF MuxInv
      <3>2. t = s /\ s \in removing
        BY <1>5, <2>1, <3>1, EntriesAre, EndAtIs DEF Remove
      <3> QED
        BY <1>0, <3>2 DEF UsersOK, Alive
    <2> QED
      BY <1>0, <1>1, <1>5, <2>1, RcvFacts DEF Still, Remove, Alive, Rcv, UsersOK, users
  <1>6. CASE Drop(s) /\ s \in sent_close
    <2>1. /\ got[s] \in Seq(Stream \X Nat) /\ inbound[s] \in Seq(Stream \X Nat)
          /\ inbound'[s] = <<>> /\ got' = got
          /\ \A t \in Stream : t # s => inbound'[t] = inbound[t]
          /\ phase'[s] = "dropped" /\ \A t \in Stream : t # s => phase'[t] = phase[t]
          /\ phase[s] \in {"incoming", "held"}
      BY <1>6 DEF Drop, MuxInv, TypeOK
    <2>2. \A t \in Stream : t # s => Rcv(t)' = Rcv(t)
      BY <2>1 DEF Rcv
    <2>3. Rcv(s)' = got[s]
      BY <2>1 DEF Rcv
    <2>4. UNCHANGED <<opened, streams, wrote, sent_close>> /\ removing' = removing \cup {s}
      BY <1>6 DEF Drop
    <2>5. \A t \in Stream : /\ Len(Rcv(t)') <= Len(Rcv(t))
                            /\ \A k \in 1 .. Len(Rcv(t)') : Rcv(t)'[k] = Rcv(t)[k]
      <3>1. \A t \in Stream : Len(Rcv(t)) \in Nat
        BY RcvFacts
      <3>2. /\ Len(got[s]) <= Len(Rcv(s))
            /\ \A k \in 1 .. Len(got[s]) : got[s][k] = Rcv(s)[k]
        <4>1. /\ Len(Rcv(s)) = Len(got[s]) + Len(inbound[s])
              /\ Len(got[s]) \in Nat /\ Len(inbound[s]) \in Nat
              /\ \A k \in 1 .. Len(got[s]) : Rcv(s)[k] = got[s][k]
          BY RcvFacts
        <4>2. Len(got[s]) <= Len(Rcv(s))
          <5>1. \A a, b \in Nat : b <= b + a
            OBVIOUS
          <5> QED
            BY <4>1, <5>1, Zenon
        <4>3. \A k \in 1 .. Len(got[s]) : got[s][k] = Rcv(s)[k]
          BY <4>1, Zenon
        <4> QED
          BY <4>2, <4>3
      <3>3. ASSUME NEW t \in Stream, t # s
            PROVE  Len(Rcv(t)') <= Len(Rcv(t)) /\ \A k \in 1 .. Len(Rcv(t)') : Rcv(t)'[k] = Rcv(t)[k]
        BY <2>2, <3>1, <3>3
      <3>4. Len(Rcv(s)') <= Len(Rcv(s)) /\ \A k \in 1 .. Len(Rcv(s)') : Rcv(s)'[k] = Rcv(s)[k]
        BY <2>3, <3>2
      <3> QED
        BY <3>3, <3>4
    <2>6. \A t \in removing : phase[t] = "dropped" /\ t \in Stream
      BY <1>0 DEF UsersOK, MuxInv, TypeOK
    <2>7. \A t \in Stream : Alive(t)' => Alive(t) /\ Rcv(t)' = Rcv(t)
      BY <2>1, <2>2 DEF Alive
    <2>8. Still
      BY <2>1, <2>4, <2>5, <2>6, <2>7 DEF Still
    <2> QED
      BY <1>1, <2>8
  <1> QED
    BY <1>2, <1>3, <1>4, <1>5, <1>6

LEMMA SocketsShrink ==
    ASSUME MuxInv, PathInv, NEW e \in End,
           \/ Lend(e) \/ Abandon(e) \/ WriteFails(e) \/ WriterDone(e) \/ ReaderEnds(e)
           \/ SocketEnds(e) \/ Unregister(e)
    PROVE  Shrinks /\ Still
  <1>1. Still
    BY StillUnread DEF Lend, Abandon, WriteFails, WriterDone, ReaderEnds, SocketEnds, Unregister,
                       table, users, PathInv
  <1>2. outbound \in [End -> Seq(FrameType)] /\ inbox \in [End -> Seq(FrameType)]
    BY DEF MuxInv, TypeOK
  <1>3. CASE Lend(e) \/ Abandon(e) \/ WriterDone(e) \/ SocketEnds(e)
    <2>1. Shrinks
      BY <1>3 DEF Shrinks, Lend, Abandon, WriterDone, SocketEnds, wires, relay, loops
    <2> QED
      BY <1>1, <2>1
  <1>4. CASE WriteFails(e) \/ ReaderEnds(e)
    <2>1. Shrinks
      BY <1>2, <1>4 DEF Shrinks, WriteFails, ReaderEnds, relay
    <2> QED
      BY <1>1, <2>1
  <1>5. CASE Unregister(e)
    <2>1. Shrinks
      BY <1>5 DEF Shrinks, Unregister, loops
    <2> QED
      BY <1>1, <2>1
  <1> QED
    BY <1>3, <1>4, <1>5

LEMMA StutterShrinks ==
    ASSUME MuxInv, PathInv, UNCHANGED vars
    PROVE  Shrinks /\ Still
  BY StillUnread DEF Shrinks, PathInv, vars, table, wires, relay, loops, users

-----------------------------------------------------------------------------
(* The paths of the frames, action by action. First what a user sends. *)

LEMMA SendFacts ==
    ASSUME MuxInv, NEW s \in Stream, Write(s) \/ Shutdown(s) \/ Drop(s), s \notin sent_close
    PROVE  /\ \E f \in FrameType :
                 /\ f.from = s /\ f.n = wrote[s] + 1 /\ outbound' = Sent(s, f)
                 /\ \/ f.type = "Data" /\ wrote'[s] = f.n /\ sent_close' = sent_close /\ s.at \in writing
                    \/ f.type = "Close" /\ wrote'[s] = wrote[s] /\ sent_close' = sent_close \cup {s}
           /\ UNCHANGED <<opened, streams, inbox, pending, relay, loops, got>>
           /\ \A t \in Stream : t # s => /\ wrote'[t] = wrote[t] /\ phase'[t] = phase[t]
                                         /\ inbound'[t] = inbound[t]
           /\ phase[s] \in {"incoming", "held"}
           /\ (phase'[s] = phase[s] /\ inbound'[s] = inbound[s]) \/ (phase'[s] = "dropped" /\ inbound'[s] = <<>>)
           /\ removing' \subseteq removing \cup {s} /\ (removing' # removing => phase'[s] = "dropped")
  <1>1. wrote[s] \in Nat /\ wrote[s] + 1 \in Nat
    BY DEF MuxInv, TypeOK
  <1>2. /\ Frame("Data", s, wrote[s] + 1) \in FrameType
        /\ Frame("Close", s, wrote[s] + 1) \in FrameType
    BY <1>1 DEF Frame, FrameType
  <1>3. CASE Write(s)
    <2>1. /\ outbound' = Sent(s, Frame("Data", s, wrote[s] + 1)) /\ wrote'[s] = wrote[s] + 1
          /\ sent_close' = sent_close /\ s.at \in writing
      BY <1>3 DEF Write, MuxInv, TypeOK
    <2>2. \E f \in FrameType :
                 /\ f.from = s /\ f.n = wrote[s] + 1 /\ outbound' = Sent(s, f)
                 /\ f.type = "Data" /\ wrote'[s] = f.n /\ sent_close' = sent_close /\ s.at \in writing
      BY <1>2, <2>1 DEF Frame
    <2> QED
      BY <1>3, <2>2 DEF Write, MuxInv, TypeOK, table
  <1>4. CASE Shutdown(s) \/ Drop(s)
    <2>1. /\ outbound' = Sent(s, Frame("Close", s, wrote[s] + 1)) /\ wrote' = wrote
          /\ sent_close' = sent_close \cup {s}
      BY <1>4 DEF Shutdown, Drop
    <2>2. \E f \in FrameType :
                 /\ f.from = s /\ f.n = wrote[s] + 1 /\ outbound' = Sent(s, f)
                 /\ f.type = "Close" /\ wrote'[s] = wrote[s] /\ sent_close' = sent_close \cup {s}
      BY <1>2, <2>1 DEF Frame
    <2>3. CASE Shutdown(s)
      BY <2>1, <2>2, <2>3 DEF Shutdown, table
    <2>4. CASE Drop(s)
      BY <2>1, <2>2, <2>4 DEF Drop, MuxInv, TypeOK
    <2> QED
      BY <1>4, <2>3, <2>4
  <1> QED
    BY <1>3, <1>4

LEMMA SendPath ==
    ASSUME MuxInv, MuxInv', PathInv, NEW s \in Stream, Write(s) \/ Shutdown(s) \/ Drop(s), s \notin sent_close
    PROVE  PathInv' /\ \E f \in FrameType : f.from = s /\ Frames' \subseteq Frames \cup {f}
  <1>1. PICK f \in FrameType :
           /\ f.from = s /\ f.n = wrote[s] + 1 /\ outbound' = Sent(s, f)
           /\ \/ f.type = "Data" /\ wrote'[s] = f.n /\ sent_close' = sent_close /\ s.at \in writing
              \/ f.type = "Close" /\ wrote'[s] = wrote[s] /\ sent_close' = sent_close \cup {s}
    BY SendFacts
  <1>2. /\ UNCHANGED <<opened, streams, inbox, pending, relay, loops, got>>
        /\ \A t \in Stream : t # s => /\ wrote'[t] = wrote[t] /\ phase'[t] = phase[t]
                                      /\ inbound'[t] = inbound[t]
        /\ phase[s] \in {"incoming", "held"}
        /\ (phase'[s] = phase[s] /\ inbound'[s] = inbound[s]) \/ (phase'[s] = "dropped" /\ inbound'[s] = <<>>)
        /\ removing' \subseteq removing \cup {s} /\ (removing' # removing => phase'[s] = "dropped")
    BY SendFacts
  <1>3. \A g \in Frames : g \in FrameType /\ g.n \in Nat /\ (g.from = s => g.n < f.n)
    <2>1. \A g \in Frames : g \in FrameType /\ g.n \in Nat
      BY WireFrames, FrameParts
    <2>2. \A g \in Frames : g.from = s => g.n <= wrote[s]
      BY OlderFrames DEF PathInv
    <2>3. wrote[s] \in Nat
      BY DEF MuxInv, TypeOK
    <2> QED
      BY <1>1, <2>1, <2>2, <2>3
  <1>4. OrderOK' /\ Frames' \subseteq Frames \cup {f}
    BY <1>1, <1>2, <1>3, OrderSent DEF PathInv, relay, loops
  <1>5. wrote[s] \in Nat /\ wrote'[s] \in Nat /\ f.n \in Nat /\ f.n # 0 /\ wrote[s] <= wrote'[s]
    BY <1>1 DEF MuxInv, TypeOK
  <1>6. \A t \in Stream : phase'[t] = "none" <=> phase[t] = "none"
    BY <1>2
  <1>7. FramesOK'
    <2>1. Said(f)'
      BY <1>1, <1>2, <1>5 DEF Said
    <2>2. ASSUME NEW g \in Frames PROVE Said(g)'
      <3>1. g \in FrameType /\ Said(g) /\ g.from \in Stream /\ g.n \in Nat
        BY WireFrames, FrameParts DEF PathInv, FramesOK
      <3>2. g.from # s => wrote'[g.from] = wrote[g.from]
        BY <1>2, <3>1
      <3>3. CASE g.from = s
        <4>1. wrote[g.from] \in Nat /\ wrote'[g.from] \in Nat /\ wrote[g.from] <= wrote'[g.from]
              /\ g.from \notin sent_close /\ (phase[g.from] # "none" => phase'[g.from] # "none")
          BY <1>5, <1>6, <3>3
        <4> QED
          BY <3>1, <4>1, SaidKept
      <3>4. CASE g.from # s
        <4>1. g.from \in sent_close <=> g.from \in sent_close'
          BY <1>1, <3>4
        <4> QED
          BY <1>6, <3>1, <3>2, <3>4, <4>1 DEF Said
      <3> QED
        BY <3>3, <3>4
    <2> QED
      BY <1>4, <2>1, <2>2 DEF FramesOK
  <1>8. RelayOK'
    BY <1>2, <1>6 DEF PathInv, RelayOK, relay, loops
  <1>9. UsersOK'
    <2>1. UsersOK
      BY DEF PathInv
    <2>2. \A t \in Stream : phase'[t] = "none" => t # s /\ wrote'[t] = wrote[t] /\ inbound'[t] = inbound[t]
      BY <1>2
    <2>3. \A t \in Stream : t # s => (t \in sent_close' <=> t \in sent_close)
      BY <1>1
    <2>4. streams \subseteq Stream /\ removing \subseteq Stream
      BY DEF MuxInv, TypeOK
    <2> QED
      BY <1>2, <1>6, <2>1, <2>2, <2>3, <2>4 DEF UsersOK
  <1>10. OnceOK'
    <2>1. ASSUME NEW t \in Stream, Waits(t)' PROVE Waits(t)
      <3>1. t.at \in End
        BY StreamParts
      <3>2. Range(outbound'[t.at]) \subseteq Range(outbound[t.at]) \cup {f}
        <4>1. outbound[t.at] \in Seq(FrameType)
          BY <3>1, WireFrames
        <4>2. outbound'[t.at] = outbound[t.at] \/ outbound'[t.at] = Append(outbound[t.at], f)
          BY <1>1, <3>1 DEF Sent, MuxInv, TypeOK
        <4> QED
          BY <4>1, <4>2, RangeAppend
      <3> QED
        BY <1>2, <1>5, <2>1, <3>2 DEF Waits, Opens
    <2>2. \A t, u \in Stream : Taken(t, u)' => Taken(t, u)
      BY <1>2, <1>6 DEF Taken, Opens
    <2> QED
      BY <2>1, <2>2, OnceKept DEF PathInv
  <1> QED
    BY <1>1, <1>4, <1>7, <1>8, <1>9, <1>10 DEF PathInv

LEMMA OpenFacts ==
    ASSUME MuxInv, PathInv, NEW e \in End, Open(e)
    PROVE  \E s \in Stream, f \in FrameType :
              /\ s.at = e /\ s.by = e /\ s.n = opened[e] + 1 /\ phase[s] = "none"
              /\ \A t \in Stream : AreEnds(s, t) \/ AreEnds(t, s) => phase[t] = "none"
              /\ f.from = s /\ f.type = "Open" /\ f.n = 0
              /\ opened' = [opened EXCEPT ![e] = @ + 1]
              /\ streams' = Inserted(s) /\ outbound' = Sent(s, f)
              /\ phase'[s] \in {"held", "dropped"}
              /\ \A t \in Stream : t # s => phase'[t] = phase[t]
              /\ UNCHANGED <<removing, inbox, pending, relay, loops, sent_close, inbound, wrote, got, ended>>
  <1>1. opened[e] \in Nat /\ opened[e] + 1 \in 1 .. MaxOpens[e]
    BY MuxAssumption DEF Open, MuxInv, TypeOK, End
  <1>2. PICK s \in Stream : s = [at |-> e, by |-> e, n |-> opened[e] + 1]
    BY <1>1, StreamMade
  <1>3. s.at = e /\ s.by = e /\ s.n = opened[e] + 1
    BY <1>2
  <1>4. \A t \in Stream : t.by = e /\ t.n = s.n => phase[t] = "none"
    BY <1>1, <1>3 DEF MuxInv, PhasesOK, Counted
  <1>5. phase[s] = "none" /\ \A t \in Stream : AreEnds(s, t) \/ AreEnds(t, s) => phase[t] = "none"
    BY <1>3, <1>4 DEF AreEnds
  <1>6. Frame("Open", s, 0) \in FrameType /\ Frame("Open", s, 0).from = s
        /\ Frame("Open", s, 0).type = "Open" /\ Frame("Open", s, 0).n = 0
    BY DEF Frame, FrameType
  <1>7. /\ opened' = [opened EXCEPT ![e] = @ + 1]
        /\ streams' = Inserted(s) /\ outbound' = Sent(s, Frame("Open", s, 0))
        /\ phase'[s] \in {"held", "dropped"}
        /\ \A t \in Stream : t # s => phase'[t] = phase[t]
        /\ UNCHANGED <<removing, inbox, pending, relay, loops, sent_close, inbound, wrote, got, ended>>
    BY <1>2 DEF Open, MuxInv, TypeOK
  <1> QED
    BY <1>3, <1>5, <1>6, <1>7

LEMMA OpenPath ==
    ASSUME MuxInv, MuxInv', PathInv, Alone, NEW e \in End, Open(e)
    PROVE  PathInv'
  <1>1. PICK s \in Stream, f \in FrameType :
           /\ s.at = e /\ s.by = e /\ s.n = opened[e] + 1 /\ phase[s] = "none"
           /\ \A t \in Stream : AreEnds(s, t) \/ AreEnds(t, s) => phase[t] = "none"
           /\ f.from = s /\ f.type = "Open" /\ f.n = 0
           /\ opened' = [opened EXCEPT ![e] = @ + 1]
           /\ streams' = Inserted(s) /\ outbound' = Sent(s, f)
           /\ phase'[s] \in {"held", "dropped"}
           /\ \A t \in Stream : t # s => phase'[t] = phase[t]
           /\ UNCHANGED <<removing, inbox, pending, relay, loops, sent_close, inbound, wrote, got, ended>>
    BY OpenFacts
  <1>2. \A g \in Frames : g.from # s
    BY <1>1, NoneIsQuiet DEF PathInv
  <1>3. OrderOK' /\ Frames' \subseteq Frames \cup {f}
    BY <1>1, <1>2, OrderSent DEF PathInv, relay, loops
  <1>4. \A t \in Stream : phase[t] # "none" => t # s /\ phase'[t] = phase[t]
    BY <1>1
  <1>5. FramesOK'
    <2>1. Said(f)'
      BY <1>1 DEF Said
    <2>2. ASSUME NEW g \in Frames PROVE Said(g)'
      <3>1. Said(g) /\ g.from \in Stream
        BY WireFrames, FrameParts DEF PathInv, FramesOK
      <3> QED
        BY <1>1, <1>4, <3>1 DEF Said
    <2> QED
      BY <1>3, <2>1, <2>2 DEF FramesOK
  <1>6. RelayOK'
    <2>1. \A t \in Stream : phase'[t] # "none" /\ t.at # t.by => t.at \in joined /\ t.by \in joined
      BY <1>1 DEF PathInv, RelayOK
    <2> QED
      BY <1>1, <2>1 DEF PathInv, RelayOK, relay, loops
  <1>7. UsersOK'
    <2>1. UsersOK
      BY DEF PathInv
    <2>2. streams' = streams \cup {s}
      BY <1>1, InsertedIs DEF MuxInv
    <2>3. ASSUME NEW t \in Stream, t.at = t.by, t.n <= opened'[t.by] PROVE phase'[t] # "none"
      <3>1. /\ t.by \in End /\ t.n \in Nat /\ t = [at |-> t.at, by |-> t.by, n |-> t.n]
            /\ s = [at |-> s.at, by |-> s.by, n |-> s.n]
        BY StreamParts
      <3>2. opened[t.by] \in Nat /\ (t.by # e => opened'[t.by] = opened[t.by])
            /\ (t.by = e => opened'[t.by] = opened[t.by] + 1)
        BY <1>1, <3>1 DEF MuxInv, TypeOK
      <3>3. CASE t.by = e /\ t.n = opened[e] + 1
        <4>1. t = s
          BY <1>1, <2>3, <3>1, <3>3
        <4> QED
          BY <1>1, <4>1
      <3>4. CASE ~(t.by = e /\ t.n = opened[e] + 1)
        <4>1. t.n <= opened[t.by]
          BY <2>3, <3>1, <3>2, <3>4
        <4>2. phase[t] # "none"
          BY <2>1, <2>3, <4>1 DEF UsersOK
        <4> QED
          BY <1>4, <4>2
      <3> QED
        BY <3>3, <3>4
    <2>4. \A t \in Stream : phase'[t] = "none" => phase[t] = "none"
      BY <1>4
    <2>5. \A t \in removing : t \in Stream /\ phase[t] = "dropped"
      BY <2>1 DEF UsersOK, MuxInv, TypeOK
    <2>6. \A t \in removing' : phase'[t] = "dropped"
      BY <1>1, <1>4, <2>5
    <2>7. \A t \in streams' : phase'[t] # "none"
      BY <1>1, <1>4, <2>1, <2>2 DEF UsersOK, MuxInv, TypeOK
    <2> QED
      BY <1>1, <2>1, <2>3, <2>4, <2>6, <2>7 DEF UsersOK
  <1>8. OnceOK'
    <2>1. ASSUME NEW t \in Stream, NEW u \in Stream, AreEnds(t, u), t.at = t.by
          PROVE  Taken(t, u)' <=> Taken(t, u)
      <3>1. u # s
        BY <1>1, <2>1, OwnIsNoMate
      <3> QED
        BY <1>1, <3>1 DEF Taken, Opens
    <2>2. ASSUME NEW t \in Stream, t # s, Waits(t)' PROVE Waits(t)
      <3>1. t.at \in End
        BY StreamParts
      <3>2. Range(outbound'[t.at]) \subseteq Range(outbound[t.at]) \cup {f}
        <4>1. outbound[t.at] \in Seq(FrameType)
          BY <3>1, WireFrames
        <4>2. outbound'[t.at] = outbound[t.at] \/ outbound'[t.at] = Append(outbound[t.at], f)
          BY <1>1, <3>1 DEF Sent, MuxInv, TypeOK
        <4> QED
          BY <4>1, <4>2, RangeAppend
      <3> QED
        BY <1>1, <2>2, <3>2 DEF Waits, Opens
    <2>3. ASSUME NEW u \in Stream, AreEnds(s, u) PROVE ~Taken(s, u)
      <3>1. u.at \in End /\ phase[u] = "none"
        BY <1>1, <2>3, StreamParts
      <3> QED
        BY <1>2, <3>1 DEF Taken, Opens, Frames
    <2>4. OnceOK
      BY DEF PathInv
    <2> SUFFICES ASSUME NEW t \in Stream, NEW u \in Stream, AreEnds(t, u), t.at = t.by
                 PROVE  /\ \A v \in Stream : AreEnds(t, v) /\ Taken(t, u)' /\ Taken(t, v)' => u = v
                        /\ Waits(t)' => ~Taken(t, u)'
      BY DEF OnceOK
    <2> QED
      BY <2>1, <2>2, <2>3, <2>4 DEF OnceOK
  <1> QED
    BY <1>3, <1>5, <1>6, <1>7, <1>8 DEF PathInv

-----------------------------------------------------------------------------
(* What a read loop takes. *)

LEMMA ReceivedPath ==
    ASSUME MuxInv, PathInv, NEW e \in End, Received(e),
           UNCHANGED <<outbound, pending, relay, loops, sent_close, wrote>>,
           \A t \in Stream : phase[t] # "none" => phase'[t] # "none",
           \A t \in Stream : phase[t] = "none" /\ phase'[t] # "none" => t.at \in joined /\ t.by \in joined,
           \A s, t \in Stream : AreEnds(s, t) /\ s.at = s.by /\ phase'[t] # "none" => Taken(s, t)
    PROVE  OrderOK' /\ RelayOK' /\ FramesOK' /\ OnceOK' /\ Frames' \subseteq Frames
  <1>1. /\ OrderOK' /\ Frames' \subseteq Frames
        /\ \A p \in End : Range(inbox'[p]) \subseteq Range(inbox[p])
    BY OrderReceived DEF PathInv, relay, loops
  <1>2. inbox[e] # <<>> /\ \A p \in End : p # e => inbox'[p] = inbox[p]
    BY DEF Received, MuxInv, TypeOK
  <1>3. RelayOK'
    <2>1. \A t \in Stream : phase'[t] # "none" /\ t.at # t.by => t.at \in joined /\ t.by \in joined
      BY DEF PathInv, RelayOK
    <2>2. \A p \in End : p \notin joined => inbox'[p] = <<>>
      BY <1>2 DEF PathInv, RelayOK
    <2>3. \A p \in End : \A g \in Range(inbox'[p]) : g.from.at \in joined
      BY <1>1 DEF PathInv, RelayOK
    <2> QED
      BY <2>1, <2>2, <2>3 DEF PathInv, RelayOK, relay
  <1>4. FramesOK'
    <2> SUFFICES ASSUME NEW g \in Frames PROVE Said(g)'
      BY <1>1 DEF FramesOK
    <2>1. g.from \in Stream /\ Said(g)
      BY WireFrames, FrameParts DEF PathInv, FramesOK
    <2> QED
      BY <2>1 DEF Said
  <1>5. OnceOK'
    <2>1. ASSUME NEW s \in Stream, NEW t \in Stream, AreEnds(s, t), s.at = s.by, Taken(s, t)'
          PROVE  Taken(s, t)
      <3>1. t.at \in End
        BY StreamParts
      <3> QED
        BY <1>1, <2>1, <3>1 DEF Taken, Opens
    <2>2. ASSUME NEW s \in Stream, Waits(s)' PROVE Waits(s)
      BY <2>2 DEF Waits, Opens
    <2> QED
      BY <2>1, <2>2, OnceKept DEF PathInv
  <1> QED
    BY <1>1, <1>3, <1>4, <1>5

LEMMA ReceivedFacts ==
    ASSUME MuxInv, PathInv, NEW e \in End, Received(e), NEW f, f = Head(inbox[e])
    PROVE  /\ f \in Range(inbox[e]) /\ f \in SentTo(e) /\ f \in FrameType /\ f \in Frames /\ Said(f)
           /\ f.from \in Stream /\ e \in Peers(f.from.at) /\ f.from.at \in joined /\ e \in joined
           /\ e \in reading
  <1>1. f \in Range(inbox[e]) /\ inbox[e] # <<>> /\ e \in reading
    <2>1. inbox[e] \in Seq(FrameType) /\ inbox[e] # <<>> /\ e \in reading
      BY DEF Received, MuxInv, TypeOK
    <2> QED
      BY <2>1, RangeTail
  <1>2. f \in SentTo(e) /\ f \in FrameType /\ f \in Frames /\ Said(f)
    BY <1>1, WireFrames DEF PathInv, FramesOK, Frames
  <1>3. f.from \in Stream /\ e \in Peers(f.from.at)
    BY <1>2, FrameParts DEF SentTo
  <1>4. f.from.at \in joined /\ e \in joined
    BY <1>1 DEF PathInv, RelayOK
  <1> QED
    BY <1>1, <1>2, <1>3, <1>4

LEMMA ReadOpenFacts ==
    ASSUME MuxInv, PathInv, WaysOK, NEW e \in End, ReadOpen(e), NEW f, f = Head(inbox[e])
    PROVE  \E s \in Stream :
              /\ s = EndAt(e, f.from) /\ s.at = e /\ s.at # s.by /\ AreEnds(s, f.from) /\ AreEnds(f.from, s)
              /\ f.from.at = f.from.by /\ s.by = f.from.by /\ f.n = 0
              /\ phase[s] = "none" /\ Taken(f.from, s)
              /\ streams' = Inserted(s) /\ phase' = [phase EXCEPT ![s] = "incoming"]
              /\ UNCHANGED <<opened, removing, lent, outbound, pending, relay, loops,
                             sent_close, inbound, wrote, got, ended>>
  <1>1. /\ Received(e) /\ f.type = "Open"
        /\ UNCHANGED <<opened, removing, lent, outbound, pending, relay, loops,
                       sent_close, inbound, wrote, got, ended>>
    BY DEF ReadOpen
  <1>2. /\ f \in Range(inbox[e]) /\ f \in SentTo(e) /\ f \in FrameType /\ Said(f)
        /\ f.from \in Stream /\ e \in Peers(f.from.at)
    BY <1>1, ReceivedFacts
  <1>3. f.from.by = f.from.at /\ f.n = 0
    BY <1>1, <1>2 DEF SentTo, Said
  <1>4. PICK s \in Stream : s = [at |-> e, by |-> f.from.by, n |-> f.from.n]
    BY <1>2, <1>3, StreamParts, StreamMade
  <1>5. s.at = e /\ s.by = f.from.by /\ s.n = f.from.n /\ s = EndAt(e, f.from)
    BY <1>4 DEF EndAt
  <1>6. AreEnds(s, f.from) /\ AreEnds(f.from, s) /\ s.at # s.by
    <2>1. f.from.at \in End
      BY <1>2, StreamParts
    <2>2. f.from.at \in Peers(e) /\ e # f.from.at
      BY <1>2, <2>1, Sides
    <2> QED
      BY <1>2, <1>3, <1>5, <2>2 DEF AreEnds
  <1>7. phase[s] = "none"
    <2>1. f \in OnWay(s.at, f.from)
      BY <1>2, <1>5 DEF OnWay, From
    <2>2. phase[s] # "none" => \A g \in OnWay(s.at, f.from) : g.n > 0
      BY <1>2, <1>6 DEF WaysOK, WayOK
    <2> QED
      BY <1>3, <2>1, <2>2
  <1>8. Taken(f.from, s)
    BY <1>2, <1>3, <1>5 DEF Taken, Opens
  <1>9. streams' = Inserted(s) /\ phase' = [phase EXCEPT ![s] = "incoming"]
    BY <1>4 DEF ReadOpen
  <1> QED
    BY <1>1, <1>3, <1>5, <1>6, <1>7, <1>8, <1>9

LEMMA ReadOpenPath ==
    ASSUME MuxInv, PathInv, WaysOK, Alone, NEW e \in End, ReadOpen(e)
    PROVE  PathInv'
  <1>1. PICK f : f = Head(inbox[e])
    OBVIOUS
  <1>2. PICK s \in Stream :
           /\ s = EndAt(e, f.from) /\ s.at = e /\ s.at # s.by /\ AreEnds(s, f.from) /\ AreEnds(f.from, s)
           /\ f.from.at = f.from.by /\ s.by = f.from.by /\ f.n = 0
           /\ phase[s] = "none" /\ Taken(f.from, s)
           /\ streams' = Inserted(s) /\ phase' = [phase EXCEPT ![s] = "incoming"]
           /\ UNCHANGED <<opened, removing, lent, outbound, pending, relay, loops,
                          sent_close, inbound, wrote, got, ended>>
    BY <1>1, ReadOpenFacts
  <1>3. Received(e)
    BY DEF ReadOpen
  <1>4. f.from \in Stream /\ f.from.at \in joined /\ e \in joined
    BY <1>1, <1>3, ReceivedFacts
  <1>5. phase'[s] = "incoming" /\ \A t \in Stream : t # s => phase'[t] = phase[t]
    BY <1>2 DEF MuxInv, TypeOK
  <1>6. ASSUME NEW r \in Stream, NEW t \in Stream, AreEnds(r, t), r.at = r.by, phase'[t] # "none"
        PROVE  Taken(r, t)
    <2>1. CASE t = s
      <3>1. AreEnds(s, r)
        BY <1>6, <2>1, EndAtIs
      <3>2. r = f.from
        BY <1>2, <1>4, <3>1, OneMateAway
      <3> QED
        BY <1>2, <2>1, <3>2
    <2>2. CASE t # s
      BY <1>5, <1>6, <2>2 DEF Taken
    <2> QED
      BY <2>1, <2>2
  <1>7. /\ \A t \in Stream : phase[t] # "none" => phase'[t] # "none"
        /\ \A t \in Stream : phase[t] = "none" /\ phase'[t] # "none" => t.at \in joined /\ t.by \in joined
    BY <1>2, <1>4, <1>5
  <1>8. OrderOK' /\ RelayOK' /\ FramesOK' /\ OnceOK'
    BY <1>2, <1>3, <1>6, <1>7, ReceivedPath
  <1>9. UsersOK'
    <2>1. UsersOK
      BY DEF PathInv
    <2>2. streams' = streams \cup {s}
      BY <1>2, InsertedIs DEF MuxInv
    <2>3. \A t \in Stream : phase'[t] = "none" => phase[t] = "none"
      BY <1>7
    <2>4. \A t \in removing' : phase'[t] = "dropped"
      BY <1>2, <1>5, <2>1 DEF UsersOK, MuxInv, TypeOK
    <2>5. \A t \in streams' : phase'[t] # "none"
      BY <1>5, <1>7, <2>1, <2>2 DEF UsersOK, MuxInv, TypeOK
    <2>6. \A t \in Stream : t.at = t.by /\ t.n <= opened'[t.by] => phase'[t] # "none"
      BY <1>2, <1>7, <2>1 DEF UsersOK
    <2> QED
      BY <1>2, <2>1, <2>3, <2>4, <2>5, <2>6 DEF UsersOK
  <1> QED
    BY <1>8, <1>9 DEF PathInv

(* Data and Close for a stream end that is in the table, or for none. *)
LEMMA ReadDataFacts ==
    ASSUME MuxInv, Alone, PathInv, NEW e \in End, ReadData(e), NEW f, f = Head(inbox[e])
    PROVE  /\ Received(e) /\ f.type = "Data"
           /\ UNCHANGED <<table, outbound, pending, relay, loops, phase, sent_close, wrote, got, ended>>
           /\ \A s \in Stream : inbound'[s] =
                 IF s = EndAt(e, f.from) /\ s \in streams /\ phase[s] # "dropped"
                   THEN Append(inbound[s], <<f.from, f.n>>) ELSE inbound[s]
  <1>1. /\ Received(e) /\ f.type = "Data"
        /\ UNCHANGED <<table, outbound, pending, relay, loops, phase, sent_close, wrote, got, ended>>
    BY DEF ReadData
  <1>2. Entries(e, Id(f.from)) = streams \cap {EndAt(e, f.from)}
    BY <1>1, ReceivedFacts, EntriesAre DEF MuxInv
  <1>3. inbound' = [s \in Stream |->
                      IF s \in {r \in Entries(e, Id(f.from)) : phase[r] # "dropped"}
                        THEN Append(inbound[s], <<f.from, f.n>>) ELSE inbound[s]]
    BY DEF ReadData
  <1>4. ASSUME NEW s \in Stream
        PROVE  inbound'[s] =
                 IF s = EndAt(e, f.from) /\ s \in streams /\ phase[s] # "dropped"
                   THEN Append(inbound[s], <<f.from, f.n>>) ELSE inbound[s]
    BY <1>2, <1>3
  <1> QED
    BY <1>1, <1>4

LEMMA ReadCloseFacts ==
    ASSUME MuxInv, Alone, PathInv, NEW e \in End, ReadClose(e), NEW f, f = Head(inbox[e])
    PROVE  /\ Received(e) /\ f.type = "Close"
           /\ UNCHANGED <<opened, removing, lent, outbound, pending, relay, loops, users>>
           /\ streams' = streams \ {EndAt(e, f.from)}
  <1>1. /\ Received(e) /\ f.type = "Close"
        /\ UNCHANGED <<opened, removing, lent, outbound, pending, relay, loops, users>>
        /\ streams' = streams \ Entries(e, Id(f.from))
    BY DEF ReadClose
  <1>2. Entries(e, Id(f.from)) = streams \cap {EndAt(e, f.from)}
    BY <1>1, ReceivedFacts, EntriesAre DEF MuxInv
  <1> QED
    BY <1>1, <1>2

LEMMA ReadPath ==
    ASSUME MuxInv, PathInv, Alone, NEW e \in End, ReadData(e) \/ ReadClose(e)
    PROVE  PathInv'
  <1>0. PICK f : f = Head(inbox[e])
    OBVIOUS
  <1>1. /\ Received(e) /\ streams' \subseteq streams
        /\ UNCHANGED <<opened, removing, outbound, pending, relay, loops, phase, sent_close, wrote, got>>
    BY DEF ReadData, ReadClose, users, table
  <1>2. \A s, t \in Stream : phase'[t] # "none" => Taken(s, t)
    BY <1>1 DEF Taken
  <1>3. OrderOK' /\ RelayOK' /\ FramesOK' /\ OnceOK'
    BY <1>1, <1>2, ReceivedPath
  <1>4. UsersOK'
    <2>1. UsersOK
      BY DEF PathInv
    <2>2. \A s \in Stream : phase[s] = "none" => inbound'[s] = inbound[s]
      <3>1. CASE ReadData(e)
        BY <1>0, <2>1, <3>1, ReadDataFacts DEF UsersOK
      <3>2. CASE ReadClose(e)
        BY <3>2 DEF ReadClose, users
      <3> QED
        BY <3>1, <3>2
    <2> QED
      BY <1>1, <2>1, <2>2 DEF UsersOK
  <1> QED
    BY <1>3, <1>4 DEF PathInv

-----------------------------------------------------------------------------
(* What the relay does. *)

LEMMA UsersSame ==
    ASSUME UNCHANGED <<table, users>>, UsersOK
    PROVE  UsersOK'
  BY DEF UsersOK, table, users

LEMMA FramesSame ==
    ASSUME UNCHANGED users, FramesOK, Frames' \subseteq Frames
    PROVE  FramesOK'
  BY DEF FramesOK, Said, users

LEMMA WriteFramePath ==
    ASSUME MuxInv, PathInv, Alone, NEW e \in End, WriteFrame(e)
    PROVE  PathInv'
  <1>0. PICK f : f = Head(outbound[e])
    OBVIOUS
  <1>a. OrderOK /\ RelayOK /\ FramesOK /\ UsersOK /\ OnceOK
    BY DEF PathInv
  <1>1. /\ f \in Range(outbound[e]) /\ f \in FrameType /\ f \in Frames
        /\ f.from \in Stream /\ f.from.at = e
        /\ Range(outbound[e]) = {f} \cup Range(outbound'[e])
        /\ \A g \in Range(outbound'[e]) : g.from = f.from => f.n < g.n
        /\ \A b \in End : b # e => outbound'[b] = outbound[b]
        /\ Targets(e) \subseteq Peers(e)
        /\ UNCHANGED <<table, joined, left, route, loops, users>>
        /\ pending' = IF e \in Access /\ route = {} THEN Buffered(pending, f) ELSE pending
    BY <1>0, <1>a, WriteFrameFacts
  <1>2. PICK full \in SUBSET Targets(e) :
           \A p \in End : inbox'[p] = IF p \in (Targets(e) \cap up) \ full
                                      THEN Append(inbox[p], f) ELSE inbox[p]
    BY <1>0, <1>a, WriteFrameFacts
  <1>3. OrderOK' /\ Frames' \subseteq Frames
    BY <1>a, OrderWritten
  <1>4. ASSUME NEW p \in End
        PROVE  /\ Range(inbox'[p]) \subseteq Range(inbox[p]) \cup {f}
               /\ inbox'[p] # inbox[p] => p \in Targets(e) /\ p \in joined
               /\ Range(outbound'[p]) \subseteq Range(outbound[p])
    <2>1. Range(Append(inbox[p], f)) = Range(inbox[p]) \cup {f}
      BY WireFrames, RangeAppend
    <2>2. Targets(e) \subseteq joined
      BY <1>a DEF Targets, RelayOK
    <2> QED
      BY <1>1, <1>2, <2>1, <2>2
  <1>5. /\ Range(pending') \subseteq Range(pending) \cup {f}
        /\ (pending' # pending => e \in Access /\ route = {})
    <2>1. CASE e \in Access /\ route = {}
      <3>1. pending \in Seq(FrameType) /\ Increasing(pending) /\ Before(pending, outbound[e])
        BY <1>a, <2>1 DEF MuxInv, TypeOK, OrderOK
      <3>2. \A g \in Range(pending) : g.from = f.from => g.n < f.n
        BY <1>1, <3>1 DEF Before
      <3> QED
        BY <1>1, <2>1, <3>1, <3>2, BufferedFrames
    <2> QED
      BY <1>1, <2>1
  <1>6. RelayOK'
    <2>1. e \in joined
      BY DEF WriteFrame
    <2>2. route # {} => pending' = <<>>
      BY <1>a, <1>5 DEF RelayOK
    <2>3. \A p \in End : p \notin joined => inbox'[p] = <<>>
      BY <1>a, <1>4 DEF RelayOK
    <2>4. \A p \in End : \A g \in Range(inbox'[p]) : g.from.at \in joined
      BY <1>a, <1>1, <1>4, <2>1 DEF RelayOK
    <2> QED
      BY <1>a, <1>1, <2>2, <2>3, <2>4 DEF RelayOK, users
  <1>7. FramesOK' /\ UsersOK'
    BY <1>a, <1>1, <1>3, FramesSame, UsersSame
  <1>8. OnceOK'
    <2>1. ASSUME NEW s \in Stream, Waits(s)' PROVE Waits(s)
      <3>1. s.at \in End
        BY StreamParts
      <3>2. CASE Opens(outbound'[s.at], s)
        BY <1>4, <2>1, <3>1, <3>2 DEF Waits, Opens
      <3>3. CASE Opens(pending', s)
        BY <1>1, <1>5, <3>3 DEF Waits, Opens
      <3> QED
        BY <2>1, <3>2, <3>3 DEF Waits
    <2>2. ASSUME NEW s \in Stream, NEW t \in Stream, Taken(s, t)', ~Taken(s, t)
          PROVE  f.n = 0 /\ f.from = s /\ t.at \in Targets(e)
      <3>1. t.at \in End
        BY StreamParts
      <3>2. phase'[t] = phase[t]
        BY <1>1 DEF users
      <3> QED
        BY <1>4, <2>2, <3>1, <3>2 DEF Taken, Opens
    <2>3. ASSUME NEW s \in Stream, f.n = 0, f.from = s, Targets(e) # {} PROVE ~Waits(s)'
      <3>1. ~Opens(outbound'[s.at], s)
        <4>1. \A g \in Range(outbound'[e]) : g.n \in Nat
          <5>1. Range(outbound[e]) \subseteq SentBy(e) /\ SentBy(e) \subseteq FrameType
            BY WireFrames DEF SentBy
          <5> QED
            BY <1>1, <5>1, FrameParts
        <4> QED
          BY <1>1, <2>3, <4>1 DEF Opens
      <3>2. ~Opens(pending', s)
        <4>1. CASE e \in Access
          <5>1. pending' = pending
            BY <1>5, <2>3, <4>1, MuxAssumption DEF Targets
          <5>2. Before(pending, outbound[e]) /\ Range(pending) \subseteq FrameType
            BY <1>a, <4>1, WireFrames DEF OrderOK, Buffering
          <5>3. \A g \in Range(pending) : g.from = s => g.n < 0 /\ g.n \in Nat
            BY <1>1, <2>3, <5>2, FrameParts DEF Before
          <5> QED
            BY <5>1, <5>3 DEF Opens
        <4>2. CASE e \notin Access
          <5>1. pending' = pending /\ \A g \in Range(pending) : g.from.at \in Access
            BY <1>5, <4>2, WireFrames DEF Buffering
          <5> QED
            BY <1>1, <2>3, <4>2, <5>1 DEF Opens
        <4> QED
          BY <4>1, <4>2
      <3> QED
        BY <3>1, <3>2 DEF Waits
    <2>4. ASSUME NEW s \in Stream, f.n = 0, f.from = s PROVE Waits(s)
      BY <1>1, <2>4 DEF Waits, Opens
    <2>5. \A p, q \in Targets(e) : p = q
      BY <1>1 DEF Targets, Alone, MuxInv, TypeOK
    <2> SUFFICES ASSUME NEW s \in Stream, NEW t \in Stream, AreEnds(s, t), s.at = s.by
                 PROVE  /\ \A u \in Stream : AreEnds(s, u) /\ Taken(s, t)' /\ Taken(s, u)' => t = u
                        /\ Waits(s)' => ~Taken(s, t)'
      BY DEF OnceOK
    <2>6. CASE f.n = 0 /\ f.from = s
      <3>1. \A u \in Stream : AreEnds(s, u) => ~Taken(s, u)
        BY <1>a, <2>4, <2>6 DEF OnceOK
      <3>2. \A u \in Stream : AreEnds(s, u) /\ Taken(s, u)' => u.at \in Targets(e)
        BY <2>2, <3>1
      <3>3. \A u \in Stream : AreEnds(s, u) /\ u.at = t.at => u = t
        BY EndAtIs
      <3> QED
        BY <2>3, <2>5, <2>6, <3>2, <3>3
    <2>7. CASE ~(f.n = 0 /\ f.from = s)
      <3>1. \A u \in Stream : Taken(s, u)' => Taken(s, u)
        BY <2>2, <2>7
      <3> QED
        BY <1>a, <2>1, <3>1 DEF OnceOK
    <2> QED
      BY <2>6, <2>7
  <1> QED
    BY <1>3, <1>6, <1>7, <1>8 DEF PathInv

LEMMA RegisterPath ==
    ASSUME MuxInv, PathInv, NEW i \in End, Register(i)
    PROVE  PathInv'
  <1>a. OrderOK /\ RelayOK /\ FramesOK /\ UsersOK /\ OnceOK
    BY DEF PathInv
  <1>1. /\ i \in Node \ joined /\ joined' = joined \cup {i} /\ route' = {i} /\ pending' = <<>>
        /\ UNCHANGED <<table, outbound, left, loops, users>>
        /\ \A p \in End : p # i => inbox'[p] = inbox[p]
    BY <1>a, RegisterFacts
  <1>2. Range(inbox'[i]) \subseteq Range(pending)
    BY <1>a, RegisterFacts, RangeEmpty
  <1>3. OrderOK' /\ Frames' \subseteq Frames
    BY <1>a, OrderRegistered
  <1>4. RelayOK'
    <2>1. \A p \in End : p \notin joined' => inbox'[p] = <<>>
      BY <1>a, <1>1 DEF RelayOK
    <2>2. \A g \in Range(pending) : g.from.at \in Access
      BY WireFrames DEF Buffering
    <2>3. \A p \in End : \A g \in Range(inbox'[p]) : g.from.at \in joined'
      BY <1>a, <1>1, <1>2, <2>2 DEF RelayOK
    <2> QED
      BY <1>a, <1>1, <2>1, <2>3 DEF RelayOK, users
  <1>5. FramesOK' /\ UsersOK'
    BY <1>a, <1>1, <1>3, FramesSame, UsersSame
  <1>6. OnceOK'
    <2>1. ASSUME NEW s \in Stream, NEW t \in Stream, Taken(s, t)', ~Taken(s, t)
          PROVE  Opens(pending, s) /\ t.at = i
      <3>1. t.at \in End /\ phase'[t] = phase[t]
        BY <1>1, StreamParts DEF users
      <3> QED
        BY <1>1, <1>2, <2>1, <3>1 DEF Taken, Opens
    <2>2. ASSUME NEW s \in Stream, Waits(s)' PROVE Waits(s) /\ ~Opens(pending, s)
      <3>1. s.at \in End /\ Opens(outbound[s.at], s)
        BY <1>1, <2>2, StreamParts, RangeEmpty DEF Waits, Opens
      <3>2. ASSUME Opens(pending, s) PROVE FALSE
        <4>1. PICK g \in Range(pending) : g.from = s /\ g.n = 0
          BY <3>2 DEF Opens
        <4>2. PICK h \in Range(outbound[s.at]) : h.from = s /\ h.n = 0
          BY <3>1 DEF Opens
        <4>3. s.at \in Access
          BY <4>1, WireFrames DEF Buffering
        <4>4. g.n < h.n
          BY <1>a, <4>1, <4>2, <4>3 DEF OrderOK, Before
        <4> QED
          BY <4>1, <4>2, <4>4
      <3> QED
        BY <3>1, <3>2 DEF Waits
    <2> SUFFICES ASSUME NEW s \in Stream, NEW t \in Stream, AreEnds(s, t), s.at = s.by
                 PROVE  /\ \A u \in Stream : AreEnds(s, u) /\ Taken(s, t)' /\ Taken(s, u)' => t = u
                        /\ Waits(s)' => ~Taken(s, t)'
      BY DEF OnceOK
    <2>3. CASE Opens(pending, s)
      <3>1. \A u \in Stream : AreEnds(s, u) => ~Taken(s, u)
        BY <1>a, <2>3 DEF OnceOK, Waits
      <3>2. \A u \in Stream : AreEnds(s, u) /\ Taken(s, u)' => u.at = i
        BY <2>1, <3>1
      <3>3. \A u \in Stream : AreEnds(s, u) /\ u.at = t.at => u = t
        BY EndAtIs
      <3> QED
        BY <2>2, <2>3, <3>2, <3>3
    <2>4. CASE ~Opens(pending, s)
      <3>1. \A u \in Stream : Taken(s, u)' => Taken(s, u)
        BY <2>1, <2>4
      <3> QED
        BY <1>a, <2>2, <3>1 DEF OnceOK
    <2> QED
      BY <2>3, <2>4
  <1> QED
    BY <1>3, <1>4, <1>5, <1>6 DEF PathInv

-----------------------------------------------------------------------------
(* What is on its way to a stream end. *)

LEMMA InOrder ==
    ASSUME MuxInv, PathInv, NEW s \in Stream, NEW t \in Stream, AreEnds(s, t)
    PROVE  /\ \A f \in From(pending, t) : \A g \in From(outbound[t.at], t) : f.n < g.n
           /\ Reaches(t.at, s.at) =>
                 \A f \in From(inbox[s.at], t) :
                    \A g \in From(outbound[t.at], t) \cup From(pending, t) : f.n < g.n
           /\ From(pending, t) # {} => t.at \in Access /\ s.at \in Node /\ route = {}
           /\ \A f \in From(inbox[s.at], t) \cup From(outbound[t.at], t) \cup From(pending, t) :
                 f \in Frames /\ f.n \in Nat /\ f.from = t
           /\ s.at \notin joined => From(inbox[s.at], t) = {} /\ (phase[t] # "none" => phase[s] = "none")
           /\ Reaches(t.at, s.at) => s.at \in up
           /\ s.at \in Node <=> t.at \in Access
  <1>a. OrderOK /\ RelayOK
    BY DEF PathInv
  <1>1. /\ s.at \in End /\ t.at \in End /\ t.at \in Peers(s.at) /\ s.at \in Peers(t.at) /\ s.by = t.by
        /\ s.at \in {s.by} \cup Peers(s.by) /\ t.at \in {s.by} \cup Peers(s.by)
    BY StreamParts, Sides DEF AreEnds
  <1>2. s.at \in Node <=> t.at \in Access
    BY <1>1, Sides DEF End
  <1>3. \A f \in From(pending, t) : t.at \in Access /\ s.at \in Node
    BY <1>2, WireFrames DEF From, Buffering
  <1>4. From(pending, t) # {} => route = {}
    BY <1>a, RangeEmpty DEF RelayOK, From
  <1>5. \A f \in From(pending, t) : \A g \in From(outbound[t.at], t) : f.n < g.n
    BY <1>a, <1>3 DEF OrderOK, Before, From
  <1>6. s.at \notin joined => inbox[s.at] = <<>> /\ From(inbox[s.at], t) = {}
    BY <1>a, <1>1, RangeEmpty DEF RelayOK, From
  <1>7. ASSUME Reaches(t.at, s.at), NEW f \in From(inbox[s.at], t),
               NEW g \in From(outbound[t.at], t) \cup From(pending, t)
        PROVE  f.n < g.n
    <2>1. CASE g \in From(outbound[t.at], t)
      BY <1>a, <1>1, <1>7, <2>1 DEF OrderOK, Before, From
    <2>2. CASE g \in From(pending, t)
      BY <1>3, <1>4, <1>6, <1>7, <2>2 DEF Reaches
    <2> QED
      BY <1>7, <2>1, <2>2
  <1>8. \A f \in From(inbox[s.at], t) \cup From(outbound[t.at], t) \cup From(pending, t) :
           f \in Frames /\ f.n \in Nat /\ f.from = t
    <2>1. \A f \in From(inbox[s.at], t) \cup From(outbound[t.at], t) \cup From(pending, t) :
             f \in Frames /\ f.from = t
      BY <1>1 DEF From, Frames
    <2> QED
      BY <2>1, WireFrames, FrameParts
  <1>9. s.at \notin joined /\ phase[t] # "none" => phase[s] = "none"
    <2> SUFFICES ASSUME s.at \notin joined, phase[t] # "none", phase[s] # "none" PROVE FALSE
      OBVIOUS
    <2>1. s.at = s.by
      BY <1>a DEF RelayOK
    <2>2. t.at # t.by
      BY <2>1, OwnIsNoMate
    <2> QED
      BY <1>a, <1>1, <2>1, <2>2 DEF RelayOK
  <1> QED
    BY <1>2, <1>3, <1>4, <1>5, <1>6, <1>7, <1>8, <1>9 DEF Reaches

LEMMA WayKept ==
    ASSUME NEW s \in Stream, NEW t \in Stream, WayOK(s, t),
           OnWay(s.at, t)' \subseteq OnWay(s.at, t), \A f \in OnWay(s.at, t) : f.n \in Nat,
           phase'[s] = "none" <=> phase[s] = "none",
           phase[t] = "none" => phase'[t] = "none",
           Listening(s)' => Listening(s),
           Listening(s)' \/ phase'[s] = "none" => Rcv(s)' = Rcv(s),
           torn \subseteq torn', reading' \subseteq reading, writing' \subseteq writing,
           wrote'[t] = wrote[t], sent_close \subseteq sent_close',
           Expects(s, t)' =>
              \/ OnWay(s.at, t)' = OnWay(s.at, t) /\ (Reaches(t.at, s.at)' => Reaches(t.at, s.at))
              \/ /\ ~(Reaches(t.at, s.at)' /\ t.at \in writing')
                 /\ \A f \in OnWay(s.at, t)' : \A g \in OnWay(s.at, t) : g.n < f.n => g \in OnWay(s.at, t)'
    PROVE  WayOK(s, t)'
  <1>1. phase'[s] # "none" => \A f \in OnWay(s.at, t)' : f.n > 0
    BY DEF WayOK
  <1>2. Listening(s)' => \A f \in OnWay(s.at, t)' : \A k \in 1 .. Len(Rcv(s)') : Rcv(s)'[k][2] < f.n
    BY DEF WayOK
  <1>3. ASSUME Expects(s, t)' PROVE Expects(s, t) /\ Rcv(s)' = Rcv(s)
    BY <1>3 DEF Expects
  <1>4. ASSUME Expects(s, t)', NEW f \in OnWay(s.at, t)' PROVE Next1(s, t, f)'
    <2>1. Next1(s, t, f) /\ Rcv(s)' = Rcv(s) /\ f.n \in Nat
      BY <1>3, <1>4 DEF WayOK
    <2>2. ASSUME NEW g \in OnWay(s.at, t), g.n + 1 = f.n PROVE g \in OnWay(s.at, t)'
      <3>1. g.n \in Nat /\ g.n < f.n
        BY <2>1, <2>2
      <3> QED
        BY <1>4, <3>1
    <2> QED
      BY <2>1, <2>2 DEF Next1
  <1>5. ASSUME Expects(s, t)', Reaches(t.at, s.at)', t.at \in writing', phase'[t] # "none", t \notin sent_close'
        PROVE  Topped(s, t)'
    <2>1. OnWay(s.at, t)' = OnWay(s.at, t) /\ Reaches(t.at, s.at)
      BY <1>5
    <2>2. Topped(s, t)
      BY <1>3, <1>5, <2>1 DEF WayOK
    <2> QED
      BY <1>3, <1>5, <2>1, <2>2 DEF Topped
  <1> QED
    BY <1>1, <1>2, <1>4, <1>5 DEF WayOK

LEMMA WayQuiet ==
    ASSUME NEW s \in Stream, NEW t \in Stream, phase'[t] = "none", FramesOK'
    PROVE  WayOK(s, t)'
  <1>1. \A f \in Frames' : f.from # t
    BY DEF FramesOK, Said
  <1>2. OnWay(s.at, t)' = {}
    <2>1. s.at \in End /\ t.at \in End
      BY StreamParts
    <2> QED
      BY <1>1, <2>1 DEF OnWay, From, Frames
  <1> QED
    BY <1>2 DEF WayOK

LEMMA WayNat ==
    ASSUME MuxInv, NEW s \in Stream, NEW t \in Stream
    PROVE  \A f \in OnWay(s.at, t) : f.n \in Nat /\ f \in Frames /\ f.from = t
  BY OnWayFrames, WireFrames, FrameParts

LEMMA ShrinkWays ==
    ASSUME MuxInv, PathInv, Shrinks, Still, WaysOK
    PROVE  WaysOK'
  <1> SUFFICES ASSUME NEW s \in Stream, NEW t \in Stream, AreEnds(s, t) PROVE WayOK(s, t)'
    BY DEF WaysOK
  <1>0. s.at \in End /\ t.at \in End
    BY StreamParts
  <1>1. Reaches(t.at, s.at)' => Reaches(t.at, s.at)
    BY <1>0, OrderShrinks DEF PathInv
  <1>2. /\ From(outbound'[t.at], t) \subseteq From(outbound[t.at], t)
        /\ From(inbox'[s.at], t) \subseteq From(inbox[s.at], t)
        /\ From(pending', t) \subseteq From(pending, t)
    BY <1>0, RangeEmpty DEF Shrinks, From
  <1>3. OnWay(s.at, t)' \subseteq OnWay(s.at, t)
    BY <1>1, <1>2 DEF OnWay
  <1>4. CASE phase[t] = "none"
    <2>1. phase'[t] = "none" /\ FramesOK'
      BY <1>4, ShrinkPath DEF Still, PathInv
    <2> QED
      BY <2>1, WayQuiet
  <1>5. CASE phase[t] # "none"
    <2>1. ASSUME Expects(s, t)'
          PROVE  \/ OnWay(s.at, t)' = OnWay(s.at, t) /\ (Reaches(t.at, s.at)' => Reaches(t.at, s.at))
                 \/ /\ ~(Reaches(t.at, s.at)' /\ t.at \in writing')
                    /\ \A f \in OnWay(s.at, t)' : \A g \in OnWay(s.at, t) : g.n < f.n => g \in OnWay(s.at, t)'
      <3>1. inbox'[s.at] = inbox[s.at]
        BY <1>0, <2>1 DEF Shrinks, Expects
      <3>2. CASE ~Reaches(t.at, s.at)'
        <4>1. OnWay(s.at, t)' = From(inbox[s.at], t)
          BY <3>1, <3>2 DEF OnWay
        <4>2. ASSUME NEW f \in OnWay(s.at, t)', NEW g \in OnWay(s.at, t), g.n < f.n, g \notin OnWay(s.at, t)'
              PROVE  FALSE
          <5>1. Reaches(t.at, s.at) /\ g \in From(outbound[t.at], t) \cup From(pending, t)
            BY <4>1, <4>2 DEF OnWay
          <5>2. f.n < g.n /\ f.n \in Nat /\ g.n \in Nat
            BY <4>1, <4>2, <5>1, InOrder
          <5> QED
            BY <4>2, <5>2
        <4> QED
          BY <3>2, <4>2
      <3>3. CASE Reaches(t.at, s.at)' /\ From(pending', t) = From(pending, t)
        <4>1. CASE outbound'[t.at] = outbound[t.at]
          BY <1>1, <3>1, <3>3, <4>1 DEF OnWay
        <4>2. CASE outbound'[t.at] = <<>> /\ t.at \notin writing'
          <5>1. OnWay(s.at, t)' = From(inbox[s.at], t) \cup From(pending, t)
            BY <3>1, <3>3, <4>2, RangeEmpty DEF OnWay, From
          <5>2. ASSUME NEW f \in OnWay(s.at, t)', NEW g \in OnWay(s.at, t), g.n < f.n, g \notin OnWay(s.at, t)'
                PROVE  FALSE
            <6>1. Reaches(t.at, s.at) /\ g \in From(outbound[t.at], t)
              BY <5>1, <5>2 DEF OnWay
            <6>2. f.n < g.n /\ f.n \in Nat /\ g.n \in Nat
              BY <5>1, <5>2, <6>1, InOrder
            <6> QED
              BY <5>2, <6>2
          <5> QED
            BY <4>2, <5>2
        <4> QED
          BY <1>0, <4>1, <4>2 DEF Shrinks
      <3>4. CASE Reaches(t.at, s.at)' /\ From(pending', t) # From(pending, t)
        <4>1. pending' = <<>> /\ route' = {} /\ From(pending, t) # {} /\ s.at \in Node
          BY <1>2, <3>4, InOrder DEF Shrinks
        <4>2. s.at \notin joined
          BY <3>4, <4>1 DEF Reaches, Shrinks
        <4>3. phase[s] = "none" /\ From(inbox[s.at], t) = {}
          BY <1>5, <4>2, InOrder
        <4>4. PICK f \in OnWay(s.at, t)' : f.n = 0
          BY <2>1, <4>3 DEF Expects, Listening, Alive, Still
        <4>5. f \in From(outbound[t.at], t)
          BY <1>2, <3>1, <4>1, <4>3, RangeEmpty DEF OnWay, From
        <4>6. PICK g \in From(pending, t) : TRUE
          BY <4>1
        <4>7. g.n < f.n /\ g.n \in Nat
          BY <4>5, InOrder
        <4> QED
          BY <4>4, <4>7
      <3> QED
        BY <3>2, <3>3, <3>4
    <2>2. /\ phase'[s] = "none" <=> phase[s] = "none"
          /\ Listening(s)' => Listening(s)
          /\ Listening(s)' => Rcv(s)' = Rcv(s)
      BY DEF Still, Listening
    <2>3. phase'[s] = "none" => Rcv(s)' = Rcv(s)
      BY DEF Still, Rcv
    <2>4. WayOK(s, t) /\ \A f \in OnWay(s.at, t) : f.n \in Nat
      BY WayNat DEF WaysOK
    <2> QED
      BY <1>3, <1>5, <2>1, <2>2, <2>3, <2>4, WayKept DEF Shrinks, Still
  <1> QED
    BY <1>4, <1>5

-----------------------------------------------------------------------------
(* A frame is sent: it comes after all that is on its way. *)

LEMMA SentFrom ==
    ASSUME MuxInv, NEW s \in Stream, NEW f \in FrameType, f.from = s, outbound' = Sent(s, f), NEW t \in Stream
    PROVE  /\ t # s => From(outbound'[t.at], t) = From(outbound[t.at], t)
           /\ From(outbound'[s.at], s) =
                 From(outbound[s.at], s) \cup (IF s.at \in writing THEN {f} ELSE {})
  <1>1. /\ t.at \in End /\ s.at \in End
        /\ outbound[t.at] \in Seq(FrameType) /\ outbound[s.at] \in Seq(FrameType)
    BY StreamParts, WireFrames
  <1>2. /\ Range(Append(outbound[t.at], f)) = Range(outbound[t.at]) \cup {f}
        /\ Range(Append(outbound[s.at], f)) = Range(outbound[s.at]) \cup {f}
    BY <1>1, RangeAppend
  <1>3. /\ outbound'[t.at] = outbound[t.at] \/ outbound'[t.at] = Append(outbound[t.at], f)
        /\ outbound'[s.at] = IF s.at \in writing THEN Append(outbound[s.at], f) ELSE outbound[s.at]
    BY <1>1 DEF Sent, MuxInv, TypeOK
  <1> QED
    BY <1>2, <1>3 DEF From

LEMMA SendWays ==
    ASSUME MuxInv, MuxInv', PipeInv, Alone, NEW s \in Stream, Write(s) \/ Shutdown(s) \/ Drop(s),
           s \notin sent_close
    PROVE  WaysOK'
  <1>a. PathInv /\ RcvOK /\ WaysOK
    BY DEF PipeInv
  <1>1. PICK f \in FrameType :
           /\ f.from = s /\ f.n = wrote[s] + 1 /\ outbound' = Sent(s, f)
           /\ \/ f.type = "Data" /\ wrote'[s] = f.n /\ sent_close' = sent_close /\ s.at \in writing
              \/ f.type = "Close" /\ wrote'[s] = wrote[s] /\ sent_close' = sent_close \cup {s}
    BY SendFacts
  <1>2. /\ UNCHANGED <<opened, streams, inbox, pending, joined, left, route, torn, writing, reading, up, got>>
        /\ \A t \in Stream : t # s => /\ wrote'[t] = wrote[t] /\ phase'[t] = phase[t]
                                      /\ inbound'[t] = inbound[t]
        /\ phase[s] \in {"incoming", "held"}
        /\ (phase'[s] = phase[s] /\ inbound'[s] = inbound[s]) \/ (phase'[s] = "dropped" /\ inbound'[s] = <<>>)
    BY SendFacts DEF relay, loops
  <1>3. wrote[s] \in Nat /\ f.n \in Nat /\ f.n > 0
    BY <1>1 DEF MuxInv, TypeOK
  <1>4. \A t \in Stream : phase'[t] = "none" <=> phase[t] = "none"
    BY <1>2
  <1>5. \A t \in Stream : /\ Listening(t)' => Listening(t)
                          /\ Listening(t)' \/ phase'[t] = "none" => Rcv(t)' = Rcv(t)
    BY <1>2 DEF Listening, Alive, Rcv
  <1>6. \A e, p \in End : Reaches(e, p)' = Reaches(e, p)
    BY <1>2 DEF Reaches
  <1> SUFFICES ASSUME NEW r \in Stream, NEW t \in Stream, AreEnds(r, t) PROVE WayOK(r, t)'
    BY DEF WaysOK
  <1>7. r.at \in End /\ t.at \in End /\ WayOK(r, t) /\ \A g \in OnWay(r.at, t) : g.n \in Nat /\ g \in Frames /\ g.from = t
    BY <1>a, StreamParts, WayNat DEF WaysOK
  <1>8. CASE t # s
    <2>1. OnWay(r.at, t)' = OnWay(r.at, t)
      BY <1>1, <1>2, <1>6, <1>7, <1>8, SentFrom DEF OnWay
    <2>2. wrote'[t] = wrote[t] /\ sent_close \subseteq sent_close'
      BY <1>1, <1>2, <1>8
    <2> QED
      BY <1>2, <1>4, <1>5, <1>6, <1>7, <2>1, <2>2, WayKept
  <1>9. CASE t = s
    <2>1. /\ OnWay(r.at, s)' = OnWay(r.at, s) \cup
                                 (IF Reaches(s.at, r.at) /\ s.at \in writing THEN {f} ELSE {})
          /\ Reaches(s.at, r.at)' = Reaches(s.at, r.at)
      BY <1>1, <1>2, <1>6, <1>7, <1>9, SentFrom DEF OnWay
    <2>2. r # s /\ phase'[r] = phase[r] /\ Rcv(r)' = Rcv(r) /\ (Listening(r)' <=> Listening(r))
          /\ (phase[s] # "none") /\ (r \in torn' <=> r \in torn)
      <3>1. r # s
        BY <1>7, <1>9, Sides DEF AreEnds
      <3> QED
        BY <1>2, <3>1 DEF Rcv, Listening, Alive
    <2>3. \A k \in 1 .. Len(Rcv(r)) : Rcv(r)[k][2] < f.n
      <3>1. ASSUME NEW k \in 1 .. Len(Rcv(r)) PROVE Rcv(r)[k][2] < f.n
        <4>1. Rcv(r) \in Seq(Stream \X Nat)
          BY RcvFacts
        <4>2. Rcv(r)[k][1] \in Stream
          BY <4>1
        <4>3. AreEnds(r, Rcv(r)[k][1]) /\ phase[Rcv(r)[k][1]] # "none" /\ Rcv(r)[k][2] \in 1 .. wrote[Rcv(r)[k][1]]
          BY <1>a, <3>1 DEF RcvOK
        <4>4. Rcv(r)[k][1] = s
          BY <1>9, <1>a, <2>2, <4>2, <4>3, OneMate DEF PathInv
        <4> QED
          BY <1>1, <1>3, <4>3, <4>4
      <3> QED
        BY <3>1
    <2>4. ASSUME Expects(r, s)' PROVE Expects(r, s)
      BY <1>2, <1>3, <2>1, <2>2, <2>4, <1>7, <1>9 DEF Expects
    <2>5. phase'[r] # "none" => \A g \in OnWay(r.at, s)' : g.n > 0
      BY <1>3, <1>7, <1>9, <2>1, <2>2 DEF WayOK
    <2>6. Listening(r)' => \A g \in OnWay(r.at, s)' : \A k \in 1 .. Len(Rcv(r)') : Rcv(r)'[k][2] < g.n
      BY <1>7, <1>9, <2>1, <2>2, <2>3 DEF WayOK
    <2>7. ASSUME Expects(r, s)', NEW g \in OnWay(r.at, s)' PROVE Next1(r, s, g)'
      <3>1. CASE g \in OnWay(r.at, s)
        <4>1. Next1(r, s, g)
          BY <1>7, <1>9, <2>4, <2>7, <3>1 DEF WayOK
        <4> QED
          BY <2>1, <2>2, <4>1 DEF Next1
      <3>2. CASE g = f /\ Reaches(s.at, r.at) /\ s.at \in writing
        <4>1. Topped(r, s)
          BY <1>7, <1>9, <2>2, <2>4, <2>7, <3>2 DEF WayOK
        <4> QED
          BY <1>1, <2>1, <2>2, <3>2, <4>1 DEF Topped, Next1
      <3> QED
        BY <2>1, <2>7, <3>1, <3>2
    <2>8. ASSUME Expects(r, s)', Reaches(s.at, r.at)', s.at \in writing', phase'[s] # "none", s \notin sent_close'
          PROVE  Topped(r, s)'
      <3>1. wrote'[s] = f.n /\ f \in OnWay(r.at, s)'
        BY <1>1, <1>2, <2>1, <2>8
      <3> QED
        BY <3>1 DEF Topped
    <2> QED
      BY <1>9, <2>5, <2>6, <2>7, <2>8 DEF WayOK
  <1> QED
    BY <1>8, <1>9

LEMMA OpenWays ==
    ASSUME MuxInv, MuxInv', PipeInv, Alone, NEW e \in End, Open(e)
    PROVE  WaysOK'
  <1>a. PathInv /\ RcvOK /\ WaysOK /\ FramesOK' /\ UsersOK
    BY OpenPath DEF PipeInv, PathInv
  <1>1. PICK s \in Stream, f \in FrameType :
           /\ s.at = e /\ s.by = e /\ s.n = opened[e] + 1 /\ phase[s] = "none"
           /\ \A t \in Stream : AreEnds(s, t) \/ AreEnds(t, s) => phase[t] = "none"
           /\ f.from = s /\ f.type = "Open" /\ f.n = 0
           /\ opened' = [opened EXCEPT ![e] = @ + 1]
           /\ streams' = Inserted(s) /\ outbound' = Sent(s, f)
           /\ phase'[s] \in {"held", "dropped"}
           /\ \A t \in Stream : t # s => phase'[t] = phase[t]
           /\ UNCHANGED <<removing, inbox, pending, relay, loops, sent_close, inbound, wrote, got, ended>>
    BY <1>a, OpenFacts
  <1>2. streams' = streams \cup {s}
    BY <1>1, InsertedIs DEF MuxInv
  <1>3. /\ \A b, p \in End : Reaches(b, p)' = Reaches(b, p)
        /\ \A r \in Stream : Rcv(r)' = Rcv(r)
    BY <1>1 DEF Reaches, Rcv, relay, loops
  <1> SUFFICES ASSUME NEW r \in Stream, NEW t \in Stream, AreEnds(r, t) PROVE WayOK(r, t)'
    BY DEF WaysOK
  <1>4. r.at \in End /\ t.at \in End /\ WayOK(r, t) /\ r # t
        /\ \A g \in OnWay(r.at, t) : g.n \in Nat /\ g \in Frames /\ g.from = t
    <2>1. r.at \in End /\ t.at \in Peers(r.at)
      BY StreamParts DEF AreEnds
    <2> QED
      BY <1>a, <2>1, StreamParts, WayNat, Sides DEF WaysOK
  <1>5. CASE r = s
    <2>1. phase'[t] = "none"
      BY <1>1, <1>4, <1>5
    <2> QED
      BY <1>a, <2>1, WayQuiet
  <1>6. CASE t = s
    <2>1. phase[r] = "none" /\ phase'[r] = "none"
      BY <1>1, <1>4, <1>6
    <2>2. OnWay(r.at, s)' \subseteq {f}
      <3>1. OnWay(r.at, s) = {}
        BY <1>1, <1>a, NoneIsQuiet DEF PathInv
      <3> QED
        BY <1>1, <1>3, <1>4, <1>6, <3>1, SentFrom DEF OnWay
    <2>3. wrote'[s] = 0 /\ Len(Rcv(r)') = 0
      <3>1. got[r] = <<>> /\ inbound[r] = <<>> /\ wrote[s] = 0
        BY <1>1, <1>a, <2>1 DEF UsersOK
      <3>2. Rcv(r) = <<>> \o <<>>
        BY <3>1 DEF Rcv
      <3> QED
        BY <1>1, <1>3, <3>1, <3>2
    <2>4. ~Listening(r)'
      BY <2>1 DEF Listening, Alive
    <2> QED
      BY <1>1, <1>6, <2>1, <2>2, <2>3, <2>4 DEF WayOK, Next1, Topped
  <1>7. CASE r # s /\ t # s
    <2>1. OnWay(r.at, t)' = OnWay(r.at, t)
      BY <1>1, <1>3, <1>4, <1>7, SentFrom DEF OnWay
    <2>2. Listening(r)' => Listening(r)
      BY <1>1, <1>2, <1>7 DEF Listening, Alive
    <2> QED
      BY <1>1, <1>3, <1>4, <1>7, <2>1, <2>2, WayKept DEF relay, loops
  <1> QED
    BY <1>5, <1>6, <1>7

-----------------------------------------------------------------------------
(* A frame is received: it comes before all that is on its way. *)

LEMMA ReceivedFirst ==
    ASSUME MuxInv, PathInv, NEW e \in End, Received(e), NEW f, f = Head(inbox[e]),
           UNCHANGED <<outbound, pending, relay, loops>>,
           NEW s \in Stream, NEW t \in Stream, AreEnds(s, t)
    PROVE  /\ ~(s.at = e /\ t = f.from) => OnWay(s.at, t)' = OnWay(s.at, t)
           /\ s.at = e /\ t = f.from =>
                 /\ f \in OnWay(s.at, t) /\ OnWay(s.at, t) = {f} \cup OnWay(s.at, t)'
                 /\ \A g \in OnWay(s.at, t)' : f.n < g.n
                 /\ s = EndAt(e, f.from)
           /\ Reaches(t.at, s.at)' = Reaches(t.at, s.at)
           /\ \A g \in OnWay(s.at, t) : g.n \in Nat
           /\ OnWay(s.at, t)' \subseteq OnWay(s.at, t)
  <1>1. /\ f \in Range(inbox[e])
        /\ Range(inbox[e]) = {f} \cup Range(inbox'[e])
        /\ \A g \in Range(inbox'[e]) : g.from = f.from => f.n < g.n
        /\ \A p \in End : p # e => inbox'[p] = inbox[p]
    BY OrderReceived DEF PathInv, relay, loops
  <1>2. Reaches(t.at, s.at)' = Reaches(t.at, s.at)
    BY DEF Reaches, relay, loops
  <1>3. s.at \in End
    BY StreamParts
  <1>4. ASSUME ~(s.at = e /\ t = f.from) PROVE OnWay(s.at, t)' = OnWay(s.at, t)
    <2>1. From(inbox'[s.at], t) = From(inbox[s.at], t)
      <3>1. CASE s.at = e
        BY <1>1, <1>4, <3>1 DEF From
      <3>2. CASE s.at # e
        BY <1>1, <1>3, <3>2
      <3> QED
        BY <3>1, <3>2
    <2> QED
      BY <1>2, <2>1 DEF OnWay
  <1>5. ASSUME s.at = e, t = f.from
        PROVE  /\ f \in OnWay(s.at, t) /\ OnWay(s.at, t) = {f} \cup OnWay(s.at, t)'
               /\ \A g \in OnWay(s.at, t)' : f.n < g.n
               /\ s = EndAt(e, f.from)
    <2>1. From(inbox[s.at], t) = {f} \cup From(inbox'[s.at], t) /\ f \in From(inbox[s.at], t)
      BY <1>1, <1>5 DEF From
    <2>2. \A g \in From(inbox'[s.at], t) : f.n < g.n
      BY <1>1, <1>5 DEF From
    <2>3. Reaches(t.at, s.at) => \A g \in From(outbound[t.at], t) \cup From(pending, t) : f.n < g.n
      BY <2>1, InOrder
    <2>4. s = EndAt(e, f.from)
      BY <1>5, EndAtIs
    <2> QED
      BY <1>2, <2>1, <2>2, <2>3, <2>4 DEF OnWay
  <1>6. OnWay(s.at, t)' \subseteq OnWay(s.at, t)
    BY <1>4, <1>5
  <1> QED
    BY <1>2, <1>4, <1>5, <1>6, WayNat

LEMMA ReadOpenWays ==
    ASSUME MuxInv, PipeInv, Alone, NEW e \in End, ReadOpen(e)
    PROVE  WaysOK'
  <1>a. PathInv /\ RcvOK /\ WaysOK /\ UsersOK /\ OnceOK /\ FramesOK'
    BY ReadOpenPath DEF PipeInv, PathInv
  <1>1. PICK f : f = Head(inbox[e])
    OBVIOUS
  <1>2. PICK s \in Stream :
           /\ s = EndAt(e, f.from) /\ s.at = e /\ s.at # s.by /\ AreEnds(s, f.from) /\ AreEnds(f.from, s)
           /\ f.from.at = f.from.by /\ s.by = f.from.by /\ f.n = 0
           /\ phase[s] = "none" /\ Taken(f.from, s)
           /\ streams' = Inserted(s) /\ phase' = [phase EXCEPT ![s] = "incoming"]
           /\ UNCHANGED <<opened, removing, lent, outbound, pending, relay, loops,
                          sent_close, inbound, wrote, got, ended>>
    BY <1>1, <1>a, ReadOpenFacts
  <1>3. Received(e)
    BY DEF ReadOpen
  <1>4. f.from \in Stream /\ Said(f) /\ phase[f.from] # "none"
    BY <1>1, <1>3, <1>a, ReceivedFacts DEF Said
  <1>5. phase'[s] = "incoming" /\ \A t \in Stream : t # s => phase'[t] = phase[t]
    BY <1>2 DEF MuxInv, TypeOK
  <1>6. streams' = streams \cup {s} /\ \A t \in Stream : Rcv(t)' = Rcv(t)
    BY <1>2, InsertedIs DEF MuxInv, Rcv
  <1>7. Len(Rcv(s)) = 0 /\ wrote[s] = 0
    <2>1. got[s] = <<>> /\ inbound[s] = <<>> /\ wrote[s] = 0
      BY <1>2, <1>a DEF UsersOK
    <2>2. Rcv(s) = <<>> \o <<>>
      BY <2>1 DEF Rcv
    <2> QED
      BY <2>1, <2>2
  <1> SUFFICES ASSUME NEW r \in Stream, NEW t \in Stream, AreEnds(r, t) PROVE WayOK(r, t)'
    BY DEF WaysOK
  <1>8. /\ ~(r.at = e /\ t = f.from) => OnWay(r.at, t)' = OnWay(r.at, t)
        /\ r.at = e /\ t = f.from =>
              /\ f \in OnWay(r.at, t) /\ OnWay(r.at, t) = {f} \cup OnWay(r.at, t)'
              /\ \A g \in OnWay(r.at, t)' : f.n < g.n
              /\ r = EndAt(e, f.from)
        /\ Reaches(t.at, r.at)' = Reaches(t.at, r.at)
        /\ \A g \in OnWay(r.at, t) : g.n \in Nat
        /\ OnWay(r.at, t)' \subseteq OnWay(r.at, t)
    BY <1>1, <1>2, <1>3, <1>a, ReceivedFirst
  <1>9. WayOK(r, t)
    BY <1>a DEF WaysOK
  <1>10. CASE r = s
    <2>1. t = f.from
      BY <1>2, <1>4, <1>10, OneMateAway
    <2>2. /\ OnWay(s.at, t) = {f} \cup OnWay(s.at, t)' /\ \A g \in OnWay(s.at, t)' : 0 < g.n /\ g.n \in Nat
      BY <1>2, <1>8, <1>10, <2>1
    <2>3. ASSUME Expects(s, t)' PROVE Expects(s, t)
      BY <1>2, <1>8, <1>10, <2>1, <2>3 DEF Expects, relay, loops
    <2>4. ASSUME Expects(s, t)', NEW g \in OnWay(s.at, t)' PROVE Next1(s, t, g)'
      <3>1. Next1(s, t, g) /\ g.n > 0
        BY <1>9, <1>10, <2>2, <2>3, <2>4 DEF WayOK
      <3>2. CASE g.n = Len(Rcv(s)) + 1
        BY <1>6, <3>2 DEF Next1
      <3>3. CASE \E h \in OnWay(s.at, t) : h.n + 1 = g.n
        <4>1. PICK h \in OnWay(s.at, t) : h.n + 1 = g.n
          BY <3>3
        <4>2. CASE h = f
          BY <1>2, <1>6, <1>7, <4>1, <4>2 DEF Next1
        <4>3. CASE h # f
          BY <2>2, <4>1, <4>3 DEF Next1
        <4> QED
          BY <4>2, <4>3
      <3> QED
        BY <2>2, <3>1, <3>2, <3>3 DEF Next1
    <2>5. ASSUME Expects(s, t)', Reaches(t.at, s.at)', t.at \in writing', t \notin sent_close'
          PROVE  Topped(s, t)'
      <3>1. Topped(s, t)
        BY <1>2, <1>4, <1>8, <1>9, <1>10, <2>1, <2>3, <2>5 DEF WayOK, loops
      <3>2. CASE wrote[t] = Len(Rcv(s))
        BY <1>2, <1>6, <3>2 DEF Topped
      <3>3. CASE \E g \in OnWay(s.at, t) : g.n = wrote[t]
        <4>1. PICK g \in OnWay(s.at, t) : g.n = wrote[t]
          BY <3>3
        <4>2. CASE g = f
          BY <1>2, <1>6, <1>7, <4>1, <4>2 DEF Topped
        <4>3. CASE g # f
          BY <1>2, <2>2, <4>1, <4>3 DEF Topped
        <4> QED
          BY <4>2, <4>3
      <3> QED
        BY <3>1, <3>2, <3>3 DEF Topped
    <2>6. \A g \in OnWay(s.at, t)' : \A k \in 1 .. Len(Rcv(s)') : Rcv(s)'[k][2] < g.n
      BY <1>6, <1>7
    <2> QED
      BY <1>10, <2>2, <2>4, <2>5, <2>6 DEF WayOK
  <1>11. CASE t = s
    <2>1. r = f.from
      <3>1. AreEnds(s, r)
        BY <1>11, EndAtIs
      <3> QED
        BY <1>2, <1>4, <3>1, OneMateAway
    <2>2. OnWay(r.at, s)' = {}
      <3>1. OnWay(r.at, s) = {}
        BY <1>2, <1>a, NoneIsQuiet DEF PathInv
      <3> QED
        BY <1>8, <1>11, <3>1
    <2>3. Len(Rcv(r)) = 0
      <3>1. Rcv(r) \in Seq(Stream \X Nat)
        BY RcvFacts
      <3>2. ASSUME Len(Rcv(r)) # 0 PROVE FALSE
        <4>1. 1 \in 1 .. Len(Rcv(r)) /\ Rcv(r)[1][1] \in Stream
          BY <3>1, <3>2
        <4>2. AreEnds(r, Rcv(r)[1][1]) /\ phase[Rcv(r)[1][1]] # "none"
          BY <1>a, <4>1 DEF RcvOK
        <4>3. Rcv(r)[1][1] = s
          BY <1>2, <1>a, <2>1, <4>1, <4>2 DEF OnceOK, Taken
        <4> QED
          BY <1>2, <4>2, <4>3
      <3> QED
        BY <3>2
    <2>4. wrote'[s] = Len(Rcv(r)')
      BY <1>2, <1>6, <1>7, <2>3
    <2> QED
      BY <1>11, <2>2, <2>4 DEF WayOK, Topped
  <1>12. CASE r # s /\ t # s
    <2>1. OnWay(r.at, t)' = OnWay(r.at, t)
      BY <1>2, <1>8, <1>12
    <2>2. /\ phase'[r] = phase[r] /\ phase'[t] = phase[t] /\ (Listening(r)' => Listening(r))
          /\ UNCHANGED <<torn, reading, writing, wrote, sent_close>>
      BY <1>2, <1>5, <1>6, <1>12 DEF Listening, Alive, relay, loops
    <2> QED
      BY <1>6, <1>8, <1>9, <2>1, <2>2, WayKept
  <1> QED
    BY <1>10, <1>11, <1>12

-----------------------------------------------------------------------------
LEMMA ConcatAppend ==
    ASSUME NEW S
    PROVE  \A g, q \in Seq(S) : \A x \in S :
              g \o Append(q, x) = Append(g \o q, x) /\ g \o q \in Seq(S)
  OBVIOUS

(* Data for a stream end that listens: the next payload of the other end. *)
LEMMA DataHit ==
    ASSUME MuxInv, PipeInv, Alone, NEW e \in End, ReadData(e), NEW f, f = Head(inbox[e]),
           NEW s \in Stream, s = EndAt(e, f.from), s \in streams, phase[s] # "dropped"
    PROVE  /\ f.from \in Stream /\ AreEnds(s, f.from) /\ Listening(s) /\ s.at = e
           /\ Rcv(s) \in Seq(Stream \X Nat)
           /\ Len(Rcv(s)') = Len(Rcv(s)) + 1 /\ Len(Rcv(s)) \in Nat
           /\ \A k \in 1 .. Len(Rcv(s)) : Rcv(s)'[k] = Rcv(s)[k]
           /\ Rcv(s)'[Len(Rcv(s)) + 1][1] = f.from /\ Rcv(s)'[Len(Rcv(s)) + 1][2] = f.n
           /\ phase[f.from] # "none" /\ f.n \in 1 .. wrote[f.from]
           /\ \A k \in 1 .. Len(Rcv(s)) : Rcv(s)[k][2] < f.n
           /\ s \notin torn => Expects(s, f.from) /\ f.n = Len(Rcv(s)) + 1
  <1>a. PathInv /\ WaysOK /\ UsersOK
    BY DEF PipeInv, PathInv
  <1>1. /\ Received(e) /\ f.type = "Data"
        /\ UNCHANGED <<table, outbound, pending, relay, loops, phase, sent_close, wrote, got, ended>>
        /\ inbound'[s] = Append(inbound[s], <<f.from, f.n>>)
    BY <1>a, ReadDataFacts
  <1>2. /\ f \in FrameType /\ Said(f) /\ f.from \in Stream /\ e \in Peers(f.from.at) /\ e \in reading
    BY <1>1, <1>a, ReceivedFacts
  <1>3. phase[f.from] # "none" /\ f.n \in Nat /\ f.n # 0 /\ f.n <= wrote[f.from] /\ wrote[f.from] \in Nat
    BY <1>1, <1>2, FrameParts DEF Said, MuxInv, TypeOK
  <1>4. s.at = e /\ AreEnds(s, f.from)
    <2>1. s.at = e
      BY DEF EndAt
    <2>2. f.from.at \in Peers(e)
      BY <1>2, StreamParts, Sides
    <2> QED
      BY <1>2, <2>1, <2>2, EndAtIs
  <1>5. Listening(s)
    <2>1. phase[s] \in {"incoming", "held"}
      BY <1>a DEF UsersOK, MuxInv, TypeOK
    <2> QED
      BY <2>1 DEF Listening, Alive
  <1>6. /\ Rcv(s) \in Seq(Stream \X Nat)
        /\ Len(Rcv(s)') = Len(Rcv(s)) + 1 /\ Len(Rcv(s)) \in Nat
        /\ \A k \in 1 .. Len(Rcv(s)) : Rcv(s)'[k] = Rcv(s)[k]
        /\ Rcv(s)'[Len(Rcv(s)) + 1][1] = f.from /\ Rcv(s)'[Len(Rcv(s)) + 1][2] = f.n
    <2>1. got[s] \in Seq(Stream \X Nat) /\ inbound[s] \in Seq(Stream \X Nat)
      BY DEF MuxInv, TypeOK
    <2>2. PICK x \in Stream \X Nat : x = <<f.from, f.n>>
      BY <1>2, <1>3
    <2>c. PICK P : P = Stream \X Nat
      OBVIOUS
    <2>d. got[s] \in Seq(P) /\ inbound[s] \in Seq(P) /\ x \in P
      BY <2>1, <2>2, <2>c, Zenon
    <2>e. got[s] \o Append(inbound[s], x) = Append(got[s] \o inbound[s], x) /\ got[s] \o inbound[s] \in Seq(P)
      BY <2>d, ConcatAppend
    <2>3. /\ got[s] \o Append(inbound[s], x) = Append(got[s] \o inbound[s], x)
          /\ got[s] \o inbound[s] \in Seq(Stream \X Nat)
      BY <2>c, <2>e, Zenon
    <2>4. Rcv(s)' = got[s] \o Append(inbound[s], x)
      BY <1>1, <2>2 DEF Rcv
    <2>5. Rcv(s)' = Append(Rcv(s), x) /\ Rcv(s) \in Seq(Stream \X Nat)
      BY <2>3, <2>4 DEF Rcv
    <2>6. \A q \in Seq(Stream \X Nat) :
             /\ Len(Append(q, x)) = Len(q) + 1 /\ Len(q) \in Nat
             /\ \A k \in 1 .. Len(q) : Append(q, x)[k] = q[k]
             /\ Append(q, x)[Len(q) + 1] = x
      OBVIOUS
    <2> QED
      BY <2>2, <2>5, <2>6
  <1>b. PICK t \in Stream : t = f.from
    BY <1>2
  <1>7. /\ f \in OnWay(s.at, t) /\ OnWay(s.at, t) = {f} \cup OnWay(s.at, t)'
        /\ \A g \in OnWay(s.at, t)' : f.n < g.n
        /\ \A g \in OnWay(s.at, t) : g.n \in Nat
    <2>1. AreEnds(s, t) /\ PathInv /\ Received(e) /\ UNCHANGED <<outbound, pending, relay, loops>>
      BY <1>1, <1>4, <1>a, <1>b
    <2>2. /\ s.at = e /\ t = f.from =>
                 /\ f \in OnWay(s.at, t) /\ OnWay(s.at, t) = {f} \cup OnWay(s.at, t)'
                 /\ \A g \in OnWay(s.at, t)' : f.n < g.n
                 /\ s = EndAt(e, f.from)
          /\ \A g \in OnWay(s.at, t) : g.n \in Nat
      BY <2>1, ReceivedFirst, SMTT(60)
    <2> QED
      BY <1>4, <1>b, <2>2, Zenon
  <1>8. WayOK(s, t)
    BY <1>4, <1>a, <1>b DEF WaysOK
  <1>9. \A k \in 1 .. Len(Rcv(s)) : Rcv(s)[k][2] < f.n
    BY <1>5, <1>7, <1>8 DEF WayOK
  <1>10. ASSUME s \notin torn PROVE Expects(s, t) /\ f.n = Len(Rcv(s)) + 1
    <2>1. Expects(s, t)
      BY <1>2, <1>4, <1>5, <1>10 DEF Expects
    <2>2. Next1(s, t, f)
      BY <1>7, <1>8, <2>1 DEF WayOK
    <2>3. ASSUME NEW g \in OnWay(s.at, t), g.n + 1 = f.n PROVE FALSE
      <3>1. g.n \in Nat /\ (g = f \/ f.n < g.n)
        BY <1>7, <2>3
      <3> QED
        BY <1>3, <2>3, <3>1
    <2> QED
      BY <1>3, <2>1, <2>2, <2>3 DEF Next1
  <1>11. f.n \in 1 .. wrote[f.from]
    BY <1>3
  <1> QED
    BY <1>2, <1>3, <1>4, <1>5, <1>6, <1>9, <1>10, <1>11, <1>b

(* Without one, what is left is not expected. *)
LEMMA WayMissed ==
    ASSUME MuxInv, PipeInv, NEW e \in End, Received(e), NEW f, f = Head(inbox[e]),
           UNCHANGED <<outbound, pending, relay, loops, phase, wrote, sent_close>>,
           NEW s \in Stream, NEW t \in Stream, AreEnds(s, t), s.at = e, t = f.from,
           ~Listening(s)'
    PROVE  WayOK(s, t)'
  <1>a. PathInv /\ WaysOK
    BY DEF PipeInv
  <1>1. /\ f \in OnWay(s.at, t) /\ OnWay(s.at, t) = {f} \cup OnWay(s.at, t)'
        /\ \A g \in OnWay(s.at, t)' : f.n < g.n
        /\ \A g \in OnWay(s.at, t) : g.n \in Nat
    BY <1>a, ReceivedFirst
  <1>2. ~Expects(s, t)'
    BY <1>1 DEF Expects
  <1>3. WayOK(s, t)
    BY <1>a DEF WaysOK
  <1> QED
    BY <1>1, <1>2, <1>3 DEF WayOK

LEMMA ReadDataWays ==
    ASSUME MuxInv, PipeInv, Alone, NEW e \in End, ReadData(e)
    PROVE  WaysOK'
  <1>a. PathInv /\ RcvOK /\ WaysOK /\ OnceOK /\ FramesOK'
    BY ReadPath DEF PipeInv, PathInv
  <1>0. PICK f : f = Head(inbox[e])
    OBVIOUS
  <1>1. /\ Received(e)
        /\ UNCHANGED <<table, outbound, pending, relay, loops, phase, sent_close, wrote, got, ended>>
        /\ \A s \in Stream : inbound'[s] =
                 IF s = EndAt(e, f.from) /\ s \in streams /\ phase[s] # "dropped"
                   THEN Append(inbound[s], <<f.from, f.n>>) ELSE inbound[s]
    BY <1>0, <1>a, ReadDataFacts
  <1>2. \A s \in Stream : Listening(s)' <=> Listening(s)
    BY <1>1 DEF Listening, Alive, table
  <1> SUFFICES ASSUME NEW s \in Stream, NEW t \in Stream, AreEnds(s, t) PROVE WayOK(s, t)'
    BY DEF WaysOK
  <1>3. WayOK(s, t)
    BY <1>a DEF WaysOK
  <1>4. /\ ~(s.at = e /\ t = f.from) => OnWay(s.at, t)' = OnWay(s.at, t)
        /\ s.at = e /\ t = f.from =>
              /\ f \in OnWay(s.at, t) /\ OnWay(s.at, t) = {f} \cup OnWay(s.at, t)'
              /\ \A g \in OnWay(s.at, t)' : f.n < g.n
              /\ s = EndAt(e, f.from)
        /\ Reaches(t.at, s.at)' = Reaches(t.at, s.at)
        /\ \A g \in OnWay(s.at, t) : g.n \in Nat
        /\ OnWay(s.at, t)' \subseteq OnWay(s.at, t)
    BY <1>0, <1>1, <1>a, ReceivedFirst
  <1>5. CASE phase[t] = "none"
    BY <1>1, <1>5, <1>a, WayQuiet
  <1>6. CASE phase[t] # "none" /\ s = EndAt(e, f.from) /\ s \in streams /\ phase[s] # "dropped"
    <2>1. /\ f.from \in Stream /\ AreEnds(s, f.from) /\ Listening(s) /\ s.at = e
          /\ Rcv(s) \in Seq(Stream \X Nat)
          /\ Len(Rcv(s)') = Len(Rcv(s)) + 1 /\ Len(Rcv(s)) \in Nat
          /\ \A k \in 1 .. Len(Rcv(s)) : Rcv(s)'[k] = Rcv(s)[k]
          /\ Rcv(s)'[Len(Rcv(s)) + 1][1] = f.from /\ Rcv(s)'[Len(Rcv(s)) + 1][2] = f.n
          /\ phase[f.from] # "none" /\ f.n \in 1 .. wrote[f.from]
          /\ \A k \in 1 .. Len(Rcv(s)) : Rcv(s)[k][2] < f.n
          /\ s \notin torn => Expects(s, f.from) /\ f.n = Len(Rcv(s)) + 1
      BY <1>0, <1>6, DataHit, SMTT(60)
    <2>2. t = f.from
      BY <1>6, <1>a, <2>1, OneMate
    <2>3. /\ Len(Rcv(s)') = Len(Rcv(s)) + 1 /\ Len(Rcv(s)) \in Nat
          /\ \A k \in 1 .. Len(Rcv(s)) : Rcv(s)'[k] = Rcv(s)[k]
          /\ Rcv(s)'[Len(Rcv(s)) + 1][2] = f.n
      BY <2>1
    <2>4. /\ OnWay(s.at, t) = {f} \cup OnWay(s.at, t)' /\ \A g \in OnWay(s.at, t)' : f.n < g.n /\ g.n \in Nat
          /\ f.n \in Nat
      BY <1>4, <2>1, <2>2
    <2>5. \A k \in 1 .. Len(Rcv(s)') : Rcv(s)'[k][2] <= f.n /\ Rcv(s)'[k][2] \in Nat
      <3>1. ASSUME NEW k \in 1 .. Len(Rcv(s)) PROVE Rcv(s)'[k][2] <= f.n /\ Rcv(s)'[k][2] \in Nat
        <4>1. Rcv(s)[k][2] < f.n /\ Rcv(s)[k][2] \in Nat /\ Rcv(s)'[k] = Rcv(s)[k]
          BY <2>1, <2>3
        <4> QED
          BY <2>4, <4>1
      <3>2. Rcv(s)'[Len(Rcv(s)) + 1][2] <= f.n /\ Rcv(s)'[Len(Rcv(s)) + 1][2] \in Nat
        BY <2>3, <2>4
      <3> QED
        BY <2>3, <3>1, <3>2
    <2>6. \A g \in OnWay(s.at, t)' : \A k \in 1 .. Len(Rcv(s)') : Rcv(s)'[k][2] < g.n
      <3> SUFFICES ASSUME NEW g \in OnWay(s.at, t)', NEW k \in 1 .. Len(Rcv(s)') PROVE Rcv(s)'[k][2] < g.n
        OBVIOUS
      <3>1. Rcv(s)'[k][2] <= f.n /\ Rcv(s)'[k][2] \in Nat /\ f.n < g.n /\ g.n \in Nat /\ f.n \in Nat
        BY <2>4, <2>5
      <3> QED
        BY <3>1
    <2>7. ASSUME Expects(s, t)' PROVE Expects(s, t) /\ f.n = Len(Rcv(s)) + 1
      BY <1>1, <2>1, <2>2, <2>7 DEF Expects, relay
    <2>8. ASSUME Expects(s, t)', NEW g \in OnWay(s.at, t)' PROVE Next1(s, t, g)'
      <3>1. Next1(s, t, g) /\ f.n = Len(Rcv(s)) + 1 /\ f.n < g.n /\ g.n \in Nat
        BY <1>3, <2>4, <2>7, <2>8 DEF WayOK
      <3>2. PICK h \in OnWay(s.at, t) : h.n + 1 = g.n
        BY <2>4, <3>1 DEF Next1
      <3>3. CASE h = f
        BY <2>3, <3>1, <3>2, <3>3 DEF Next1
      <3>4. CASE h # f
        BY <2>4, <3>2, <3>4 DEF Next1
      <3> QED
        BY <3>3, <3>4
    <2>9. ASSUME Expects(s, t)', Reaches(t.at, s.at)', t.at \in writing', t \notin sent_close'
          PROVE  Topped(s, t)'
      <3>1. Topped(s, t) /\ f.n = Len(Rcv(s)) + 1 /\ f.n \in 1 .. wrote[t]
        BY <1>1, <1>3, <1>4, <1>6, <2>1, <2>2, <2>7, <2>9 DEF WayOK, loops
      <3>2. PICK g \in OnWay(s.at, t) : g.n = wrote[t]
        <4>1. wrote[t] # Len(Rcv(s))
          BY <2>3, <3>1
        <4> QED
          BY <3>1, <4>1 DEF Topped
      <3>3. CASE g = f
        BY <1>1, <2>3, <3>1, <3>2, <3>3 DEF Topped
      <3>4. CASE g # f
        BY <1>1, <2>4, <3>2, <3>4 DEF Topped
      <3> QED
        BY <3>3, <3>4
    <2>10. phase'[s] # "none" => \A g \in OnWay(s.at, t)' : g.n > 0
      BY <2>1, <2>4
    <2> QED
      BY <2>6, <2>8, <2>9, <2>10 DEF WayOK
  <1>7. CASE phase[t] # "none" /\ ~(s = EndAt(e, f.from) /\ s \in streams /\ phase[s] # "dropped")
    <2>1. Rcv(s)' = Rcv(s)
      BY <1>1, <1>7 DEF Rcv
    <2>2. CASE s.at = e /\ t = f.from
      <3>1. ~Listening(s)'
        BY <1>2, <1>4, <1>7, <2>2 DEF Listening, Alive
      <3> QED
        BY <1>0, <1>1, <2>2, <3>1, WayMissed
    <2>3. CASE ~(s.at = e /\ t = f.from)
      <3>1. UNCHANGED <<torn, reading, writing, wrote, sent_close, phase>>
        BY <1>1 DEF relay, loops
      <3> QED
        BY <1>2, <1>3, <1>4, <2>1, <2>3, <3>1, WayKept
    <2> QED
      BY <2>2, <2>3
  <1> QED
    BY <1>5, <1>6, <1>7

LEMMA ReadCloseWays ==
    ASSUME MuxInv, PipeInv, Alone, NEW e \in End, ReadClose(e)
    PROVE  WaysOK'
  <1>a. PathInv /\ WaysOK
    BY DEF PipeInv
  <1>0. PICK f : f = Head(inbox[e])
    OBVIOUS
  <1>1. /\ Received(e)
        /\ UNCHANGED <<opened, removing, lent, outbound, pending, relay, loops, users>>
        /\ streams' = streams \ {EndAt(e, f.from)}
    BY <1>0, <1>a, ReadCloseFacts
  <1> SUFFICES ASSUME NEW s \in Stream, NEW t \in Stream, AreEnds(s, t) PROVE WayOK(s, t)'
    BY DEF WaysOK
  <1>3. WayOK(s, t) /\ Rcv(s)' = Rcv(s) /\ (Listening(s)' => Listening(s))
    BY <1>1, <1>a DEF WaysOK, Rcv, Listening, Alive, users
  <1>4. /\ ~(s.at = e /\ t = f.from) => OnWay(s.at, t)' = OnWay(s.at, t)
        /\ s.at = e /\ t = f.from => s = EndAt(e, f.from)
        /\ Reaches(t.at, s.at)' = Reaches(t.at, s.at)
        /\ \A g \in OnWay(s.at, t) : g.n \in Nat
    BY <1>0, <1>1, <1>a, ReceivedFirst
  <1>5. CASE s.at = e /\ t = f.from
    <2>1. ~Listening(s)'
      BY <1>1, <1>4, <1>5 DEF Listening
    <2> QED
      BY <1>0, <1>1, <1>5, <2>1, WayMissed DEF users
  <1>6. CASE ~(s.at = e /\ t = f.from)
    <2>1. UNCHANGED <<torn, reading, writing, wrote, sent_close, phase>>
      BY <1>1 DEF relay, loops, users
    <2> QED
      BY <1>3, <1>4, <1>6, <2>1, WayKept
  <1> QED
    BY <1>5, <1>6

-----------------------------------------------------------------------------
-----------------------------------------------------------------------------
(* A frame moves on, or the relay loses it: for a stream end that goes on     *)
(* expecting, nothing is lost.                                                *)

LEMMA WriteFrameWays ==
    ASSUME MuxInv, PipeInv, Alone, NEW e \in End, WriteFrame(e)
    PROVE  WaysOK'
  <1>0. PICK f : f = Head(outbound[e])
    OBVIOUS
  <1>a. OrderOK /\ RelayOK /\ PathInv /\ WaysOK /\ FramesOK'
    BY WriteFramePath DEF PathInv, PipeInv
  <1>1. /\ f \in Range(outbound[e]) /\ f \in FrameType
        /\ f.from \in Stream /\ f.from.at = e
        /\ Range(outbound[e]) = {f} \cup Range(outbound'[e])
        /\ \A g \in Range(outbound'[e]) : g.from = f.from => f.n < g.n
        /\ \A b \in End : b # e => outbound'[b] = outbound[b]
        /\ UNCHANGED <<table, joined, left, route, loops, users>>
        /\ pending' = IF e \in Access /\ route = {} THEN Buffered(pending, f) ELSE pending
    BY <1>0, <1>a, WriteFrameFacts
  <1>2. PICK full \in SUBSET Targets(e) :
           /\ \A p \in End : inbox'[p] = IF p \in (Targets(e) \cap up) \ full
                                         THEN Append(inbox[p], f) ELSE inbox[p]
           /\ torn' = torn \cup (Stream \cap {EndAt(p, f.from) : p \in full})
    BY <1>0, <1>a, WriteFrameFacts
  <1>3. \A b, p \in End : Reaches(b, p)' = Reaches(b, p)
    BY <1>1 DEF Reaches, loops
  <1>4. ASSUME e \in Access, route = {}
        PROVE  /\ f \in Range(pending') /\ Range(pending') \subseteq Range(pending) \cup {f}
               /\ \A g \in Range(pending) \ Range(pending') : \A h \in Range(pending') : h.from = g.from => g.n < h.n
    <2>1. pending \in Seq(FrameType) /\ Increasing(pending) /\ Before(pending, outbound[e])
      BY <1>a, <1>4 DEF MuxInv, TypeOK, OrderOK
    <2>2. \A g \in Range(pending) : g.from = f.from => g.n < f.n
      BY <1>1, <2>1 DEF Before
    <2> QED
      BY <1>1, <1>4, <2>1, <2>2, BufferedFrames
  <1> SUFFICES ASSUME NEW s \in Stream, NEW t \in Stream, AreEnds(s, t) PROVE WayOK(s, t)'
    BY DEF WaysOK
  <1>5. CASE phase[t] = "none"
    BY <1>1, <1>5, <1>a, WayQuiet DEF users
  <1>6. CASE phase[t] # "none"
    <2>1. /\ s.at \in End /\ t.at \in End
          /\ s.at \in Node => t.at \in Access
          /\ t.at \in Access <=> s.at \in Node /\ s.at \notin Access
          /\ t.at \in Node <=> s.at \in Access /\ s.at \notin Node
      <3>1. s.at \in End /\ t.at \in Peers(s.at)
        BY StreamParts DEF AreEnds
      <3> QED
        BY <3>1, Sides, MuxAssumption DEF End
    <2>2. /\ \A g \in From(pending, t) : \A h \in From(outbound[t.at], t) : g.n < h.n
          /\ From(pending, t) # {} => t.at \in Access /\ s.at \in Node /\ route = {}
          /\ \A g \in From(inbox[s.at], t) \cup From(outbound[t.at], t) \cup From(pending, t) : g.n \in Nat
          /\ s.at \notin joined => From(inbox[s.at], t) = {} /\ phase[s] = "none"
          /\ Reaches(t.at, s.at) => s.at \in up
      BY <1>6, <1>a, InOrder
    <2>3. Reaches(t.at, s.at)' = Reaches(t.at, s.at)
      BY <1>3, <2>1
    <2>4. /\ From(outbound'[t.at], t) \subseteq From(outbound[t.at], t)
          /\ From(outbound[t.at], t) \subseteq From(outbound'[t.at], t) \cup {f}
          /\ f.from # t => From(outbound'[t.at], t) = From(outbound[t.at], t)
          /\ f.from = t => /\ t.at = e /\ f \in From(outbound[t.at], t)
                           /\ \A g \in From(outbound'[t.at], t) : f.n < g.n
      <3>1. CASE t.at = e
        BY <1>1, <3>1 DEF From
      <3>2. CASE t.at # e
        BY <1>1, <2>1, <3>2 DEF From
      <3> QED
        BY <3>1, <3>2
    <2>5. From(inbox'[s.at], t) = IF f.from = t /\ s.at \in (Targets(e) \cap up) \ full
                                    THEN From(inbox[s.at], t) \cup {f} ELSE From(inbox[s.at], t)
      <3>1. Range(Append(inbox[s.at], f)) = Range(inbox[s.at]) \cup {f}
        BY <1>1, <2>1, WireFrames, RangeAppend
      <3> QED
        BY <1>2, <2>1, <3>1 DEF From
    <2>6. /\ From(pending', t) \subseteq From(pending, t) \cup {f}
          /\ f.from # t => From(pending', t) \subseteq From(pending, t)
          /\ ~(e \in Access /\ route = {}) => From(pending', t) = From(pending, t)
          /\ e \in Access /\ route = {} /\ f.from = t => f \in From(pending', t)
          /\ \A g \in From(pending, t) \ From(pending', t) : \A h \in From(pending', t) : g.n < h.n
      <3>1. CASE e \in Access /\ route = {}
        BY <1>4, <3>1 DEF From
      <3>2. CASE ~(e \in Access /\ route = {})
        BY <1>1, <3>2 DEF From
      <3> QED
        BY <3>1, <3>2
    <2>7. f.from = t /\ s.at \in Targets(e) \cap up => Reaches(t.at, s.at)
      BY <2>1, <2>4, Sides, StreamParts DEF Targets, Reaches, AreEnds
    <2>8. OnWay(s.at, t)' \subseteq OnWay(s.at, t)
      BY <2>3, <2>4, <2>5, <2>6, <2>7 DEF OnWay
    <2>9. ASSUME Expects(s, t)' PROVE OnWay(s.at, t)' = OnWay(s.at, t)
      <3>1. CASE ~Reaches(t.at, s.at)
        BY <2>3, <2>5, <2>7, <3>1 DEF OnWay
      <3>2. CASE Reaches(t.at, s.at)
        <4>0. /\ OnWay(s.at, t) = From(inbox[s.at], t) \cup (From(outbound[t.at], t) \cup From(pending, t))
              /\ OnWay(s.at, t)' = From(inbox'[s.at], t) \cup (From(outbound'[t.at], t) \cup From(pending', t))
              /\ s.at \in up /\ (s.at \in Node => s.at \in route \/ s.at \notin joined)
          BY <2>2, <2>3, <3>2 DEF OnWay, Reaches
        <4>1. ASSUME s.at \notin joined PROVE \E h \in From(outbound'[t.at], t) \cup From(pending', t) : h.n = 0
          <5>1. (phase'[s] = "none" /\ From(inbox'[s.at], t) = {}) \/ s.at \in Targets(e)
            BY <1>1, <2>2, <2>5, <4>1 DEF users
          <5>2. s.at \notin Targets(e)
            BY <1>a, <4>1, <2>1 DEF Targets, RelayOK
          <5>3. \E h \in OnWay(s.at, t)' : h.n = 0
            BY <2>9, <5>1, <5>2 DEF Expects, Listening, Alive
          <5> QED
            BY <4>0, <5>1, <5>2, <5>3
        <4>2. From(pending, t) \subseteq From(pending', t)
          <5> SUFFICES ASSUME NEW g \in From(pending, t), g \notin From(pending', t) PROVE FALSE
            OBVIOUS
          <5>1. s.at \in Node /\ route = {} /\ s.at \notin joined
            BY <2>2, <4>0
          <5>2. PICK h \in From(outbound'[t.at], t) \cup From(pending', t) : h.n = 0
            BY <4>1, <5>1
          <5>3. g.n < h.n
            BY <2>2, <2>4, <2>6, <5>2
          <5> QED
            BY <2>2, <5>2, <5>3
        <4>3. CASE f.from # t
          <5>1. From(pending', t) = From(pending, t) /\ From(outbound'[t.at], t) = From(outbound[t.at], t)
                /\ From(inbox'[s.at], t) = From(inbox[s.at], t)
            BY <2>4, <2>5, <2>6, <4>2, <4>3
          <5> QED
            BY <4>0, <5>1
        <4>4. CASE f.from = t
          <5>1. t.at = e /\ f \in From(outbound[t.at], t)
            BY <2>4, <4>4
          <5>2. s.at \notin full
            <6>1. s = EndAt(s.at, f.from)
              BY <4>4, EndAtIs
            <6> QED
              BY <1>2, <2>9, <6>1 DEF Expects
          <5>3. f \in From(inbox'[s.at], t) \cup From(pending', t)
            <6>1. CASE s.at \in Targets(e)
              BY <2>5, <4>0, <4>4, <5>2, <6>1
            <6>2. CASE s.at \notin Targets(e)
              <7>1. t.at \in Access
                <8>1. ASSUME t.at \in Node PROVE FALSE
                  <9>1. s.at \in left
                    BY <2>1, <5>1, <6>2, <8>1 DEF Targets
                  <9> QED
                    BY <4>0, <9>1 DEF MuxInv, TypeOK
                <8> QED
                  BY <2>1, <8>1 DEF End
              <7>2. s.at \notin joined
                BY <2>1, <4>0, <5>1, <6>2, <7>1, MuxAssumption DEF Targets
              <7>3. ASSUME route # {} PROVE FALSE
                <8>1. pending = <<>> /\ From(pending, t) = {} /\ From(pending', t) = {}
                  BY <1>a, <2>6, <7>3, RangeEmpty DEF RelayOK, From
                <8>2. PICK h \in From(outbound'[t.at], t) : h.n = 0
                  BY <4>1, <7>2, <8>1
                <8>3. f.n < 0 /\ f.n \in Nat
                  BY <1>1, <2>4, <4>4, <8>2, FrameParts
                <8> QED
                  BY <8>3
              <7> QED
                BY <2>6, <4>4, <5>1, <7>1, <7>3
            <6> QED
              BY <6>1, <6>2
          <5> QED
            BY <2>4, <2>5, <2>8, <4>0, <4>2, <5>3
        <4> QED
          BY <4>3, <4>4
      <3> QED
        BY <3>1, <3>2
    <2>10. /\ phase' = phase /\ wrote' = wrote /\ sent_close' = sent_close /\ streams' = streams
           /\ reading' = reading /\ writing' = writing /\ torn \subseteq torn'
           /\ Rcv(s)' = Rcv(s)
      BY <1>1, <1>2 DEF users, table, loops, Rcv
    <2>11. Listening(s)' => Listening(s)
      BY <2>10 DEF Listening, Alive
    <2>12. WayOK(s, t) /\ \A g \in OnWay(s.at, t) : g.n \in Nat
      BY <1>a, WayNat DEF WaysOK
    <2> QED
      BY <2>3, <2>8, <2>9, <2>10, <2>11, <2>12, WayKept
  <1> QED
    BY <1>5, <1>6

-----------------------------------------------------------------------------

LEMMA RegisterWays ==
    ASSUME MuxInv, PipeInv, NEW i \in End, Register(i)
    PROVE  WaysOK'
  <1>a. OrderOK /\ RelayOK /\ PathInv /\ WaysOK /\ FramesOK'
    BY RegisterPath DEF PathInv, PipeInv
  <1>1. /\ i \in Node \ joined /\ joined' = joined \cup {i} /\ route' = {i} /\ pending' = <<>>
        /\ UNCHANGED <<table, outbound, left, loops, users>>
        /\ \A p \in End : p # i => inbox'[p] = inbox[p]
    BY <1>a, RegisterFacts
  <1>2. PICK kept \in Seq(FrameType) :
           /\ Range(kept) \subseteq Range(pending)
           /\ inbox'[i] = IF i \in up THEN kept ELSE <<>>
           /\ torn' = torn \cup
                       (Stream \cap {EndAt(i, f.from) : f \in Range(pending) \ Range(kept)})
    BY <1>a, RegisterFacts
  <1>3. inbox[i] = <<>>
    BY <1>1, <1>a DEF RelayOK
  <1> SUFFICES ASSUME NEW s \in Stream, NEW t \in Stream, AreEnds(s, t) PROVE WayOK(s, t)'
    BY DEF WaysOK
  <1>5. CASE phase[t] = "none"
    BY <1>1, <1>5, <1>a, WayQuiet DEF users
  <1>6. CASE phase[t] # "none"
    <2>1. /\ s.at \in End /\ t.at \in End /\ s.at \in Peers(t.at)
          /\ s.at \in Access => s.at \notin Node
      <3>1. s.at \in End /\ t.at \in Peers(s.at)
        BY StreamParts DEF AreEnds
      <3> QED
        BY <3>1, Sides, MuxAssumption DEF End
    <2>2. /\ \A g \in From(pending, t) : \A h \in From(outbound[t.at], t) : g.n < h.n
          /\ Reaches(t.at, s.at) =>
                \A g \in From(inbox[s.at], t) :
                   \A h \in From(outbound[t.at], t) \cup From(pending, t) : g.n < h.n
          /\ From(pending, t) # {} => s.at \in Node
          /\ \A g \in From(inbox[s.at], t) \cup From(outbound[t.at], t) \cup From(pending, t) :
                g.n \in Nat /\ g.from = t
          /\ s.at \notin joined => From(inbox[s.at], t) = {} /\ phase[s] = "none"
      BY <1>6, <1>a, InOrder
    <2>3. From(outbound'[t.at], t) = From(outbound[t.at], t) /\ From(pending', t) = {}
      BY <1>1, RangeEmpty DEF From
    <2>4. (Reaches(t.at, s.at)' => Reaches(t.at, s.at)) /\ (s.at = i \/ s.at \in Access => Reaches(t.at, s.at)' = Reaches(t.at, s.at))
      BY <1>1, <2>1 DEF Reaches, loops
    <2>5. CASE s.at = i
      <3>1. From(inbox[s.at], t) = {} /\ From(inbox'[s.at], t) \subseteq From(pending, t)
            /\ (i \in up => From(inbox'[s.at], t) = From(kept, t))
            /\ (i \notin up => From(inbox'[s.at], t) = {})
        BY <1>2, <1>3, <2>5, RangeEmpty DEF From
      <3>2. Reaches(t.at, s.at) <=> i \in up
        BY <1>1, <2>1, <2>5 DEF Reaches
      <3>3. OnWay(s.at, t)' \subseteq OnWay(s.at, t)
        BY <2>3, <2>4, <2>5, <3>1, <3>2 DEF OnWay
      <3>4. ASSUME s \notin torn' PROVE From(pending, t) \subseteq From(kept, t)
        <4> SUFFICES ASSUME NEW g \in Range(pending), g.from = t, g \notin Range(kept) PROVE FALSE
          BY DEF From
        <4>1. s = EndAt(i, g.from)
          BY <2>5, EndAtIs
        <4> QED
          BY <1>2, <3>4, <4>1
      <3>5. Expects(s, t)' => OnWay(s.at, t)' = OnWay(s.at, t)
        BY <2>3, <2>4, <2>5, <3>1, <3>2, <3>3, <3>4 DEF OnWay, Expects
      <3> QED
        BY <3>3, <3>5, <1>1, <1>2, <1>a, <2>4, <2>5, WayNat, WayKept
           DEF WaysOK, users, table, loops, Rcv, Listening, Alive
    <2>6. CASE s.at # i
      <3>0. From(inbox'[s.at], t) = From(inbox[s.at], t)
        BY <1>1, <2>1, <2>6
      <3>1. OnWay(s.at, t)' \subseteq OnWay(s.at, t)
        BY <2>3, <2>4, <3>0 DEF OnWay
      <3>2. CASE s.at \in Access
        <4>1. OnWay(s.at, t)' = OnWay(s.at, t) /\ Reaches(t.at, s.at)' = Reaches(t.at, s.at)
          BY <2>1, <2>2, <2>3, <2>4, <3>0, <3>2 DEF OnWay
        <4> QED
          BY <4>1, <1>1, <1>2, <1>a, WayNat, WayKept
             DEF WaysOK, users, table, loops, Rcv, Listening, Alive
      <3>3. CASE s.at \in Node /\ Reaches(t.at, s.at)'
        <4>1. s.at \notin joined /\ phase[s] = "none" /\ phase' = phase /\ From(inbox[s.at], t) = {}
          BY <1>1, <2>2, <2>6, <3>3 DEF Reaches, users
        <4>2. ASSUME Expects(s, t)' PROVE OnWay(s.at, t)' = OnWay(s.at, t)
          <5>1. OnWay(s.at, t)' = From(outbound[t.at], t)
                /\ OnWay(s.at, t) = From(outbound[t.at], t) \cup From(pending, t)
            BY <2>3, <2>4, <3>0, <3>3, <4>1 DEF OnWay
          <5>2. PICK h \in OnWay(s.at, t)' : h.n = 0
            BY <4>1, <4>2 DEF Expects, Listening, Alive
          <5>3. ASSUME NEW g \in From(pending, t) PROVE FALSE
            <6>1. g.n < h.n /\ g.n \in Nat
              BY <2>2, <5>1, <5>2
            <6> QED
              BY <5>2, <6>1
          <5> QED
            BY <5>1, <5>3
        <4> QED
          BY <4>2, <3>1, <1>1, <1>2, <1>a, <2>4, WayNat, WayKept
             DEF WaysOK, users, table, loops, Rcv, Listening, Alive
      <3>4. CASE ~Reaches(t.at, s.at)'
        <4>1. OnWay(s.at, t)' = From(inbox[s.at], t)
          BY <3>0, <3>4 DEF OnWay
        <4>2. ASSUME NEW g \in OnWay(s.at, t)', NEW h \in OnWay(s.at, t), h.n < g.n PROVE h \in OnWay(s.at, t)'
          <5>1. CASE h \in From(inbox[s.at], t)
            BY <4>1, <5>1
          <5>2. CASE h \notin From(inbox[s.at], t)
            <6>1. Reaches(t.at, s.at) /\ h \in From(outbound[t.at], t) \cup From(pending, t)
              BY <4>2, <5>2 DEF OnWay
            <6>2. g.n < h.n /\ g.n \in Nat /\ h.n \in Nat
              BY <2>2, <4>1, <4>2, <6>1
            <6> QED
              BY <4>2, <6>2
          <5> QED
            BY <5>1, <5>2
        <4> QED
          BY <4>2, <3>1, <3>4, <1>1, <1>2, <1>a, WayNat, WayKept
             DEF WaysOK, users, table, loops, Rcv, Listening, Alive
      <3> QED
        BY <2>1, <3>2, <3>3, <3>4 DEF End
    <2> QED
      BY <2>5, <2>6
  <1> QED
    BY <1>5, <1>6

-----------------------------------------------------------------------------
-----------------------------------------------------------------------------
(* What the stream ends have received. *)

LEMMA RcvKept ==
    ASSUME MuxInv, RcvOK, torn \subseteq torn',
           \A s \in Stream : /\ Len(Rcv(s)') <= Len(Rcv(s)) /\ Len(Rcv(s)') \in Nat
                             /\ \A k \in 1 .. Len(Rcv(s)') : Rcv(s)'[k] = Rcv(s)[k],
           \A t \in Stream : phase[t] # "none" => phase'[t] # "none",
           \A t \in Stream : wrote'[t] \in Nat /\ wrote[t] <= wrote'[t]
    PROVE  RcvOK'
  <1> SUFFICES ASSUME NEW s \in Stream, NEW k \in 1 .. Len(Rcv(s)')
               PROVE  /\ AreEnds(s, Rcv(s)'[k][1]) /\ phase'[Rcv(s)'[k][1]] # "none"
                      /\ Rcv(s)'[k][2] \in 1 .. wrote'[Rcv(s)'[k][1]]
                      /\ s \notin torn' => Rcv(s)'[k][2] = k
                      /\ \A j \in 1 .. k - 1 : Rcv(s)'[j][2] < Rcv(s)'[k][2]
    BY DEF RcvOK
  <1>1. k \in 1 .. Len(Rcv(s)) /\ Rcv(s)'[k] = Rcv(s)[k]
        /\ \A j \in 1 .. k - 1 : Rcv(s)'[j] = Rcv(s)[j]
    <2>1. Len(Rcv(s)) \in Nat /\ Len(Rcv(s)') \in Nat /\ Len(Rcv(s)') <= Len(Rcv(s))
      BY RcvFacts
    <2> QED
      BY <2>1
  <1>2. Rcv(s)[k][1] \in Stream
    <2>1. Rcv(s) \in Seq(Stream \X Nat)
      BY RcvFacts
    <2> QED
      BY <1>1, <2>1
  <1>3. /\ AreEnds(s, Rcv(s)[k][1]) /\ phase[Rcv(s)[k][1]] # "none"
        /\ Rcv(s)[k][2] \in 1 .. wrote[Rcv(s)[k][1]]
        /\ s \notin torn => Rcv(s)[k][2] = k
        /\ \A j \in 1 .. k - 1 : Rcv(s)[j][2] < Rcv(s)[k][2]
    BY <1>1 DEF RcvOK
  <1>4. wrote[Rcv(s)[k][1]] \in Nat
    BY <1>2 DEF MuxInv, TypeOK
  <1> QED
    BY <1>1, <1>2, <1>3, <1>4

(* One more payload for some stream end. *)
LEMMA ReadDataRcv ==
    ASSUME MuxInv, PipeInv, Alone, NEW e \in End, ReadData(e)
    PROVE  RcvOK'
  <1>a. PathInv /\ RcvOK
    BY DEF PipeInv
  <1>0. PICK f : f = Head(inbox[e])
    OBVIOUS
  <1>1. /\ UNCHANGED <<table, outbound, pending, relay, loops, phase, sent_close, wrote, got, ended>>
        /\ \A s \in Stream : inbound'[s] =
                 IF s = EndAt(e, f.from) /\ s \in streams /\ phase[s] # "dropped"
                   THEN Append(inbound[s], <<f.from, f.n>>) ELSE inbound[s]
    BY <1>0, <1>a, ReadDataFacts
  <1> SUFFICES ASSUME NEW s \in Stream, NEW k \in 1 .. Len(Rcv(s)')
               PROVE  /\ AreEnds(s, Rcv(s)'[k][1]) /\ phase[Rcv(s)'[k][1]] # "none"
                      /\ Rcv(s)'[k][2] \in 1 .. wrote[Rcv(s)'[k][1]]
                      /\ s \notin torn => Rcv(s)'[k][2] = k
                      /\ \A j \in 1 .. k - 1 : Rcv(s)'[j][2] < Rcv(s)'[k][2]
    BY <1>1 DEF RcvOK, relay
  <1>2. CASE s = EndAt(e, f.from) /\ s \in streams /\ phase[s] # "dropped"
    <2>1. /\ f.from \in Stream /\ AreEnds(s, f.from) /\ Listening(s) /\ s.at = e
          /\ Rcv(s) \in Seq(Stream \X Nat)
          /\ Len(Rcv(s)') = Len(Rcv(s)) + 1 /\ Len(Rcv(s)) \in Nat
          /\ \A j \in 1 .. Len(Rcv(s)) : Rcv(s)'[j] = Rcv(s)[j]
          /\ Rcv(s)'[Len(Rcv(s)) + 1][1] = f.from /\ Rcv(s)'[Len(Rcv(s)) + 1][2] = f.n
          /\ phase[f.from] # "none" /\ f.n \in 1 .. wrote[f.from]
          /\ \A j \in 1 .. Len(Rcv(s)) : Rcv(s)[j][2] < f.n
          /\ s \notin torn => Expects(s, f.from) /\ f.n = Len(Rcv(s)) + 1
      BY <1>0, <1>2, DataHit, SMTT(60)
    <2>2. CASE k = Len(Rcv(s)) + 1
      <3>1. \A j \in 1 .. k - 1 : j \in 1 .. Len(Rcv(s))
        BY <2>1, <2>2
      <3> QED
        BY <2>1, <2>2, <3>1
    <2>3. CASE k # Len(Rcv(s)) + 1
      <3>1. k \in 1 .. Len(Rcv(s)) /\ \A j \in 1 .. k - 1 : j \in 1 .. Len(Rcv(s))
        BY <2>1, <2>3
      <3>2. /\ AreEnds(s, Rcv(s)[k][1]) /\ phase[Rcv(s)[k][1]] # "none"
            /\ Rcv(s)[k][2] \in 1 .. wrote[Rcv(s)[k][1]]
            /\ s \notin torn => Rcv(s)[k][2] = k
            /\ \A j \in 1 .. k - 1 : Rcv(s)[j][2] < Rcv(s)[k][2]
        BY <1>a, <3>1 DEF RcvOK
      <3>3. Rcv(s)'[k] = Rcv(s)[k] /\ \A j \in 1 .. k - 1 : Rcv(s)'[j] = Rcv(s)[j]
        BY <2>1, <3>1
      <3> QED
        BY <3>2, <3>3
    <2> QED
      BY <2>2, <2>3
  <1>3. CASE ~(s = EndAt(e, f.from) /\ s \in streams /\ phase[s] # "dropped")
    <2>1. Rcv(s)' = Rcv(s)
      BY <1>1, <1>3 DEF Rcv
    <2> QED
      BY <1>a, <2>1 DEF RcvOK
  <1> QED
    BY <1>2, <1>3

LEMMA ClosedKept ==
    ASSUME ClosedOK,
           \A s \in Stream : Alive(s)' /\ s \notin streams' => Alive(s) /\ s \notin streams /\ Rcv(s)' = Rcv(s),
           torn \subseteq torn', sent_close \subseteq sent_close',
           \A t \in sent_close : wrote'[t] = wrote[t]
    PROVE  ClosedOK'
  BY DEF ClosedOK

(* The Close comes after all payloads. *)
LEMMA ReadCloseClosed ==
    ASSUME MuxInv, PipeInv, Alone, NEW e \in End, ReadClose(e)
    PROVE  ClosedOK'
  <1>a. PathInv /\ WaysOK /\ ClosedOK
    BY DEF PipeInv
  <1>0. PICK f : f = Head(inbox[e])
    OBVIOUS
  <1>1. /\ Received(e) /\ f.type = "Close"
        /\ UNCHANGED <<opened, removing, lent, outbound, pending, relay, loops, users>>
        /\ streams' = streams \ {EndAt(e, f.from)}
    BY <1>0, <1>a, ReadCloseFacts
  <1>2. /\ f \in FrameType /\ Said(f) /\ f.from \in Stream /\ e \in Peers(f.from.at) /\ e \in reading
    BY <1>0, <1>1, <1>a, ReceivedFacts
  <1> SUFFICES ASSUME NEW s \in Stream, Alive(s), s \notin streams'
               PROVE  \E t \in Stream : AreEnds(s, t) /\ t \in sent_close
                                        /\ (s \notin torn => Len(Rcv(s)) = wrote[t])
    BY <1>1 DEF ClosedOK, Alive, Rcv, relay, users
  <1>3. CASE s \notin streams
    BY <1>3, <1>a DEF ClosedOK
  <1>4. CASE s \in streams
    <2>1. s = EndAt(e, f.from) /\ s.at = e
      BY <1>1, <1>4 DEF EndAt
    <2>2. PICK t \in Stream : t = f.from
      BY <1>2
    <2>3. AreEnds(s, t)
      <3>1. t.at \in Peers(e)
        BY <1>2, <2>2, StreamParts, Sides
      <3> QED
        BY <2>1, <2>2, <3>1, EndAtIs
    <2>4. t \in sent_close /\ f.n = wrote[t] + 1 /\ wrote[t] \in Nat /\ f.n \in Nat
      BY <1>1, <1>2, <2>2, FrameParts DEF Said, MuxInv, TypeOK
    <2>5. ASSUME s \notin torn PROVE Len(Rcv(s)) = wrote[t]
      <3>1. Expects(s, t)
        BY <1>2, <1>4, <2>1, <2>5 DEF Expects, Listening
      <3>2. /\ f \in OnWay(s.at, t) /\ OnWay(s.at, t) = {f} \cup OnWay(s.at, t)'
            /\ \A g \in OnWay(s.at, t)' : f.n < g.n
            /\ \A g \in OnWay(s.at, t) : g.n \in Nat
        <4>1. UNCHANGED <<outbound, pending, relay, loops>>
          BY <1>1
        <4>2. s.at = e /\ t = f.from =>
                 /\ f \in OnWay(s.at, t) /\ OnWay(s.at, t) = {f} \cup OnWay(s.at, t)'
                 /\ \A g \in OnWay(s.at, t)' : f.n < g.n
                 /\ s = EndAt(e, f.from)
          BY <1>0, <1>1, <1>a, <2>3, <4>1, ReceivedFirst, SMTT(60)
        <4>3. \A g \in OnWay(s.at, t) : g.n \in Nat
          BY WayNat
        <4> QED
          BY <2>1, <2>2, <4>2, <4>3
      <3>3. Next1(s, t, f)
        BY <1>a, <2>3, <3>1, <3>2 DEF WaysOK, WayOK
      <3>4. ASSUME NEW g \in OnWay(s.at, t), g.n + 1 = f.n PROVE FALSE
        <4>1. g.n \in Nat /\ (g = f \/ f.n < g.n)
          BY <3>2, <3>4
        <4> QED
          BY <2>4, <3>4, <4>1
      <3>5. f.n = Len(Rcv(s)) + 1
        BY <2>4, <3>3, <3>4 DEF Next1
      <3>6. Len(Rcv(s)) \in Nat
        BY RcvFacts
      <3> QED
        BY <2>4, <3>5, <3>6
    <2> QED
      BY <2>3, <2>4, <2>5
  <1> QED
    BY <1>3, <1>4

-----------------------------------------------------------------------------
-----------------------------------------------------------------------------
(* All of it, for every step. *)

LEMMA InitPipe == Init => PipeInv
  <1> SUFFICES ASSUME Init PROVE PipeInv
    OBVIOUS
  <1>1. /\ route = {} /\ pending = <<>> /\ joined = Access /\ removing = {} /\ streams = {} /\ sent_close = {}
        /\ \A e \in End : inbox[e] = <<>> /\ outbound[e] = <<>> /\ opened[e] = 0
        /\ \A s \in Stream : phase[s] = "none" /\ inbound[s] = <<>> /\ got[s] = <<>> /\ wrote[s] = 0
    BY DEF Init
  <1>2. Range(<<>>) = {} /\ Increasing(<<>>)
    BY RangeEmpty DEF Increasing
  <1>3. /\ \A e \in End, p \in End : Before(inbox[p], outbound[e]) /\ Before(pending, outbound[e])
        /\ Frames = {}
    BY <1>1, <1>2 DEF Before, Frames
  <1>4. OrderOK
    BY <1>1, <1>2, <1>3, Sides DEF OrderOK, End
  <1>5. RelayOK
    BY <1>1, <1>2 DEF RelayOK
  <1>6. FramesOK
    BY <1>3 DEF FramesOK
  <1>7. UsersOK
    <2>1. \A s \in Stream : s.by \in End /\ s.n \in Nat /\ s.n > 0
      <3>1. \A s \in Stream : s.by \in End /\ s.n \in 1 .. MaxOpens[s.by]
        BY StreamParts
      <3> QED
        BY <3>1
    <2> QED
      BY <1>1, <2>1 DEF UsersOK
  <1>8. OnceOK
    <2>1. \A s \in Stream : s.at \in End
      BY StreamParts
    <2> QED
      BY <1>1, <1>2, <2>1 DEF OnceOK, Taken, Waits, Opens
  <1>9. \A s \in Stream : Len(Rcv(s)) = 0
    <2>1. \A s \in Stream : Rcv(s) = <<>> \o <<>>
      BY <1>1 DEF Rcv
    <2> QED
      BY <2>1
  <1>10. RcvOK
    BY <1>9 DEF RcvOK
  <1>11. WaysOK
    <2>1. \A s, t \in Stream : OnWay(s.at, t) = {}
      BY <1>3, OnWayFrames
    <2> QED
      BY <1>1, <2>1 DEF WaysOK, WayOK
  <1>12. ClosedOK
    BY <1>1 DEF ClosedOK, Alive
  <1> QED
    BY <1>4, <1>5, <1>6, <1>7, <1>8, <1>10, <1>11, <1>12 DEF PipeInv, PathInv

LEMMA ShrinkPipe ==
    ASSUME MuxInv, PipeInv, Shrinks, Still
    PROVE  PipeInv'
  <1>1. PathInv /\ RcvOK /\ WaysOK /\ ClosedOK
    BY DEF PipeInv
  <1>2. PathInv' /\ WaysOK'
    BY <1>1, ShrinkPath, ShrinkWays
  <1>3. RcvOK'
    <2>1. \A s \in Stream : /\ Len(Rcv(s)') <= Len(Rcv(s))
                            /\ \A k \in 1 .. Len(Rcv(s)') : Rcv(s)'[k] = Rcv(s)[k]
      BY DEF Still
    <2>2. \A s \in Stream : Len(Rcv(s)') \in Nat
      BY RcvFacts DEF Still
    <2>3. \A t \in Stream : wrote'[t] \in Nat /\ wrote[t] <= wrote'[t]
      BY DEF Still, MuxInv, TypeOK
    <2> QED
      BY <1>1, <2>1, <2>2, <2>3, RcvKept DEF Still, Shrinks
  <1>4. ClosedOK'
    BY <1>1, ClosedKept DEF Still, Shrinks
  <1> QED
    BY <1>2, <1>3, <1>4 DEF PipeInv

LEMMA SendPipe ==
    ASSUME MuxInv, MuxInv', PipeInv, Alone, NEW s \in Stream, Write(s) \/ Shutdown(s) \/ Drop(s),
           s \notin sent_close
    PROVE  PipeInv'
  <1>1. PathInv /\ RcvOK /\ WaysOK /\ ClosedOK
    BY DEF PipeInv
  <1>2. PathInv' /\ WaysOK'
    BY <1>1, SendPath, SendWays
  <1>3. /\ UNCHANGED <<streams, torn, got>>
        /\ \A t \in Stream : t # s => wrote'[t] = wrote[t] /\ phase'[t] = phase[t] /\ inbound'[t] = inbound[t]
        /\ phase[s] \in {"incoming", "held"}
        /\ (phase'[s] = phase[s] /\ inbound'[s] = inbound[s]) \/ (phase'[s] = "dropped" /\ inbound'[s] = <<>>)
        /\ wrote'[s] = wrote[s] \/ wrote'[s] = wrote[s] + 1
        /\ sent_close \subseteq sent_close'
    BY SendFacts DEF relay
  <1>4. RcvOK'
    <2>1. ASSUME NEW t \in Stream
          PROVE  /\ Len(Rcv(t)') <= Len(Rcv(t)) /\ Len(Rcv(t)') \in Nat
                 /\ \A k \in 1 .. Len(Rcv(t)') : Rcv(t)'[k] = Rcv(t)[k]
      <3>0. Len(Rcv(t)) \in Nat
        <4>1. Rcv(t) \in Seq(Stream \X Nat)
          BY RcvFacts
        <4> QED
          BY <4>1
      <3>1. CASE inbound'[t] = inbound[t]
        <4>1. Rcv(t)' = Rcv(t)
          BY <1>3, <3>1 DEF Rcv
        <4> QED
          BY <3>0, <4>1
      <3>2. CASE inbound'[t] = <<>>
        <4>1. Rcv(t)' = got[t] \o <<>> /\ got[t] \in Seq(Stream \X Nat)
          BY <1>3, <3>2 DEF Rcv, MuxInv, TypeOK
        <4>2. got[t] \o <<>> = got[t]
          BY <4>1
        <4>3. \A a, b, c \in Nat : c = a + b => a <= c
          OBVIOUS
        <4>4. Len(Rcv(t)) = Len(got[t]) + Len(inbound[t]) /\ Len(got[t]) \in Nat /\ Len(inbound[t]) \in Nat
              /\ \A k \in 1 .. Len(got[t]) : Rcv(t)[k] = got[t][k]
          BY RcvFacts
        <4>5. Len(got[t]) <= Len(Rcv(t))
          BY <3>0, <4>3, <4>4, Zenon
        <4>6. Rcv(t)' = got[t]
          BY <4>1, <4>2
        <4> QED
          BY <4>4, <4>5, <4>6, Zenon
      <3> QED
        BY <1>3, <3>1, <3>2
    <2>2. ASSUME NEW t \in Stream PROVE wrote'[t] \in Nat /\ wrote[t] <= wrote'[t]
      <3>1. wrote[t] \in Nat
        BY DEF MuxInv, TypeOK
      <3>2. wrote'[t] = wrote[t] \/ wrote'[t] = wrote[t] + 1
        BY <1>3
      <3> QED
        BY <3>1, <3>2
    <2>3. \A t \in Stream : phase[t] # "none" => phase'[t] # "none"
      BY <1>3
    <2>4. torn \subseteq torn'
      BY <1>3
    <2> QED
      BY <1>1, <2>1, <2>2, <2>3, <2>4, RcvKept
  <1>5. ClosedOK'
    <2>1. \A t \in Stream : Alive(t)' /\ t \notin streams' => Alive(t) /\ t \notin streams /\ Rcv(t)' = Rcv(t)
      BY <1>3 DEF Alive, Rcv
    <2>2. \A t \in sent_close : wrote'[t] = wrote[t]
      BY <1>3 DEF MuxInv, TypeOK
    <2> QED
      BY <1>1, <1>3, <2>1, <2>2, ClosedKept
  <1> QED
    BY <1>2, <1>4, <1>5 DEF PipeInv

(* What stream ends have received and written stays, and so does the table, *)
(* or it gets an entry.                                                     *)
LEMMA ReceivedStays ==
    ASSUME MuxInv, PipeInv, PathInv', WaysOK', torn \subseteq torn', sent_close' = sent_close, wrote' = wrote,
           inbound' = inbound, got' = got,
           \A t \in Stream : phase[t] # "none" => phase'[t] # "none",
           \A t \in Stream : Alive(t)' /\ t \notin streams' => Alive(t) /\ t \notin streams
    PROVE  PipeInv'
  <1>1. RcvOK /\ ClosedOK
    BY DEF PipeInv
  <1>2. \A s \in Stream : Rcv(s)' = Rcv(s)
    BY DEF Rcv
  <1>3. RcvOK'
    <2>1. \A s \in Stream : Len(Rcv(s)) \in Nat
      BY RcvFacts
    <2>2. \A s \in Stream : /\ Len(Rcv(s)') <= Len(Rcv(s)) /\ Len(Rcv(s)') \in Nat
                            /\ \A k \in 1 .. Len(Rcv(s)') : Rcv(s)'[k] = Rcv(s)[k]
      BY <1>2, <2>1
    <2>3. \A t \in Stream : wrote'[t] \in Nat /\ wrote[t] <= wrote'[t]
      BY DEF MuxInv, TypeOK
    <2> QED
      BY <1>1, <2>2, <2>3, RcvKept
  <1>4. ClosedOK'
    BY <1>1, <1>2, ClosedKept
  <1> QED
    BY <1>3, <1>4 DEF PipeInv

LEMMA TablePipe ==
    ASSUME MuxInv, MuxInv', PipeInv, Alone, NEW e \in End,
           Open(e) \/ ReadOpen(e) \/ WriteFrame(e) \/ Register(e)
    PROVE  PipeInv'
  <1>1. PathInv /\ WaysOK
    BY DEF PipeInv
  <1>2. CASE Open(e)
    <2>1. PathInv' /\ WaysOK'
      BY <1>1, <1>2, OpenPath, OpenWays
    <2>2. PICK s \in Stream :
             /\ phase[s] = "none" /\ streams' = Inserted(s)
             /\ \A t \in Stream : t # s => phase'[t] = phase[t]
             /\ phase'[s] \in {"held", "dropped"}
             /\ UNCHANGED <<torn, sent_close, wrote, inbound, got>>
      BY <1>1, <1>2, OpenFacts DEF relay
    <2>3. streams' = streams \cup {s}
      BY <2>2, InsertedIs DEF MuxInv
    <2>4. \A t \in Stream : Alive(t)' /\ t \notin streams' => Alive(t) /\ t \notin streams
      BY <2>2, <2>3 DEF Alive
    <2> QED
      BY <2>1, <2>2, <2>4, ReceivedStays
  <1>3. CASE ReadOpen(e)
    <2>0. PICK f : f = Head(inbox[e])
      OBVIOUS
    <2>1. PathInv' /\ WaysOK'
      BY <1>1, <1>3, ReadOpenPath, ReadOpenWays
    <2>2. PICK s \in Stream :
             /\ phase[s] = "none" /\ streams' = Inserted(s) /\ phase' = [phase EXCEPT ![s] = "incoming"]
             /\ UNCHANGED <<torn, sent_close, wrote, inbound, got>>
      BY <1>1, <1>3, <2>0, ReadOpenFacts DEF relay
    <2>3. streams' = streams \cup {s} /\ phase'[s] = "incoming" /\ \A t \in Stream : t # s => phase'[t] = phase[t]
      BY <2>2, InsertedIs DEF MuxInv, TypeOK
    <2>4. \A t \in Stream : Alive(t)' /\ t \notin streams' => Alive(t) /\ t \notin streams
      BY <2>2, <2>3 DEF Alive
    <2>5. \A t \in Stream : phase[t] # "none" => phase'[t] # "none"
      BY <2>2, <2>3
    <2> QED
      BY <2>1, <2>2, <2>4, <2>5, ReceivedStays
  <1>4. CASE WriteFrame(e)
    <2>1. PathInv' /\ WaysOK'
      BY <1>1, <1>4, WriteFramePath, WriteFrameWays
    <2>2. UNCHANGED <<streams, phase, sent_close, wrote, inbound, got>> /\ torn \subseteq torn'
      BY <1>4 DEF WriteFrame, table, users
    <2> QED
      BY <2>1, <2>2, ReceivedStays DEF Alive
  <1>5. CASE Register(e)
    <2>1. PathInv' /\ WaysOK'
      BY <1>1, <1>5, RegisterPath, RegisterWays
    <2>2. UNCHANGED <<streams, phase, sent_close, wrote, inbound, got>> /\ torn \subseteq torn'
      BY <1>5 DEF Register, table, users
    <2> QED
      BY <2>1, <2>2, ReceivedStays DEF Alive
  <1> QED
    BY <1>2, <1>3, <1>4, <1>5

LEMMA ReadPipe ==
    ASSUME MuxInv, PipeInv, Alone, NEW e \in End, ReadData(e) \/ ReadClose(e)
    PROVE  PipeInv'
  <1>1. PathInv /\ RcvOK /\ ClosedOK
    BY DEF PipeInv
  <1>2. PathInv'
    BY <1>1, ReadPath
  <1>3. CASE ReadData(e)
    <2>1. WaysOK' /\ RcvOK'
      BY <1>3, ReadDataWays, ReadDataRcv
    <2>2. ClosedOK'
      <3>0. PICK f : f = Head(inbox[e])
        OBVIOUS
      <3>1. /\ UNCHANGED <<table, outbound, pending, relay, loops, phase, sent_close, wrote, got, ended>>
            /\ \A s \in Stream : s \notin streams => inbound'[s] = inbound[s]
        BY <1>1, <1>3, <3>0, ReadDataFacts
      <3>2. \A s \in Stream : s \notin streams => Rcv(s)' = Rcv(s)
        BY <3>1 DEF Rcv
      <3> QED
        BY <1>1, <3>1, <3>2, ClosedKept DEF Alive, table, relay
    <2> QED
      BY <1>2, <2>1, <2>2 DEF PipeInv
  <1>4. CASE ReadClose(e)
    <2>1. WaysOK' /\ ClosedOK'
      BY <1>4, ReadCloseWays, ReadCloseClosed
    <2>2. UNCHANGED <<torn, phase, wrote, inbound, got>>
      BY <1>4 DEF ReadClose, relay, users
    <2>3. RcvOK'
      BY <1>1, <2>2 DEF RcvOK, Rcv
    <2> QED
      BY <1>2, <2>1, <2>3 DEF PipeInv
  <1> QED
    BY <1>3, <1>4

LEMMA PipeStep ==
    ASSUME Alone, MuxInv, PipeInv, [Next]_vars
    PROVE  PipeInv'
  <1>0. PathInv /\ MuxInv'
    BY StepInv DEF PipeInv
  <1>1. ASSUME NEW e \in End,
               \/ Lend(e) \/ Open(e) \/ Abandon(e)
               \/ WriteFrame(e) \/ WriteFails(e) \/ WriterDone(e)
               \/ ReadStep(e) \/ ReaderEnds(e)
               \/ Register(e) \/ SocketEnds(e) \/ Unregister(e)
        PROVE  PipeInv'
    <2>1. CASE Open(e) \/ ReadOpen(e) \/ WriteFrame(e) \/ Register(e)
      BY <1>0, <2>1, TablePipe
    <2>2. CASE ReadData(e) \/ ReadClose(e)
      BY <2>2, ReadPipe
    <2>3. CASE \/ Lend(e) \/ Abandon(e) \/ WriteFails(e) \/ WriterDone(e) \/ ReaderEnds(e)
               \/ SocketEnds(e) \/ Unregister(e)
      BY <1>0, <2>3, SocketsShrink, ShrinkPipe
    <2> QED
      BY <1>1, <2>1, <2>2, <2>3 DEF ReadStep
  <1>2. ASSUME NEW s \in Stream,
               \/ Take(s) \/ Write(s) \/ Shutdown(s) \/ Read(s) \/ ReadEnd(s)
               \/ Drop(s) \/ Remove(s)
        PROVE  PipeInv'
    <2>1. CASE (Write(s) \/ Shutdown(s) \/ Drop(s)) /\ s \notin sent_close
      BY <1>0, <2>1, SendPipe
    <2>2. CASE Take(s) \/ Read(s) \/ ReadEnd(s) \/ Remove(s) \/ (Drop(s) /\ s \in sent_close)
      BY <1>0, <2>2, UsersShrink, ShrinkPipe
    <2> QED
      BY <1>2, <2>1, <2>2 DEF Write, Shutdown
  <1>3. ASSUME UNCHANGED vars PROVE PipeInv'
    BY <1>0, <1>3, StutterShrinks, ShrinkPipe
  <1> QED
    BY <1>1, <1>2, <1>3 DEF Next, Stranded, Finished

-----------------------------------------------------------------------------
LEMMA PipeInvariant == ASSUME Alone PROVE Spec => [](MuxInv /\ PipeInv)
  <1>1. Init => MuxInv /\ PipeInv
    BY InitInv, InitPipe
  <1>2. MuxInv /\ PipeInv /\ [Next]_vars => (MuxInv /\ PipeInv)'
    BY StepInv, PipeStep
  <1> QED
    BY <1>1, <1>2, PTL DEF Spec

-----------------------------------------------------------------------------
(* The refinement, step by step. *)

LEMMA RcvSpan ==
    ASSUME MuxInv, NEW s \in Stream
    PROVE  /\ \A k \in 1 .. Len(got[s]) : k \in 1 .. Len(Rcv(s)) /\ Rcv(s)[k] = got[s][k]
           /\ inbound[s] # <<>> =>
                 \E m \in 1 .. Len(Rcv(s)) :
                    /\ m = Len(got[s]) + 1 /\ Rcv(s)[m] = Head(inbound[s])
                    /\ \A k \in 1 .. Len(got[s]) : k \in 1 .. m - 1
  <1>1. Len(got[s]) \in Nat /\ Len(inbound[s]) \in Nat
    BY RcvFacts
  <1>2. PICK a \in Nat, b \in Nat : a = Len(got[s]) /\ b = Len(inbound[s])
    BY <1>1
  <1>3. /\ Len(Rcv(s)) = a + b
        /\ \A k \in 1 .. a : Rcv(s)[k] = got[s][k]
        /\ inbound[s] # <<>> => Rcv(s)[a + 1] = Head(inbound[s]) /\ b > 0
    BY <1>2, RcvFacts
  <1>4. \A k \in 1 .. a : k \in 1 .. Len(Rcv(s)) /\ k \in 1 .. (a + 1) - 1
    BY <1>3
  <1>5. inbound[s] # <<>> => a + 1 \in 1 .. Len(Rcv(s))
    BY <1>3
  <1> QED
    BY <1>2, <1>3, <1>4, <1>5

(* All that a stream end has read comes from the end that it hears of. *)
LEMMA OneSource ==
    ASSUME Alone, MuxInv, PipeInv, NEW s \in Stream, NEW t \in Stream, AreEnds(s, t), phase[t] # "none"
    PROVE  Abstract!ReadsFrom(s, t)
  <1>1. OnceOK /\ RcvOK
    BY DEF PipeInv, PathInv
  <1>2. ASSUME NEW k \in 1 .. Len(got[s]) PROVE got[s][k][1] = t
    <2>1. Rcv(s) \in Seq(Stream \X Nat) /\ Rcv(s)[k] = got[s][k]
      BY RcvFacts
    <2>2. k \in 1 .. Len(Rcv(s))
      BY <1>2, RcvSpan
    <2>3. Rcv(s)[k][1] \in Stream
      BY <2>1, <2>2
    <2>4. AreEnds(s, Rcv(s)[k][1]) /\ phase[Rcv(s)[k][1]] # "none"
      BY <1>1, <2>2 DEF RcvOK
    <2> QED
      BY <1>1, <2>1, <2>3, <2>4, OneMate
  <1> QED
    BY <1>2 DEF Abstract!ReadsFrom

LEMMA ReadIsRead ==
    ASSUME Alone, MuxInv, PipeInv, NEW s \in Stream, Read(s)
    PROVE  \E t \in Stream : Abstract!Read(s, t)
  <1>1. RcvOK
    BY DEF PipeInv
  <1>2. /\ inbound[s] # <<>> /\ got' = [got EXCEPT ![s] = Append(@, Head(inbound[s]))]
        /\ UNCHANGED <<wrote, sent_close, ended, torn>>
    BY DEF Read, relay
  <1>3. PICK m \in 1 .. Len(Rcv(s)) :
           /\ m = Len(got[s]) + 1 /\ Rcv(s)[m] = Head(inbound[s])
           /\ \A k \in 1 .. Len(got[s]) : k \in 1 .. m - 1
    BY <1>2, RcvSpan
  <1>4. \A k \in 1 .. Len(got[s]) : Rcv(s)[k] = got[s][k]
    BY RcvSpan
  <1>5. PICK t \in Stream, n \in Nat : Head(inbound[s]) = <<t, n>>
    <2>1. Rcv(s) \in Seq(Stream \X Nat)
      BY RcvFacts
    <2>2. Rcv(s)[m] \in Stream \X Nat
      BY <2>1
    <2> QED
      BY <1>3, <2>2
  <1>6. Rcv(s)[m][1] = t /\ Rcv(s)[m][2] = n
    BY <1>3, <1>5
  <1>7. /\ AreEnds(s, t) /\ phase[t] # "none" /\ n \in 1 .. wrote[t]
        /\ s \notin torn => n = m
        /\ \A k \in 1 .. Len(got[s]) : got[s][k][2] < n
    BY <1>1, <1>3, <1>4, <1>6 DEF RcvOK
  <1>8. Abstract!ReadsFrom(s, t)
    BY <1>7, OneSource
  <1>9. got' = [got EXCEPT ![s] = Append(@, <<t, n>>)]
    BY <1>2, <1>5
  <1> QED
    BY <1>2, <1>3, <1>7, <1>8, <1>9 DEF Abstract!Read

LEMMA ReadEndIsEnd ==
    ASSUME Alone, MuxInv, PipeInv, NEW s \in Stream, ReadEnd(s)
    PROVE  \E t \in Stream : Abstract!End(s, t)
  <1>1. ClosedOK /\ UsersOK
    BY DEF PipeInv, PathInv
  <1>2. /\ Alive(s) /\ s \notin streams /\ inbound[s] = <<>> /\ ended' = ended \cup {s}
        /\ UNCHANGED <<wrote, sent_close, got, torn>>
    BY DEF ReadEnd, Alive, relay
  <1>3. PICK t \in Stream : AreEnds(s, t) /\ t \in sent_close /\ (s \notin torn => Len(Rcv(s)) = wrote[t])
    BY <1>1, <1>2 DEF ClosedOK
  <1>4. phase[t] # "none"
    BY <1>1, <1>3 DEF UsersOK
  <1>5. Len(Rcv(s)) = Len(got[s])
    <2>1. Len(Rcv(s)) = Len(got[s]) + Len(inbound[s]) /\ Len(got[s]) \in Nat
      BY RcvFacts
    <2>2. Len(inbound[s]) = 0
      BY <1>2
    <2> QED
      BY <2>1, <2>2
  <1>6. Abstract!ReadsFrom(s, t)
    BY <1>3, <1>4, OneSource
  <1> QED
    BY <1>2, <1>3, <1>5, <1>6 DEF Abstract!End

LEMMA StepIsPipeStep ==
    ASSUME Alone, MuxInv, PipeInv, [Next]_vars
    PROVE  [Abstract!Next]_(Abstract!vars)
  <1> USE DEF Abstract!vars
  <1>1. ASSUME NEW s \in Stream, Write(s)
        PROVE  Abstract!Write(s)
    BY <1>1 DEF Write, Abstract!Write, relay
  <1>2. ASSUME NEW s \in Stream, Shutdown(s) \/ Drop(s)
        PROVE  Abstract!Shut(s)
    BY <1>2 DEF Shutdown, Drop, Abstract!Shut, relay
  <1>3. ASSUME NEW s \in Stream, Take(s) \/ Remove(s) \/ Stranded(s)
        PROVE  UNCHANGED Abstract!vars
    BY <1>3 DEF Take, Remove, Stranded, vars, users, relay
  <1>4. ASSUME NEW e \in End, WriteFrame(e) \/ Register(e)
        PROVE  \E S \in SUBSET Stream : Abstract!Tear(S)
    <2>1. UNCHANGED <<wrote, sent_close, got, ended>> /\ torn \subseteq torn' /\ torn' \subseteq Stream
      <3>1. MuxInv'
        BY <1>4, StepInv DEF Next
      <3> QED
        BY <1>4, <3>1 DEF WriteFrame, Register, users, MuxInv, TypeOK
    <2> QED
      BY <2>1 DEF Abstract!Tear
  <1>5. ASSUME NEW e \in End,
               \/ Lend(e) \/ Open(e) \/ Abandon(e) \/ WriteFails(e) \/ WriterDone(e)
               \/ ReadStep(e) \/ ReaderEnds(e) \/ SocketEnds(e) \/ Unregister(e)
        PROVE  UNCHANGED Abstract!vars
    BY <1>5 DEF Lend, Open, Abandon, WriteFails, WriterDone, ReadStep,
                ReadOpen, ReadData, ReadClose, ReaderEnds, SocketEnds, Unregister, users, relay
  <1>6. ASSUME UNCHANGED vars
        PROVE  UNCHANGED Abstract!vars
    BY <1>6 DEF vars, users, relay
  <1> QED
    BY <1>1, <1>2, <1>3, <1>4, <1>5, <1>6, ReadIsRead, ReadEndIsEnd DEF Next, Finished, Abstract!Next

(* With one client socket, and one node mux at most that opens streams to it, *)
(* each direction of every stream is a pipe, whichever node muxes replace one *)
(* another: what is read is what the one other end wrote, in order, and the   *)
(* end comes after the last. Nothing is missing, unless the relay refused a   *)
(* frame of the stream for a full queue (mux.rs: poll_read, poll_write,       *)
(* close_remote, read_loop; session.rs: forward_frame, register).             *)
THEOREM PipesAreKept == ASSUME Alone PROVE Spec => PipesKept
  <1>1. Init => Abstract!Init
    BY DEF Init, Abstract!Init
  <1>2. Spec => [](MuxInv /\ PipeInv)
    BY PipeInvariant
  <1>3. MuxInv /\ PipeInv /\ [Next]_vars => [Abstract!Next]_(Abstract!vars)
    BY StepIsPipeStep
  <1> QED
    BY <1>1, <1>2, <1>3, PTL DEF Spec, PipesKept, Abstract!Spec

(* Under the same assumption, what is read from a stream was written into the *)
(* other end of it: ids of the two sides never meet, and a frame for a stream *)
(* that a node mux has not been told of finds no entry (open_stream,          *)
(* read_loop).                                                                *)
THEOREM StreamsAreIsolated == ASSUME Alone PROVE Spec => []StreamsIsolated
  <1>1. ASSUME MuxInv, PipeInv
        PROVE  StreamsIsolated
    <2> SUFFICES ASSUME NEW s \in Stream, NEW i \in 1 .. Len(got[s])
                 PROVE  AreEnds(s, got[s][i][1])
      BY DEF StreamsIsolated
    <2>1. RcvOK
      BY <1>1 DEF PipeInv
    <2>2. i \in 1 .. Len(Rcv(s)) /\ Rcv(s)[i] = got[s][i]
      BY <1>1, RcvSpan
    <2> QED
      BY <2>1, <2>2 DEF RcvOK
  <1> QED
    BY <1>1, PipeInvariant, PTL
=============================================================================
