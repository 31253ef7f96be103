------------------------------ MODULE MuxProofs ------------------------------
(***************************************************************************)
(* Type correctness of Mux, and that its tables keep no entry of a stream  *)
(* that is gone, for any number of muxes, streams and frames.              *)
(***************************************************************************)
EXTENDS Mux, TLAPS

(* What may wait for a write loop and for a read loop: an Open names a stream *)
(* of its sender's own, and every stream named has been counted.              *)
Counted(s) == s.n <= opened[s.by]

SentBy(e) ==
    {f \in FrameType : /\ f.from.at = e /\ Counted(f.from)
                       /\ f.type = "Open" => f.from.by = e}

SentTo(e) ==
    {f \in FrameType : /\ e \in Peers(f.from.at) /\ Counted(f.from)
                       /\ f.type = "Open" => f.from.by = f.from.at}

(* What the relay may keep for a node to come. *)
Buffering ==
    {f \in FrameType : /\ f.from.at \in Access /\ Counted(f.from)
                       /\ f.type = "Open" => f.from.by = f.from.at}

WiresOK ==
    /\ \A e \in End : outbound[e] \in Seq(SentBy(e))
    /\ \A e \in End : inbox[e] \in Seq(SentTo(e))
    /\ pending \in Seq(Buffering)

(* A stream end that somebody has was counted when it was opened. *)
PhasesOK == \A s \in Stream : phase[s] # "none" => Counted(s)

MuxInv == TypeOK /\ WiresOK /\ PhasesOK /\ EntriesHaveOwners

-----------------------------------------------------------------------------
(* The components of a stream end, and how to make one. *)
LEMMA StreamParts ==
    ASSUME NEW s \in Stream
    PROVE  /\ s.at \in End /\ s.by \in End /\ s.n \in 1 .. MaxOpens[s.by]
           /\ s.at \in {s.by} \cup Peers(s.by)
           /\ s = [at |-> s.at, by |-> s.by, n |-> s.n]
  BY MuxAssumption DEF Stream, End, Peers

LEMMA StreamMade ==
    ASSUME NEW b \in End, NEW a \in {b} \cup Peers(b), NEW k \in 1 .. MaxOpens[b]
    PROVE  [at |-> a, by |-> b, n |-> k] \in Stream
  BY DEF Stream

LEMMA PeersMutual ==
    ASSUME NEW e \in End, NEW p \in Peers(e)
    PROVE  p \in End /\ e \in Peers(p)
  BY MuxAssumption DEF End, Peers

(* Sequences of a set: what the loops and the users do with them. *)
LEMMA SeqAppend ==
    ASSUME NEW S, NEW q \in Seq(S), NEW x \in S
    PROVE  Append(q, x) \in Seq(S)
  OBVIOUS

LEMMA SeqHeadTail ==
    ASSUME NEW S, NEW q \in Seq(S), q # <<>>
    PROVE  Head(q) \in S /\ Tail(q) \in Seq(S)
  OBVIOUS

LEMMA SeqWider ==
    ASSUME NEW S, NEW T, S \subseteq T, NEW q \in Seq(S)
    PROVE  q \in Seq(T)
  OBVIOUS

LEMMA SeqEmpty == ASSUME NEW S PROVE <<>> \in Seq(S)
  OBVIOUS

(* A new entry displaces at most the one with its id. *)
LEMMA InsertedEntries ==
    ASSUME TypeOK, NEW s \in Stream
    PROVE  /\ Inserted(s) \subseteq streams \cup {s}
           /\ \A t, u \in Inserted(s) : t.at = u.at /\ Id(t) = Id(u) => t = u
  BY DEF TypeOK, Inserted, Entries

(* A frame that a user sends about its stream is one for the write loop. *)
LEMMA SentFrames ==
    ASSUME TypeOK, WiresOK, NEW s \in Stream, NEW n \in Nat, Counted(s),
           NEW type \in {"Open", "Data", "Close"}, type = "Open" => s.at = s.by
    PROVE  /\ \A e \in End : Sent(s, Frame(type, s, n))[e] \in Seq(SentBy(e))
           /\ Sent(s, Frame(type, s, n)) \in [End -> Seq(FrameType)]
  <1> DEFINE f == Frame(type, s, n)
  <1>1. s.at \in End /\ f \in FrameType /\ f \in SentBy(s.at)
    BY StreamParts DEF Frame, FrameType, SentBy
  <1>2. Append(outbound[s.at], f) \in Seq(SentBy(s.at)) /\ Append(outbound[s.at], f) \in Seq(FrameType)
    BY <1>1, SeqAppend DEF WiresOK, TypeOK
  <1> HIDE DEF f
  <1> QED
    BY <1>1, <1>2 DEF Sent, WiresOK, TypeOK, f

(* Steps that touch neither table nor frames keep both. *)
LEMMA WiresKept ==
    ASSUME WiresOK, UNCHANGED <<opened, outbound, inbox, pending>>
    PROVE  WiresOK'
  BY DEF WiresOK, SentBy, SentTo, Buffering, Counted

LEMMA SetsKept ==
    ASSUME UNCHANGED opened, NEW e
    PROVE  SentBy(e)' = SentBy(e) /\ SentTo(e)' = SentTo(e) /\ Buffering' = Buffering
  BY DEF SentBy, SentTo, Buffering, Counted

(* What waits for the loops are frames. *)
LEMMA WiresTyped ==
    ASSUME NEW q, (\A e \in End : q[e] \in Seq(SentBy(e))) \/ (\A e \in End : q[e] \in Seq(SentTo(e)))
    PROVE  \A e \in End : q[e] \in Seq(FrameType)
  BY SeqWider DEF SentBy, SentTo

LEMMA InitInv == Init => MuxInv
  <1> SUFFICES ASSUME Init PROVE MuxInv
    OBVIOUS
  <1>1. Access \subseteq End
    BY DEF End
  <1> QED
    BY <1>1, SeqEmpty DEF Init, MuxInv, TypeOK, WiresOK, PhasesOK, EntriesHaveOwners

-----------------------------------------------------------------------------
(* One lemma for each group of actions. First what the users do. *)

LEMMA OpenInv == ASSUME MuxInv, NEW e \in End, Open(e) PROVE MuxInv'
  <1> USE DEF MuxInv
  <1>1. opened[e] \in Nat /\ opened[e] + 1 \in 1 .. MaxOpens[e]
    BY MuxAssumption DEF Open, TypeOK, End
  <1>2. PICK s \in Stream : s = [at |-> e, by |-> e, n |-> opened[e] + 1]
    BY <1>1, StreamMade
  <1>3. /\ opened' = [opened EXCEPT ![e] = @ + 1]
        /\ streams' = Inserted(s)
        /\ outbound' = Sent(s, Frame("Open", s, 0))
        /\ phase' = [phase EXCEPT ![s] = IF e \in writing THEN "held" ELSE "dropped"]
    BY <1>2 DEF Open
  <1>4. s.at = e /\ s.by = e /\ s.n = opened'[e] /\ opened' \in [End -> Nat] /\ \A b \in End : opened[b] <= opened'[b]
    BY <1>1, <1>2, <1>3 DEF TypeOK
  <1>5. ASSUME NEW t \in Stream, Counted(t) PROVE Counted(t)'
    <2>1. t.by \in End /\ t.n \in Nat
      BY StreamParts
    <2>2. opened[t.by] \in Nat /\ opened'[t.by] \in Nat /\ opened[t.by] <= opened'[t.by]
      BY <1>4, <2>1 DEF TypeOK
    <2>3. t.n <= opened[t.by]
      BY <1>5 DEF Counted
    <2> QED
      BY <2>1, <2>2, <2>3 DEF Counted
  <1>6. Counted(s)'
    BY <1>1, <1>3, <1>4 DEF Counted, TypeOK
  <1>7. TypeOK'
    <2>1. /\ streams' \subseteq Stream
          /\ \A t \in streams' : t.n <= opened'[t.by]
          /\ \A t, u \in streams' : t.at = u.at /\ Id(t) = Id(u) => t = u
      <3>1. streams' \subseteq streams \cup {s}
            /\ \A t, u \in streams' : t.at = u.at /\ Id(t) = Id(u) => t = u
        BY <1>3, InsertedEntries
      <3>2. streams \subseteq Stream /\ \A t \in streams : Counted(t)
        BY DEF TypeOK, Counted
      <3>3. \A t \in streams' : Counted(t)'
        BY <1>5, <1>6, <3>1, <3>2
      <3> QED
        BY <3>1, <3>2, <3>3 DEF Counted
    <2>2. Frame("Open", s, 0) \in FrameType
      BY <1>2 DEF Frame, FrameType
    <2>3. outbound' \in [End -> Seq(FrameType)]
      BY <1>2, <1>3, <1>4, <2>2, SeqAppend DEF Sent, TypeOK
    <2>4. phase' \in [Stream -> {"none", "incoming", "held", "dropped"}]
      BY <1>3 DEF TypeOK
    <2>5. lent' \subseteq End /\ \A b \in lent' : opened'[b] < MaxOpens[b]
      BY <1>3 DEF TypeOK, Open
    <2> QED
      BY <1>4, <2>1, <2>3, <2>4, <2>5 DEF TypeOK, Open, relay, loops
  <1>8. WiresOK'
    <2>1. /\ \A b \in End : SentBy(b) \subseteq SentBy(b)' /\ SentTo(b) \subseteq SentTo(b)'
          /\ Buffering \subseteq Buffering'
      BY <1>5 DEF SentBy, SentTo, Buffering, FrameType
    <2>2. Frame("Open", s, 0) \in SentBy(e)'
      BY <1>2, <1>4, <1>6 DEF Frame, FrameType, SentBy
    <2>3. /\ \A b \in End : outbound[b] \in Seq(SentBy(b)') /\ inbox[b] \in Seq(SentTo(b)')
          /\ pending \in Seq(Buffering')
      BY <2>1, SeqWider DEF WiresOK
    <2>4. Append(outbound[e], Frame("Open", s, 0)) \in Seq(SentBy(e)')
      BY <2>2, <2>3, SeqAppend
    <2>5. \A b \in End : outbound'[b] \in Seq(SentBy(b)')
      BY <1>2, <1>3, <1>4, <2>3, <2>4 DEF Sent, TypeOK
    <2> QED
      BY <2>3, <2>5 DEF WiresOK, Open
  <1>9. PhasesOK'
    BY <1>3, <1>5, <1>6 DEF PhasesOK, TypeOK
  <1>10. EntriesHaveOwners'
    <2>1. /\ streams' \subseteq streams \cup {s}
          /\ UNCHANGED <<removing, writing>>
      BY <1>3, InsertedEntries DEF Open, relay, loops
    <2>2. phase'[s] = (IF e \in writing THEN "held" ELSE "dropped")
              /\ \A t \in streams : t # s => phase'[t] = phase[t]
      BY <1>3 DEF TypeOK
    <2> QED
      BY <1>4, <2>1, <2>2 DEF EntriesHaveOwners
  <1> QED
    BY <1>7, <1>8, <1>9, <1>10

LEMMA SendInv ==
    ASSUME MuxInv, NEW s \in Stream, Write(s) \/ Shutdown(s)
    PROVE  MuxInv'
  <1> USE DEF MuxInv
  <1>1. Counted(s) /\ wrote[s] + 1 \in Nat
    BY DEF PhasesOK, Write, Shutdown, TypeOK
  <1>2. PICK n \in Nat, type \in {"Data", "Close"} : outbound' = Sent(s, Frame(type, s, n))
    BY <1>1 DEF Write, Shutdown
  <1>3. /\ \A e \in End : outbound'[e] \in Seq(SentBy(e))
        /\ outbound' \in [End -> Seq(FrameType)]
    BY <1>1, <1>2, SentFrames
  <1>4. UNCHANGED <<table, inbox, pending, relay, loops, phase>>
    BY DEF Write, Shutdown
  <1>5. WiresOK'
    BY <1>3, <1>4, SetsKept DEF WiresOK, table
  <1>6. TypeOK'
    BY <1>1, <1>3, <1>4 DEF TypeOK, Write, Shutdown, table, relay, loops
  <1> QED
    BY <1>4, <1>5, <1>6 DEF PhasesOK, Counted, EntriesHaveOwners, table, relay, loops

LEMMA ReadInv ==
    ASSUME MuxInv, NEW s \in Stream, Read(s) \/ ReadEnd(s)
    PROVE  MuxInv'
  <1> USE DEF MuxInv
  <1>1. UNCHANGED <<table, wires, loops, phase>>
    BY DEF Read, ReadEnd
  <1>2. TypeOK'
    <2>1. inbound[s] # <<>> => Head(inbound[s]) \in Stream \X Nat /\ Tail(inbound[s]) \in Seq(Stream \X Nat)
      BY SeqHeadTail DEF TypeOK
    <2>2. CASE Read(s)
      BY <1>1, <2>1, <2>2, SeqAppend DEF TypeOK, Read, table, wires, relay, loops
    <2>3. CASE ReadEnd(s)
      BY <1>1, <2>3 DEF TypeOK, ReadEnd, table, wires, relay, loops
    <2> QED
      BY <2>2, <2>3
  <1>3. WiresOK'
    BY <1>1, WiresKept DEF table, wires
  <1> QED
    BY <1>1, <1>2, <1>3 DEF PhasesOK, Counted, EntriesHaveOwners, table, relay, loops

LEMMA DropInv == ASSUME MuxInv, NEW s \in Stream, Drop(s) PROVE MuxInv'
  <1> USE DEF MuxInv
  <1>1. Counted(s)
    BY DEF PhasesOK, Drop
  <1>2. /\ \A e \in End : outbound'[e] \in Seq(SentBy(e))
        /\ outbound' \in [End -> Seq(FrameType)]
    <2>1. wrote[s] + 1 \in Nat
      BY DEF TypeOK
    <2> QED
      BY <1>1, <2>1, SentFrames DEF Drop, WiresOK, TypeOK
  <1>3. UNCHANGED <<opened, streams, inbox, pending, relay, loops>>
    BY DEF Drop
  <1>4. WiresOK'
    BY <1>2, <1>3, SetsKept DEF WiresOK
  <1>5. TypeOK'
    BY <1>2, <1>3, SeqEmpty DEF TypeOK, Drop, relay, loops
  <1>6. PhasesOK'
    BY <1>3 DEF PhasesOK, Counted, TypeOK, Drop, relay, loops
  <1>7. EntriesHaveOwners'
    BY <1>3 DEF EntriesHaveOwners, TypeOK, Drop, relay, loops
  <1> QED
    BY <1>4, <1>5, <1>6, <1>7

LEMMA RemoveInv == ASSUME MuxInv, NEW s \in Stream, Remove(s) PROVE MuxInv'
  <1> USE DEF MuxInv
  <1>1. WiresOK'
    BY WiresKept DEF Remove, wires
  <1>2. TypeOK'
    BY DEF TypeOK, Remove, wires, relay, loops, users
  <1>3. PhasesOK'
    BY DEF PhasesOK, Counted, Remove, relay, loops, users
  <1>4. EntriesHaveOwners'
    BY DEF EntriesHaveOwners, Remove, Entries, relay, loops, users
  <1> QED
    BY <1>1, <1>2, <1>3, <1>4

LEMMA OwnerInv ==
    ASSUME MuxInv, (\E s \in Stream : Take(s)) \/ (\E e \in End : Lend(e) \/ Abandon(e))
    PROVE  MuxInv'
  <1> USE DEF MuxInv
  <1>1. WiresOK'
    BY WiresKept DEF Take, Lend, Abandon, table, wires
  <1>2. TypeOK'
    <2>1. CASE \E s \in Stream : Take(s)
      BY <2>1 DEF TypeOK, Take, table, wires, relay, loops
    <2>2. CASE \E e \in End : Abandon(e)
      BY <2>2 DEF TypeOK, Abandon, table, wires, relay, users
    <2>4. CASE \E e \in End : Lend(e)
      BY <2>4 DEF TypeOK, Lend, wires, relay, loops, users
    <2> QED
      BY <2>1, <2>2, <2>4
  <1>3. PhasesOK'
    BY DEF PhasesOK, Counted, TypeOK, Take, Lend, Abandon, table, wires, users, relay, loops
  <1>4. EntriesHaveOwners'
    BY DEF EntriesHaveOwners, TypeOK, Take, Lend, Abandon, table, wires, users, relay, loops
  <1> QED
    BY <1>1, <1>2, <1>3, <1>4

-----------------------------------------------------------------------------
(* The loops and the websockets. *)

(* A frame about to be written is one for each peer, and for the buffer. *)
LEMMA WriteFrameInv == ASSUME MuxInv, NEW e \in End, WriteFrame(e) PROVE MuxInv'
  <1> USE DEF MuxInv
  <1> DEFINE f == Head(outbound[e])
  <1>1. UNCHANGED <<table, joined, left, route, loops, users>> /\ outbound[e] # <<>>
    BY DEF WriteFrame
  <1>2. f \in SentBy(e) /\ Tail(outbound[e]) \in Seq(SentBy(e))
    BY <1>1, SeqHeadTail DEF WiresOK
  <1>3. /\ \A p \in Peers(e) : f \in SentTo(p)
        /\ e \in Access => f \in Buffering
    BY <1>2 DEF SentBy, SentTo, Buffering
  <1>4. Targets(e) \subseteq Peers(e)
    BY MuxAssumption DEF Targets, Peers, TypeOK, End
  <1>5. PICK full \in SUBSET (Targets(e) \cap Slow) :
           /\ inbox' = [p \in End |-> IF p \in (Targets(e) \cap up) \ full
                                        THEN Append(inbox[p], f) ELSE inbox[p]]
           /\ torn' = torn \cup (Stream \cap {EndAt(p, f.from) : p \in full})
    BY DEF WriteFrame
  <1>6. /\ outbound' = [outbound EXCEPT ![e] = Tail(@)]
        /\ pending' = IF e \in Access /\ route = {} THEN Buffered(pending, f) ELSE pending
    BY DEF WriteFrame
  <1> HIDE DEF f
  <1>7. \A p \in End : inbox'[p] \in Seq(SentTo(p))
    <2>1. \A p \in Peers(e) : p \in End => Append(inbox[p], f) \in Seq(SentTo(p))
      BY <1>3, SeqAppend DEF WiresOK
    <2> QED
      BY <1>4, <1>5, <2>1 DEF WiresOK
  <1>8. \A b \in End : outbound'[b] \in Seq(SentBy(b))
    BY <1>2, <1>6 DEF WiresOK, TypeOK
  <1>9. pending' \in Seq(Buffering)
    <2>1. CASE e \in Access /\ route = {}
      <3>1. pending \in Seq(Buffering) /\ f \in Buffering
        BY <1>3, <2>1 DEF WiresOK
      <3>2. pending # <<>> => Tail(pending) \in Seq(Buffering)
        BY <3>1, SeqHeadTail
      <3>3. pending = <<>> => Len(pending) < Buffer
        BY MuxAssumption
      <3> QED
        BY <1>6, <2>1, <3>1, <3>2, <3>3, SeqAppend DEF Buffered
    <2> QED
      BY <1>6, <2>1 DEF WiresOK
  <1>10. WiresOK'
    BY <1>1, <1>7, <1>8, <1>9, SetsKept DEF WiresOK, table
  <1>11. /\ inbox' \in [End -> Seq(FrameType)] /\ outbound' \in [End -> Seq(FrameType)]
         /\ pending' \in Seq(FrameType)
    <2>1. pending' \in Seq(FrameType)
      BY <1>9, SeqWider DEF Buffering
    <2>2. /\ \A b \in End : inbox'[b] \in Seq(FrameType)
          /\ \A b \in End : outbound'[b] \in Seq(FrameType)
      BY <1>7, <1>8, WiresTyped
    <2> QED
      BY <1>5, <1>6, <2>1, <2>2 DEF TypeOK
  <1>12. torn' \subseteq Stream
    BY <1>5 DEF TypeOK
  <1>13. TypeOK'
    BY <1>1, <1>11, <1>12 DEF TypeOK, table, relay, loops, users
  <1> QED
    BY <1>1, <1>10, <1>13 DEF PhasesOK, Counted, EntriesHaveOwners, table, relay, loops, users

(* What a new server data socket gets of the buffer. *)
LEMMA KeptFrames ==
    ASSUME NEW S, NEW q \in Seq(S), NEW r \in Subsequences(q)
    PROVE  /\ r \in Seq(S) /\ Len(r) \in Nat
           /\ \E h \in [1 .. Len(r) -> 1 .. Len(q)] :
                 /\ \A j, k \in 1 .. Len(r) : j < k => h[j] < h[k]
                 /\ \A k \in 1 .. Len(r) : r[k] = q[h[k]]
  <1>0. PICK m \in 0 .. Len(q) :
           \E h \in [1 .. m -> 1 .. Len(q)] :
              /\ \A j, k \in 1 .. m : j < k => h[j] < h[k]
              /\ r = [k \in 1 .. m |-> q[h[k]]]
    BY DEF Subsequences
  <1>1. PICK h \in [1 .. m -> 1 .. Len(q)] :
           /\ \A j, k \in 1 .. m : j < k => h[j] < h[k]
           /\ r = [k \in 1 .. m |-> q[h[k]]]
    BY <1>0
  <1>2. \A k \in 1 .. m : q[h[k]] \in S
    BY <1>1
  <1>3. r \in Seq(S) /\ Len(r) = m /\ m \in Nat
    BY <1>1, <1>2
  <1>4. \A k \in 1 .. m : r[k] = q[h[k]]
    BY <1>1
  <1> QED
    BY <1>1, <1>3, <1>4

LEMMA RegisterInv == ASSUME MuxInv, NEW e \in End, Register(e) PROVE MuxInv'
  <1> USE DEF MuxInv
  <1>1. /\ e \in Node \ joined /\ joined' = joined \cup {e}
        /\ route' = {e} /\ pending' = <<>>
        /\ UNCHANGED <<table, outbound, left, loops, users>>
    BY DEF Register
  <1>2. PICK kept \in IF e \in Slow THEN Subsequences(pending) ELSE {pending} :
           /\ inbox' = [inbox EXCEPT ![e] = IF e \in up THEN kept ELSE <<>>]
           /\ torn' = torn \cup (Stream \cap {EndAt(e, f.from) : f \in Range(pending) \ Range(kept)})
    BY DEF Register
  <1>3. kept \in Seq(Buffering)
    BY <1>2, KeptFrames DEF WiresOK
  <1>4. Buffering \subseteq SentTo(e)
    BY <1>1, MuxAssumption DEF Buffering, SentTo, Peers, End
  <1>5. kept \in Seq(SentTo(e)) /\ kept \in Seq(FrameType)
    BY <1>3, <1>4, SeqWider DEF Buffering
  <1>6. WiresOK'
    <2>1. \A p \in End : inbox'[p] \in Seq(SentTo(p))
      BY <1>2, <1>5, SeqEmpty DEF WiresOK, TypeOK
    <2> QED
      BY <1>1, <2>1, SetsKept, SeqEmpty DEF WiresOK, table
  <1>7. TypeOK'
    <2>1. inbox' \in [End -> Seq(FrameType)] /\ pending' \in Seq(FrameType)
      BY <1>1, <1>2, <1>5, SeqEmpty DEF TypeOK
    <2>2. torn' \subseteq Stream /\ left' \subseteq joined' \ up'
      BY <1>1, <1>2 DEF TypeOK, relay, loops
    <2> QED
      BY <1>1, <2>1, <2>2 DEF TypeOK, table, relay, loops, users
  <1> QED
    BY <1>1, <1>6, <1>7 DEF PhasesOK, Counted, EntriesHaveOwners, table, relay, loops, users

LEMMA UnregisterInv == ASSUME MuxInv, NEW e \in End, Unregister(e) PROVE MuxInv'
  <1> USE DEF MuxInv
  <1>1. /\ e \in joined \ (left \cup up) /\ left' = left \cup {e}
        /\ route' \subseteq route /\ pending' \in {pending, <<>>}
        /\ UNCHANGED <<table, outbound, inbox, joined, torn, loops, users>>
    BY DEF Unregister
  <1>2. WiresOK'
    BY <1>1, SetsKept, SeqEmpty DEF WiresOK, table
  <1>3. TypeOK'
    <2>1. pending' \in Seq(FrameType)
      <3>1. pending \in Seq(FrameType) /\ <<>> \in Seq(FrameType)
        BY SeqEmpty DEF TypeOK
      <3> QED
        BY <1>1, <3>1
    <2>2. route' \subseteq Node /\ \A i, j \in route' : i = j
      BY <1>1 DEF TypeOK
    <2>3. left' \subseteq joined' \ up'
      BY <1>1 DEF TypeOK, loops
    <2> QED
      BY <1>1, <2>1, <2>2, <2>3 DEF TypeOK, table, relay, loops, users
  <1> QED
    BY <1>1, <1>2, <1>3 DEF PhasesOK, Counted, EntriesHaveOwners, table, relay, loops, users

(* The ends of the loops and of the websockets. *)
LEMMA EndsInv ==
    ASSUME MuxInv, NEW e \in End,
           WriteFails(e) \/ WriterDone(e) \/ ReaderEnds(e) \/ SocketEnds(e)
    PROVE  MuxInv'
  <1> USE DEF MuxInv
  <1>1. UNCHANGED <<table, relay, pending, owned, users>>
    BY DEF WriteFails, WriterDone, ReaderEnds, SocketEnds, wires
  <1>2. writing' \subseteq writing /\ reading' \subseteq reading /\ up' \subseteq up
    BY DEF WriteFails, WriterDone, ReaderEnds, SocketEnds
  <1>3. /\ outbound' = outbound \/ outbound' = [outbound EXCEPT ![e] = <<>>]
        /\ inbox' = inbox \/ inbox' = [inbox EXCEPT ![e] = <<>>]
    BY DEF WriteFails, WriterDone, ReaderEnds, SocketEnds, wires
  <1>4. outbound' \in [End -> Seq(FrameType)] /\ inbox' \in [End -> Seq(FrameType)]
    <2>1. [outbound EXCEPT ![e] = <<>>] \in [End -> Seq(FrameType)]
      BY SeqEmpty DEF TypeOK
    <2>2. [inbox EXCEPT ![e] = <<>>] \in [End -> Seq(FrameType)]
      BY SeqEmpty DEF TypeOK
    <2> QED
      BY <1>3, <2>1, <2>2 DEF TypeOK
  <1>5. WiresOK'
    <2>1. ASSUME NEW p \in End
          PROVE  /\ outbound'[p] = outbound[p] \/ outbound'[p] = <<>>
                 /\ inbox'[p] = inbox[p] \/ inbox'[p] = <<>>
      BY <1>3 DEF TypeOK
    <2>2. \A p \in End : outbound'[p] \in Seq(SentBy(p)) /\ inbox'[p] \in Seq(SentTo(p))
      BY <2>1, SeqEmpty DEF WiresOK
    <2> QED
      BY <1>1, <2>2, SetsKept DEF WiresOK, table
  <1>6. TypeOK'
    BY <1>1, <1>2, <1>4 DEF TypeOK, table, relay, users
  <1>7. EntriesHaveOwners'
    BY <1>1, <1>2 DEF EntriesHaveOwners, table, users
  <1> QED
    BY <1>1, <1>2, <1>5, <1>6, <1>7 DEF PhasesOK, Counted, table, users

(* What the read loop takes, and what that leaves. *)
LEMMA ReceivedFrame ==
    ASSUME MuxInv, NEW e \in End, Received(e)
    PROVE  /\ Head(inbox[e]) \in SentTo(e)
           /\ inbox' \in [End -> Seq(FrameType)]
           /\ \A p \in End : inbox'[p] \in Seq(SentTo(p))
  <1> USE DEF MuxInv
  <1>1. Head(inbox[e]) \in SentTo(e) /\ Tail(inbox[e]) \in Seq(SentTo(e))
    BY SeqHeadTail DEF Received, WiresOK
  <1>2. inbox' = [inbox EXCEPT ![e] = Tail(@)]
    BY DEF Received
  <1>3. \A p \in End : inbox'[p] \in Seq(SentTo(p))
    BY <1>1, <1>2 DEF WiresOK, TypeOK
  <1>4. Tail(inbox[e]) \in Seq(FrameType)
    BY SeqHeadTail DEF Received, TypeOK
  <1> QED
    BY <1>1, <1>2, <1>3, <1>4 DEF TypeOK

LEMMA ReadOpenInv == ASSUME MuxInv, NEW e \in End, ReadOpen(e) PROVE MuxInv'
  <1> USE DEF MuxInv
  <1> DEFINE f == Head(inbox[e])
  <1>1. Received(e) /\ f.type = "Open" /\ UNCHANGED <<opened, removing, lent, outbound, pending, relay, loops>>
    BY DEF ReadOpen
  <1>2. f \in SentTo(e) /\ f \in FrameType
    BY <1>1, ReceivedFrame DEF SentTo
  <1>3. f.from \in Stream /\ f.from.by = f.from.at /\ e \in Peers(f.from.by) /\ Counted(f.from)
    BY <1>1, <1>2 DEF SentTo, FrameType
  <1>4. PICK s \in Stream : s = [at |-> e, by |-> f.from.by, n |-> f.from.n]
    BY <1>3, StreamParts, StreamMade
  <1>5. s.at = e /\ s.by = f.from.by /\ s.n = f.from.n
    BY <1>4
  <1>6. streams' = Inserted(s) /\ phase' = [phase EXCEPT ![s] = "incoming"]
    BY <1>4 DEF ReadOpen
  <1>7. Counted(s)
    BY <1>3, <1>5 DEF Counted
  <1> HIDE DEF f
  <1>8. TypeOK'
    <2>1. /\ streams' \subseteq Stream
          /\ \A t \in streams' : t.n <= opened'[t.by]
          /\ \A t, u \in streams' : t.at = u.at /\ Id(t) = Id(u) => t = u
      BY <1>1, <1>6, <1>7, InsertedEntries DEF TypeOK, Counted
    <2>2. inbox' \in [End -> Seq(FrameType)]
      BY <1>1, ReceivedFrame
    <2> QED
      BY <1>1, <1>6, <2>1, <2>2 DEF TypeOK, ReadOpen, relay, loops
  <1>9. WiresOK'
    BY <1>1, ReceivedFrame, SetsKept DEF WiresOK
  <1>10. PhasesOK'
    BY <1>1, <1>6, <1>7 DEF PhasesOK, Counted, TypeOK
  <1>11. streams' \subseteq streams \cup {s}
    BY <1>6, InsertedEntries
  <1>13. EntriesHaveOwners'
    BY <1>1, <1>6, <1>11 DEF EntriesHaveOwners, TypeOK, relay, loops
  <1> QED
    BY <1>8, <1>9, <1>10, <1>13

LEMMA ReadDataInv == ASSUME MuxInv, NEW e \in End, ReadData(e) PROVE MuxInv'
  <1> USE DEF MuxInv
  <1> DEFINE f == Head(inbox[e])
  <1> DEFINE to == {s \in Entries(e, Id(f.from)) : phase[s] # "dropped"}
  <1>1. /\ Received(e)
        /\ inbound' = [s \in Stream |-> IF s \in to THEN Append(inbound[s], <<f.from, f.n>>)
                                                      ELSE inbound[s]]
        /\ UNCHANGED <<table, outbound, pending, relay, loops, phase, sent_close, wrote, got, ended>>
    BY DEF ReadData
  <1>2. <<f.from, f.n>> \in Stream \X Nat
    BY <1>1, ReceivedFrame DEF SentTo, FrameType
  <1> HIDE DEF f, to
  <1>3. \A s \in Stream : Append(inbound[s], <<f.from, f.n>>) \in Seq(Stream \X Nat)
    BY <1>2, SeqAppend DEF TypeOK
  <1>4. inbound' \in [Stream -> Seq(Stream \X Nat)]
    BY <1>1, <1>3 DEF TypeOK
  <1>5. TypeOK'
    BY <1>1, <1>4, ReceivedFrame DEF TypeOK, table, relay, loops
  <1>6. WiresOK'
    BY <1>1, ReceivedFrame, SetsKept DEF WiresOK, table
  <1> QED
    BY <1>1, <1>5, <1>6 DEF PhasesOK, Counted, EntriesHaveOwners, table, relay, loops

LEMMA ReadCloseInv == ASSUME MuxInv, NEW e \in End, ReadClose(e) PROVE MuxInv'
  <1> USE DEF MuxInv
  <1>1. /\ Received(e) /\ streams' \subseteq streams
        /\ UNCHANGED <<opened, removing, lent, outbound, pending, relay, loops, users>>
    BY DEF ReadClose
  <1>2. inbox' \in [End -> Seq(FrameType)] /\ WiresOK'
    BY <1>1, ReceivedFrame, SetsKept DEF WiresOK
  <1>3. TypeOK'
    BY <1>1, <1>2 DEF TypeOK, relay, loops, users
  <1> QED
    BY <1>1, <1>2, <1>3 DEF PhasesOK, Counted, EntriesHaveOwners, relay, loops, users

LEMMA StutterInv == MuxInv /\ UNCHANGED vars => MuxInv'
  BY WiresKept DEF MuxInv, TypeOK, PhasesOK, Counted, EntriesHaveOwners,
                   vars, table, wires, relay, loops, users

LEMMA StepInv == MuxInv /\ [Next]_vars => MuxInv'
  <1> SUFFICES ASSUME MuxInv, [Next]_vars PROVE MuxInv'
    OBVIOUS
  <1>1. ASSUME NEW e \in End,
               \/ Lend(e) \/ Open(e) \/ Abandon(e) \/ WriteFrame(e) \/ WriteFails(e) \/ WriterDone(e)
               \/ ReadStep(e) \/ ReaderEnds(e)
               \/ Register(e) \/ SocketEnds(e) \/ Unregister(e)
        PROVE  MuxInv'
    BY <1>1, OpenInv, OwnerInv, WriteFrameInv, EndsInv, RegisterInv, UnregisterInv, ReadOpenInv, ReadDataInv, ReadCloseInv
       DEF ReadStep
  <1>2. ASSUME NEW s \in Stream,
               \/ Take(s) \/ Write(s) \/ Shutdown(s) \/ Read(s) \/ ReadEnd(s)
               \/ Drop(s) \/ Remove(s) \/ Stranded(s)
        PROVE  MuxInv'
    BY <1>2, OwnerInv, SendInv, ReadInv, DropInv, RemoveInv, StutterInv DEF Stranded
  <1>4. CASE Finished \/ UNCHANGED vars
    BY <1>4, StutterInv DEF Finished
  <1> QED
    BY <1>1, <1>2, <1>4 DEF Next

LEMMA MuxInvariant == Spec => []MuxInv
  <1>1. Init => MuxInv
    BY InitInv
  <1>2. MuxInv /\ [Next]_vars => MuxInv'
    BY StepInv
  <1> QED
    BY <1>1, <1>2, PTL DEF Spec

-----------------------------------------------------------------------------
(* In every behaviour the queues hold frames and payloads, and no table has   *)
(* two entries for one stream id, nor one for a stream that was not opened    *)
(* (open_stream, read_loop).                                                  *)
THEOREM MuxTypeCorrect == Spec => []TypeOK
  <1>1. MuxInv => TypeOK
    BY DEF MuxInv
  <1> QED
    BY <1>1, MuxInvariant, PTL

(* A stream that is gone leaves no entry behind, unless it was opened after   *)
(* the end of the write loop: a Drop gives each entry that is still there a   *)
(* removal task (open_stream, Drop, read_loop).                               *)
THEOREM EntriesAreOwned == Spec => []EntriesHaveOwners
  <1>1. MuxInv => EntriesHaveOwners
    BY DEF MuxInv
  <1> QED
    BY <1>1, MuxInvariant, PTL
=============================================================================
