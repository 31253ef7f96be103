--------------------------- MODULE RelayPeerProofs ---------------------------
(* Facts about the operators of RelayPeer that every proof about a session *)
(* rests on.                                                               *)
EXTENDS RelayPeer, SequenceTheorems, TLAPS

(* Filling a queue keeps it a sequence of the same messages, no longer than *)
(* it was or than the channel's capacity (try_send).                        *)
LEMMA FillProperties ==
    ASSUME NEW M, NEW q \in Seq(M), NEW ms \in Seq(M)
    PROVE  /\ Fill(q, ms) \in Seq(M)
           /\ Len(Fill(q, ms)) <= Len(q) + Len(ms)
           /\ Len(Fill(q, ms)) <= MaxQueue \/ Len(q \o ms) <= MaxQueue
<1> DEFINE all == q \o ms
<1>1. all \in Seq(M) /\ Len(all) = Len(q) + Len(ms)
      BY ConcatProperties
<1>2. CASE Len(all) <= MaxQueue
      BY <1>1, <1>2 DEF Fill
<1>3. CASE ~(Len(all) <= MaxQueue)
  <2>1. MaxQueue \in Nat /\ Len(all) \in Nat /\ MaxQueue < Len(all)
        BY <1>1, <1>3, LenProperties, PeerAssumption
  <2>2. \A i \in 1 .. MaxQueue : all[i] \in M
        BY <1>1, <2>1, ElementOfSeq
  <2>3. SubSeq(all, 1, MaxQueue) \in Seq(M)
        BY <2>1, <2>2, SubSeqProperties
  <2>4. Len(SubSeq(all, 1, MaxQueue)) = MaxQueue
    <3>1. 1 <= MaxQueue
          BY <2>1, PeerAssumption
    <3> QED  BY <2>1, <2>2, <3>1, SubSeqProperties
  <2>5. Fill(q, ms) = SubSeq(all, 1, MaxQueue)
        BY <1>3 DEF Fill
  <2> QED  BY <1>1, <2>1, <2>3, <2>4, <2>5
<1> QED  BY <1>2, <1>3

(* If every queue and every offer respects a set of messages chosen per      *)
(* socket, so does every queue after the offer (Emit, CloseSlow, Finish).    *)
LEMMA OfferedRespects ==
    ASSUME NEW M,
           \A p \in Peer : queue[p] \in Seq(M[p]),
           NEW out, \A p \in Peer : out[p] \in Seq(M[p])
    PROVE  /\ DOMAIN Offered(out) = Peer
           /\ \A p \in Peer : Offered(out)[p] \in Seq(M[p])
<1>1. \A p \in Peer : Fill(queue[p], out[p]) \in Seq(M[p])
      BY FillProperties
<1> QED  BY <1>1 DEF Offered

(* The sequences a step offers consist of the messages it was given.         *)
LEMMA OffersRespect ==
    ASSUME NEW M, NEW p \in Peer
    PROVE  /\ Silence[p] \in Seq(M)
           /\ \A S, m : (p \in S => m \in M) => To(S, m)[p] \in Seq(M)
           /\ \A t, ms : (p = t => ms \in Seq(M)) => Batch(t, ms)[p] \in Seq(M)
           /\ \A f, g : f[p] \in Seq(M) /\ g[p] \in Seq(M) => Both(f, g)[p] \in Seq(M)
<1>1. <<>> \in Seq(M)
      BY EmptySeq
<1>2. \A m \in M : <<m>> \in Seq(M)
      OBVIOUS
<1>3. Silence[p] \in Seq(M)
      BY <1>1 DEF Silence
<1>4. ASSUME NEW S, NEW m, p \in S => m \in M
      PROVE  To(S, m)[p] \in Seq(M)
      BY <1>1, <1>2, <1>4 DEF To
<1>5. ASSUME NEW t, NEW ms, p = t => ms \in Seq(M)
      PROVE  Batch(t, ms)[p] \in Seq(M)
      BY <1>1, <1>5 DEF Batch
<1>6. ASSUME NEW f, NEW g, f[p] \in Seq(M), g[p] \in Seq(M)
      PROVE  Both(f, g)[p] \in Seq(M)
  <2>1. f[p] \o g[p] \in Seq(M)
        BY <1>6, ConcatProperties
  <2> QED  BY <2>1 DEF Both
<1> QED  BY <1>3, <1>4, <1>5, <1>6
=============================================================================
