----------------------- MODULE StreamManagement_proofs -----------------------
(***************************************************************************)
(* Proofs about StreamManagement, for every AckInterval and MaxStanzas,    *)
(* resting on the lemmas of XmppStream_proofs.                             *)
(***************************************************************************)
EXTENDS StreamManagement, XmppStream_proofs

\* Each side has the other for its peer.
LEMMA PeerOfSide ==
    ASSUME NEW s \in Side
    PROVE  Peer(s) \in Side /\ Peer(s) # s /\ Peer(Peer(s)) = s
BY DEF Side, Peer

-----------------------------------------------------------------------------
(* What happens to a direction of the transport *)

\* The end of s that pushes f towards its peer pushes at most f and a request,
\* and does push f while the transport works and the peer reads.
LEMMA TravelsFrames ==
    ASSUME NEW s \in Side, NEW f \in Frame, NEW frames \in {<<f>>, <<f, R>>}
    PROVE  /\ Travels(s, frames) \in {<<>>, <<f>>, <<f, R>>}
           /\ (up /\ end[Peer(s)].open) => Travels(s, frames) # <<>>
           /\ ~up => Travels(s, frames) = <<>>
BY DEF Travels

-----------------------------------------------------------------------------
(* One lemma per action: the inductive invariant is preserved *)

\* The invariant holds when registerStream has sent its <enable/>.
LEMMA InitIInv == Init => IInv
<1> SUFFICES ASSUME Init PROVE IInv
  OBVIOUS
<1>1. NewStream \in End /\ F("enable", 0) \in Frame
  BY DEF NewStream, End, F, Frame, Kinds
<1>2. \A s \in Side : /\ end[s] = NewStream
                      /\ (wire[s] = <<>> \/ wire[s] = <<F("enable", 0)>>)
                      /\ delivered[s] = <<>>
  BY DEF Init
<1>3. TypeOK
  BY <1>1 DEF Init, TypeOK
<1>4. \A s \in Side : Peer(s) \in Side
  BY PeerOfSide
<1>5. ASSUME NEW s \in Side
      PROVE  QueueIsTail(s) /\ AckedWasReceived(s) /\ InOrder(s)
  <2>1. /\ end[s].inCount = 0 /\ end[s].outCount = 0 /\ end[s].unacked = <<>>
        /\ end[Peer(s)].inCount = 0 /\ end[Peer(s)].outCount = 0
        /\ delivered[s] = <<>>
    <3>1. /\ NewStream.inCount = 0 /\ NewStream.outCount = 0
          /\ NewStream.unacked = <<>>
      BY DEF NewStream
    <3> QED BY <1>2, <1>4, <3>1
  <2> QED BY <2>1 DEF QueueIsTail, AckedWasReceived, InOrder
<1>6. ASSUME NEW s \in Side
      PROVE  /\ FramesInFlight(s) /\ StanzasAhead(s) /\ StanzasOrdered(s)
             /\ StanzasComplete(s) /\ BrokenIsEmpty(s)
  <2>1. end[s].inCount = 0 /\ end[Peer(s)].outCount = 0 /\ up
    BY <1>2, <1>4 DEF Init, NewStream
  <2>2. \A k \in 1..Len(wire[s]) : wire[s][k].kind = "enable"
    BY <1>2 DEF F
  <2> QED BY <2>1, <2>2 DEF FramesInFlight, StanzasAhead, StanzasOrdered,
                            StanzasComplete, BrokenIsEmpty
<1> QED BY <1>3, <1>5, <1>6 DEF IInv

\* send(stanza) puts the stanza in the queue and, unless it is lost, in flight.
LEMMA SendStep ==
    ASSUME IInv, NEW s \in Side, SendStanza(s)
    PROVE  IInv'
<1> DEFINE p  == Peer(s)
           id == end[s].outCount + 1
           e  == Counted(end[s], id)
           f  == F("stanza", id)
           fr == Travels(s, WithRequest(e, f))
<1>1. p \in Side /\ p # s /\ Peer(s) = p /\ Peer(p) = s /\ \A t \in Side : t = s \/ t = p
  BY PeerOfSide DEF Side
<1>2. /\ end[s] \in End /\ end[p] \in End
      /\ end[s].outCount \in Nat /\ end[s].inCount \in Nat
      /\ end[p].outCount \in Nat /\ end[p].inCount \in Nat
      /\ end[s].unacked \in Seq(Nat) /\ Len(end[s].unacked) \in Nat
      /\ wire[s] \in Seq(Frame) /\ wire[p] \in Seq(Frame)
      /\ Len(wire[s]) \in Nat /\ Len(wire[p]) \in Nat
  BY <1>1 DEF IInv, TypeOK, End
<1>3. /\ id \in Nat /\ f \in Frame /\ f.kind = "stanza" /\ f.n = id
      /\ R.kind = "r" /\ R \in Frame
  BY <1>2 DEF F, Frame, Kinds, R
<1>4. /\ e \in End /\ e.outCount = id /\ e.inCount = end[s].inCount
      /\ e.open = end[s].open /\ e.unacked = Append(end[s].unacked, id)
  BY <1>2, <1>3, CountedEnd
<1>5. /\ Len(e.unacked) = Len(end[s].unacked) + 1
      /\ \A j \in 1..Len(end[s].unacked) : e.unacked[j] = end[s].unacked[j]
      /\ e.unacked[Len(end[s].unacked) + 1] = id
  <2>1. end[s].unacked \in Seq(Nat) /\ id \in Nat
    BY <1>2, <1>3
  <2> HIDE DEF id
  <2> QED BY <2>1, <1>4, OneMore
<1>6. /\ fr \in {<<>>, <<f>>, <<f, R>>}
      /\ (up /\ end[p].open) => fr # <<>>
      /\ ~up => fr = <<>>
  BY <1>3, <1>4, WithRequestFrames, TravelsFrames
<1> HIDE DEF p, id, e, f, fr
<1>7. /\ Extends(wire[p], wire[p] \o fr, f)
      /\ fr # <<>> => Carries(wire[p], wire[p] \o fr, f)
      /\ wire[p] \o fr \in Seq(Frame)
  <2>1. /\ Extends(wire[p], wire[p] \o fr, f)
        /\ fr # <<>> => Carries(wire[p], wire[p] \o fr, f)
    BY <1>2, <1>3, <1>6, Pushed
  <2> QED BY <2>1 DEF Extends
<1>8. /\ end' \in [Side -> End] /\ end'[s] = e /\ end'[p] = end[p]
      /\ wire' \in [Side -> Seq(Frame)]
      /\ wire'[s] = wire[s] /\ wire'[p] = wire[p] \o fr
      /\ up' = up /\ delivered' = delivered
  <2>1. /\ end' = [end EXCEPT ![s] = e]
        /\ wire' = [wire EXCEPT ![p] = wire[p] \o fr]
        /\ up' = up
        /\ delivered' = delivered
    BY DEF SendStanza, p, id, e, f, fr
  <2> QED BY <1>1, <1>4, <1>7, <2>1 DEF IInv, TypeOK
<1>counts. /\ end[s].outCount \in Nat /\ end[s].inCount \in Nat
           /\ end[p].outCount \in Nat /\ end[p].inCount \in Nat
           /\ end'[s].outCount = end[s].outCount + 1
           /\ end'[s].inCount = end[s].inCount
           /\ end'[s].open = end[s].open
           /\ end'[p] = end[p]
           /\ f.kind = "stanza" /\ f.n = end[s].outCount + 1 /\ R.kind = "r"
  BY <1>2, <1>3, <1>4, <1>8 DEF id
<1>wires. /\ Len(wire[p]) \in Nat /\ Len(wire'[p]) \in Nat
          /\ wire'[s] = wire[s]
          /\ Extends(wire[p], wire'[p], f)
          /\ (up /\ end[p].open) => Carries(wire[p], wire'[p], f)
          /\ up' = up
  BY <1>2, <1>6, <1>7, <1>8
<1>9. TypeOK'
  BY <1>8 DEF IInv, TypeOK
<1>10. QueueIsTail(s)' /\ QueueIsTail(p)'
  <2>1. QueueIsTail(s) /\ QueueIsTail(p)
    BY <1>1 DEF IInv
  <2>2. QueueIsTail(p)'
    BY <2>1, <1>8 DEF QueueIsTail
  <2>3. QueueIsTail(s)'
    <3>1. Len(e.unacked) <= e.outCount
      BY <2>1, <1>2, <1>4, <1>5 DEF QueueIsTail, id
    <3>2. ASSUME NEW j \in 1..Len(e.unacked)
          PROVE  e.unacked[j] = e.outCount - Len(e.unacked) + j
      <4>1. CASE j = Len(end[s].unacked) + 1
        BY <4>1, <1>2, <1>4, <1>5 DEF id
      <4>2. CASE j \in 1..Len(end[s].unacked)
        <5>1. e.unacked[j] = end[s].outCount - Len(end[s].unacked) + j
          BY <4>2, <2>1, <1>5 DEF QueueIsTail
        <5>2. /\ e.outCount = end[s].outCount + 1
              /\ Len(e.unacked) = Len(end[s].unacked) + 1
          BY <1>4, <1>5 DEF id
        <5>3. e.outCount - Len(e.unacked) = end[s].outCount - Len(end[s].unacked)
          <6>1. end[s].outCount \in Nat /\ Len(end[s].unacked) \in Nat
            BY <1>2
          <6> QED BY ONLY <5>2, <6>1, SameDifference, Zenon
        <5> QED BY <5>1, <5>3
      <4> QED BY <4>1, <4>2, <1>2, <1>5
    <3> QED BY <3>1, <3>2, <1>8 DEF QueueIsTail
  <2> QED BY <2>2, <2>3
<1>11. AckedWasReceived(s)' /\ AckedWasReceived(p)'
  <2>1. AckedWasReceived(s) /\ AckedWasReceived(p)
    BY <1>1 DEF IInv
  <2>2. Len(end'[s].unacked) = Len(end[s].unacked) + 1
    BY <1>5, <1>8
  <2>3. AckedWasReceived(s)'
    <3>1. end[s].outCount - Len(end[s].unacked) <= end[p].inCount
      BY <2>1, <1>1 DEF AckedWasReceived
    <3>2. end'[s].outCount - Len(end'[s].unacked) <= end[p].inCount
      <4>1. /\ end'[s].outCount - Len(end'[s].unacked)
               = end[s].outCount - Len(end[s].unacked)
        <5>1. end[s].outCount \in Nat /\ Len(end[s].unacked) \in Nat
          BY <1>2
        <5>2. end'[s].outCount = end[s].outCount + 1
          BY <1>counts
        <5> QED BY ONLY <5>1, <5>2, <2>2, SameDifference, Zenon
      <4> QED BY <3>1, <4>1
    <3> QED BY <3>2, <1>1, <1>counts DEF AckedWasReceived
  <2>4. AckedWasReceived(p)'
    BY <2>1, <1>1, <1>counts DEF AckedWasReceived
  <2> QED BY <2>3, <2>4
<1>12. FramesInFlight(s)' /\ FramesInFlight(p)'
  <2>1. FramesInFlight(s) /\ FramesInFlight(p)
    BY <1>1 DEF IInv
  <2>2. FramesInFlight(s)'
    BY <2>1, <1>1, <1>8 DEF FramesInFlight
  <2>3. FramesInFlight(p)'
    <3> SUFFICES ASSUME NEW k \in 1..Len(wire'[p])
                 PROVE  /\ wire'[p][k].kind \notin {"resume", "resumed"}
                        /\ wire'[p][k].kind = "a" => wire'[p][k].n <= end'[s].inCount
      BY <1>1 DEF FramesInFlight
    <3> QED BY <2>1, <1>1, <1>2, <1>3, <1>counts, <1>wires, ExtendsCases DEF FramesInFlight
  <2> QED BY <2>2, <2>3
<1>13. StanzasAhead(s)' /\ StanzasAhead(p)'
  <2>1. StanzasAhead(s) /\ StanzasAhead(p) /\ InOrder(p)
    BY <1>1 DEF IInv
  <2>2. StanzasAhead(s)'
    BY <2>1, <1>1, <1>4, <1>8 DEF StanzasAhead
  <2>3. StanzasAhead(p)'
    <3>1. end[p].inCount <= end[s].outCount
      BY <2>1, <1>1 DEF InOrder
    <3> SUFFICES ASSUME NEW k \in 1..Len(wire'[p]), wire'[p][k].kind = "stanza"
                 PROVE  end'[p].inCount < wire'[p][k].n /\ wire'[p][k].n <= end'[s].outCount
      BY <1>1 DEF StanzasAhead
    <3>2. (k \in 1..Len(wire[p]) /\ wire'[p][k] = wire[p][k]) \/ wire'[p][k] = f
      BY <1>2, <1>3, <1>wires, ExtendsCases
    <3>3. wire[p][k] \in Frame \/ wire'[p][k] = f
      BY <3>2, <1>2
    <3>4. CASE k \in 1..Len(wire[p]) /\ wire'[p][k] = wire[p][k]
      <4>1. /\ end[p].inCount < wire[p][k].n
            /\ wire[p][k].n <= end[s].outCount
        BY <3>4, <2>1, <1>1 DEF StanzasAhead
      <4>2. wire[p][k].n \in Nat
        BY <3>4, <1>2, FrameAt
      <4> QED BY <3>4, <4>1, <4>2, <1>counts
    <3>5. CASE wire'[p][k] = f
      BY <3>5, <3>1, <1>counts
    <3> QED BY <3>2, <3>4, <3>5
  <2> QED BY <2>2, <2>3
<1>14. StanzasOrdered(s)' /\ StanzasOrdered(p)'
  <2>1. StanzasOrdered(s) /\ StanzasOrdered(p) /\ StanzasAhead(p)
    BY <1>1 DEF IInv
  <2>2. StanzasOrdered(s)'
    BY <2>1, <1>8 DEF StanzasOrdered
  <2>3. StanzasOrdered(p)'
    <3> SUFFICES ASSUME NEW j \in 1..Len(wire'[p]), NEW k \in 1..Len(wire'[p]), j < k,
                        wire'[p][j].kind = "stanza", wire'[p][k].kind = "stanza"
                 PROVE  wire'[p][j].n < wire'[p][k].n
      BY DEF StanzasOrdered
    <3>1. /\ \/ k \in 1..Len(wire[p]) /\ wire'[p][k] = wire[p][k]
             \/ k = Len(wire[p]) + 1 /\ wire'[p][k] = f
          /\ \/ j \in 1..Len(wire[p]) /\ wire'[p][j] = wire[p][j]
             \/ j = Len(wire[p]) + 1 /\ wire'[p][j] = f
      BY <1>2, <1>3, <1>wires, ExtendsCases
    <3>2. j \in 1..Len(wire[p]) /\ wire'[p][j] = wire[p][j]
      BY <3>1, <1>2
    <3>3. CASE k \in 1..Len(wire[p]) /\ wire'[p][k] = wire[p][k]
      BY <2>1, <3>2, <3>3 DEF StanzasOrdered
    <3>4. CASE wire'[p][k] = f
      <4>1. wire[p][j].n <= end[s].outCount /\ wire[p][j].n \in Nat
        BY <2>1, <3>2, <1>1, <1>2, FrameAt DEF StanzasAhead
      <4> QED BY <4>1, <3>2, <3>4, <1>counts
    <3> QED BY <3>1, <3>3, <3>4
  <2> QED BY <2>2, <2>3
<1>15. StanzasComplete(s)' /\ StanzasComplete(p)'
  <2>1. StanzasComplete(s) /\ StanzasComplete(p)
    BY <1>1 DEF IInv
  <2>2. StanzasComplete(s)'
    BY <2>1, <1>1, <1>4, <1>8 DEF StanzasComplete
  <2>3. ASSUME up', end'[p].open,
               NEW n \in end'[p].inCount + 1 .. end'[s].outCount
        PROVE  \E k \in 1..Len(wire'[p]) :
                  wire'[p][k].kind = "stanza" /\ wire'[p][k].n = n
    <3>1. Carries(wire[p], wire'[p], f) /\ Extends(wire[p], wire'[p], f)
      BY <1>6, <1>7, <1>8, <2>3
    <3>2. CASE n = id
      BY <3>1, <3>2, <1>3 DEF Carries
    <3>3. CASE n # id
      <4>1. n \in end[p].inCount + 1 .. end[s].outCount
        BY <3>3, <2>3, <1>counts, <1>3 DEF id
      <4>2. PICK k \in 1..Len(wire[p]) :
                wire[p][k].kind = "stanza" /\ wire[p][k].n = n
        BY <4>1, <2>1, <2>3, <1>1, <1>8 DEF StanzasComplete
      <4>3. k \in 1..Len(wire'[p]) /\ wire'[p][k] = wire[p][k]
        <5>1. wire'[p][k] = wire[p][k]
          BY <4>2, <3>1 DEF Extends
        <5>2. Len(wire'[p]) >= Len(wire[p])
          BY <3>1 DEF Extends
        <5> QED BY <5>1, <5>2, <1>wires
      <4> QED BY <4>2, <4>3
    <3> QED BY <3>2, <3>3
  <2> QED BY <2>2, <2>3, <1>1 DEF StanzasComplete
<1>16. BrokenIsEmpty(s)' /\ BrokenIsEmpty(p)'
  <2>1. BrokenIsEmpty(s) /\ BrokenIsEmpty(p)
    BY <1>1 DEF IInv
  <2> QED BY <2>1, <1>2, <1>6, <1>8 DEF BrokenIsEmpty
<1>17. InOrder(s)' /\ InOrder(p)'
  <2>1. InOrder(s) /\ InOrder(p)
    BY <1>1 DEF IInv
  <2>2. InOrder(s)'
    BY <2>1, <1>1, <1>4, <1>8 DEF InOrder
  <2>3. InOrder(p)'
    <3>1. Len(delivered[p]) \in Nat
      BY <1>1 DEF IInv, TypeOK
    <3>2. /\ Len(delivered[p]) = end[p].inCount
          /\ \A i \in 1..Len(delivered[p]) : delivered[p][i] = i
          /\ Len(delivered[p]) <= end[s].outCount
      BY <2>1, <1>1 DEF InOrder
    <3>3. Len(delivered[p]) <= end'[s].outCount
      BY <3>1, <3>2, <1>counts
    <3> QED BY <3>2, <3>3, <1>1, <1>8 DEF InOrder
  <2> QED BY <2>2, <2>3
<1> QED
  BY <1>1, <1>9, <1>10, <1>11, <1>12, <1>13, <1>14, <1>15, <1>16, <1>17 DEF IInv

-----------------------------------------------------------------------------
(* Handling what arrives: the head of one direction is read, and frames that *)
(* are no stanzas may be pushed in the other                                 *)

\* A frame f that is not a stanza, pushed towards p, disturbs no stanza there.
LEMMA ControlPushed ==
    ASSUME IInv, NEW s \in Side, NEW p \in Side, Peer(p) = s, NEW f \in Frame,
           Extends(wire[p], wire'[p], f),
           f.kind \notin {"stanza", "resume", "resumed"},
           f.kind = "a" => f.n <= end'[s].inCount,
           end'[s].outCount = end[s].outCount,
           end'[s].inCount \in Nat, end'[s].inCount >= end[s].inCount,
           end'[p].inCount = end[p].inCount, end'[p].open = end[p].open,
           up' = up
    PROVE  /\ FramesInFlight(p)' /\ StanzasAhead(p)'
           /\ StanzasOrdered(p)' /\ StanzasComplete(p)'
<1>1. /\ wire[p] \in Seq(Frame) /\ Len(wire[p]) \in Nat
      /\ end[s].inCount \in Nat
  BY DEF IInv, TypeOK, End
<1>2. /\ FramesInFlight(p) /\ StanzasAhead(p)
      /\ StanzasOrdered(p) /\ StanzasComplete(p)
  BY DEF IInv
<1>3. ASSUME NEW k \in 1..Len(wire'[p])
      PROVE  \/ k \in 1..Len(wire[p]) /\ wire'[p][k] = wire[p][k]
             \/ wire'[p][k] = f
             \/ wire'[p][k].kind = "r"
  BY <1>1, ExtendsCases
<1>4. FramesInFlight(p)'
  <2> SUFFICES ASSUME NEW k \in 1..Len(wire'[p])
               PROVE  /\ wire'[p][k].kind \notin {"resume", "resumed"}
                      /\ wire'[p][k].kind = "a" => wire'[p][k].n <= end'[s].inCount
    BY DEF FramesInFlight
  <2>1. CASE k \in 1..Len(wire[p]) /\ wire'[p][k] = wire[p][k]
    <3>1. /\ wire[p][k].kind \notin {"resume", "resumed"}
          /\ wire[p][k].kind = "a" => wire[p][k].n <= end[s].inCount
          /\ wire[p][k].n \in Nat
      BY <2>1, <1>1, <1>2, FrameAt DEF FramesInFlight
    <3> QED BY <2>1, <3>1, <1>1
  <2> QED BY <2>1, <1>3
<1>5. ASSUME NEW k \in 1..Len(wire'[p]), wire'[p][k].kind = "stanza"
      PROVE  k \in 1..Len(wire[p]) /\ wire'[p][k] = wire[p][k]
  BY <1>3, <1>5
<1>6. StanzasAhead(p)'
  BY <1>2, <1>5 DEF StanzasAhead
<1>7. StanzasOrdered(p)'
  BY <1>2, <1>5 DEF StanzasOrdered
<1>8. StanzasComplete(p)'
  <2>1. \A k \in 1..Len(wire[p]) : k \in 1..Len(wire'[p]) /\ wire'[p][k] = wire[p][k]
    BY <1>1 DEF Extends
  <2> QED BY <1>2, <2>1 DEF StanzasComplete
<1> QED BY <1>4, <1>6, <1>7, <1>8

\* Reading the head of wire[s]: if it is a stanza it is the next one s lacks.
LEMMA HeadIsNext ==
    ASSUME IInv, NEW s \in Side, end[s].open, wire[s] # <<>>,
           Head(wire[s]).kind = "stanza"
    PROVE  Head(wire[s]).n = end[s].inCount + 1
<1> DEFINE w == wire[s]
           p == Peer(s)
<1>1. /\ w \in Seq(Frame) /\ Len(w) \in Nat /\ 1 \in 1..Len(w)
      /\ Head(w) = w[1] /\ w[1].n \in Nat
      /\ end[s].inCount \in Nat /\ end[p].outCount \in Nat
  BY PeerOfSide, Popped, FrameAt DEF IInv, TypeOK, End
<1>2. /\ StanzasAhead(s) /\ StanzasOrdered(s) /\ StanzasComplete(s)
      /\ BrokenIsEmpty(s)
  BY DEF IInv
<1>3. end[s].inCount < w[1].n /\ w[1].n <= end[p].outCount
  BY <1>1, <1>2 DEF StanzasAhead
<1>4. up
  BY <1>2 DEF BrokenIsEmpty
<1>5. end[s].inCount + 1 \in end[s].inCount + 1 .. end[p].outCount
  BY <1>1, <1>3
<1>6. PICK k \in 1..Len(w) : w[k].kind = "stanza" /\ w[k].n = end[s].inCount + 1
  BY <1>2, <1>4, <1>5 DEF StanzasComplete
<1>7. CASE k = 1
  BY <1>1, <1>6, <1>7
<1>8. CASE 1 < k
  <2>1. w[1].n < w[k].n
    BY <1>1, <1>2, <1>6, <1>8 DEF StanzasOrdered
  <2> QED BY <1>1, <1>3, <1>6, <2>1
<1> QED BY <1>1, <1>7, <1>8

\* After the head has been read the rest is still what s lacks.
LEMMA HeadRead ==
    ASSUME IInv, NEW s \in Side, NEW p \in Side, p = Peer(s),
           end[s].open, wire[s] # <<>>, wire'[s] = Tail(wire[s]),
           end'[p] = end[p], up' = up,
           \/ /\ Head(wire[s]).kind # "stanza"
              /\ end'[s].inCount = end[s].inCount
           \/ /\ Head(wire[s]).kind = "stanza"
              /\ end'[s].inCount = end[s].inCount + 1
    PROVE  /\ FramesInFlight(s)' /\ StanzasAhead(s)'
           /\ StanzasOrdered(s)' /\ StanzasComplete(s)'
<1>1. /\ wire[s] \in Seq(Frame) /\ Len(wire[s]) \in Nat /\ 1 \in 1..Len(wire[s])
      /\ Head(wire[s]) = wire[s][1]
      /\ Len(wire'[s]) = Len(wire[s]) - 1
      /\ end[s].inCount \in Nat /\ end[p].outCount \in Nat
  BY Popped DEF IInv, TypeOK, End
<1>2. \A k \in 1..Len(wire'[s]) : /\ k + 1 \in 1..Len(wire[s])
                                  /\ wire'[s][k] = wire[s][k + 1]
                                  /\ wire[s][k + 1].n \in Nat
  BY <1>1, Popped, FrameAt
<1>3. /\ FramesInFlight(s) /\ StanzasAhead(s)
      /\ StanzasOrdered(s) /\ StanzasComplete(s)
  BY DEF IInv
<1>4. FramesInFlight(s)'
  BY <1>2, <1>3 DEF FramesInFlight
<1>5. StanzasOrdered(s)'
  <2> SUFFICES ASSUME NEW j \in 1..Len(wire'[s]), NEW k \in 1..Len(wire'[s]), j < k,
                      wire'[s][j].kind = "stanza", wire'[s][k].kind = "stanza"
               PROVE  wire'[s][j].n < wire'[s][k].n
    BY DEF StanzasOrdered
  <2>1. j + 1 < k + 1
    OBVIOUS
  <2> QED BY <1>2, <1>3, <2>1 DEF StanzasOrdered
<1>6. CASE Head(wire[s]).kind # "stanza"
  <2>1. StanzasAhead(s)'
    BY <1>2, <1>3, <1>6 DEF StanzasAhead
  <2>2. ASSUME up, NEW n \in end[s].inCount + 1 .. end[p].outCount
        PROVE  \E k \in 1..Len(wire'[s]) :
                  wire'[s][k].kind = "stanza" /\ wire'[s][k].n = n
    <3>1. PICK k \in 1..Len(wire[s]) : wire[s][k].kind = "stanza" /\ wire[s][k].n = n
      BY <1>3, <2>2 DEF StanzasComplete
    <3>2. k # 1
      BY <3>1, <1>1, <1>6
    <3>3. k - 1 \in 1..Len(wire'[s]) /\ (k - 1) + 1 = k
      BY <3>2, <1>1
    <3> QED BY <3>1, <3>3, <1>2
  <2> QED BY <2>1, <2>2, <1>4, <1>5, <1>6 DEF StanzasComplete
<1>7. CASE Head(wire[s]).kind = "stanza"
  <2>1. wire[s][1].n = end[s].inCount + 1 /\ end'[s].inCount = end[s].inCount + 1
    BY <1>1, <1>7, HeadIsNext
  <2>2. StanzasAhead(s)'
    <3> SUFFICES ASSUME NEW k \in 1..Len(wire'[s]), wire'[s][k].kind = "stanza"
                 PROVE  end'[s].inCount < wire'[s][k].n /\ wire'[s][k].n <= end[p].outCount
      BY DEF StanzasAhead
    <3>1. 1 < k + 1
      OBVIOUS
    <3>2. wire[s][1].n < wire[s][k + 1].n
      BY <1>1, <1>2, <1>3, <1>7, <3>1 DEF StanzasOrdered
    <3>3. wire[s][k + 1].n <= end[p].outCount
      BY <1>2, <1>3 DEF StanzasAhead
    <3> QED BY <2>1, <3>2, <3>3, <1>2
  <2>3. ASSUME up, NEW n \in end'[s].inCount + 1 .. end[p].outCount
        PROVE  \E k \in 1..Len(wire'[s]) :
                  wire'[s][k].kind = "stanza" /\ wire'[s][k].n = n
    <3>1. n \in end[s].inCount + 1 .. end[p].outCount /\ n # end[s].inCount + 1
      BY <2>1, <2>3, <1>1
    <3>2. PICK k \in 1..Len(wire[s]) : wire[s][k].kind = "stanza" /\ wire[s][k].n = n
      BY <1>3, <2>3, <3>1 DEF StanzasComplete
    <3>3. k # 1
      BY <3>1, <3>2, <2>1
    <3>4. k - 1 \in 1..Len(wire'[s]) /\ (k - 1) + 1 = k
      BY <3>3, <1>1
    <3> QED BY <3>2, <3>4, <1>2
  <2> QED BY <2>2, <2>3, <1>4, <1>5 DEF StanzasComplete
<1> QED BY <1>6, <1>7

\* A reading step: s takes the head of wire[s] and pushes a reply towards p.
LEMMA Handled ==
    ASSUME IInv, NEW s \in Side, NEW p \in Side, p = Peer(s),
           NEW e \in End, NEW g \in Frame, NEW frames \in Replies(g),
           end[s].open, wire[s] # <<>>, up' = up,
           end' = [end EXCEPT ![s] = e],
           wire' = [wire EXCEPT ![s] = Tail(@), ![p] = @ \o Travels(s, frames)],
           g.kind \notin {"stanza", "resume", "resumed"},
           g.kind = "a" => g.n = e.inCount,
           e.outCount = end[s].outCount, e.open = end[s].open,
           \/ /\ Head(wire[s]).kind # "stanza"
              /\ e.inCount = end[s].inCount
           \/ /\ Head(wire[s]).kind = "stanza"
              /\ e.inCount = end[s].inCount + 1
    PROVE  /\ end' \in [Side -> End] /\ end'[s] = e /\ end'[p] = end[p]
           /\ wire' \in [Side -> Seq(Frame)]
           /\ \A t \in Side : /\ FramesInFlight(t)' /\ StanzasAhead(t)'
                              /\ StanzasOrdered(t)' /\ StanzasComplete(t)'
                              /\ BrokenIsEmpty(t)'
<1> DEFINE fr == Travels(s, frames)
<1>1. p \in Side /\ p # s /\ Peer(s) = p /\ Peer(p) = s /\ \A t \in Side : t = s \/ t = p
  BY PeerOfSide DEF Side
<1>2. /\ wire[s] \in Seq(Frame) /\ wire[p] \in Seq(Frame)
      /\ Len(wire[s]) \in Nat /\ Len(wire[p]) \in Nat
      /\ end \in [Side -> End] /\ wire \in [Side -> Seq(Frame)]
      /\ end[s] \in End /\ end[s].inCount \in Nat /\ e.inCount \in Nat
  <2>1. TypeOK
    BY DEF IInv
  <2>2. end \in [Side -> End] /\ wire \in [Side -> Seq(Frame)]
    BY <2>1 DEF TypeOK
  <2>3. end[s] \in End /\ wire[s] \in Seq(Frame) /\ wire[p] \in Seq(Frame)
    BY <2>2
  <2>4. end[s].inCount \in Nat /\ e.inCount \in Nat
    BY <2>3 DEF End
  <2>5. Len(wire[s]) \in Nat /\ Len(wire[p]) \in Nat
    BY <2>3
  <2> QED BY <2>2, <2>3, <2>4, <2>5
<1>3. fr \in Replies(g) /\ (~up => fr = <<>>)
  BY DEF Replies, Travels
<1> HIDE DEF fr
<1>4. Extends(wire[p], wire[p] \o fr, g) /\ wire[p] \o fr \in Seq(Frame)
  <2>1. Extends(wire[p], wire[p] \o fr, g)
    BY <1>2, <1>3, Pushed DEF Replies
  <2> QED BY <2>1 DEF Extends
<1>5. Tail(wire[s]) \in Seq(Frame)
  BY <1>2, Popped
<1>6. wire' = [wire EXCEPT ![s] = Tail(wire[s]), ![p] = wire[p] \o fr]
  BY <1>1, <1>2 DEF fr
<1>7. /\ end' \in [Side -> End] /\ end'[s] = e /\ end'[p] = end[p]
      /\ wire' \in [Side -> Seq(Frame)]
      /\ wire'[s] = Tail(wire[s]) /\ wire'[p] = wire[p] \o fr
  <2>1. /\ end' \in [Side -> End] /\ end'[s] = e /\ end'[p] = end[p]
    BY <1>1, <1>2
  <2>2. /\ wire' \in [Side -> Seq(Frame)]
        /\ wire'[s] = Tail(wire[s]) /\ wire'[p] = wire[p] \o fr
    <3> DEFINE tail == Tail(wire[s])
               more == wire[p] \o fr
    <3>1. tail \in Seq(Frame) /\ more \in Seq(Frame)
      BY <1>4, <1>5
    <3>2. wire' = [wire EXCEPT ![s] = tail, ![p] = more]
      BY <1>6
    <3> HIDE DEF tail, more
    <3>3. /\ wire' \in [Side -> Seq(Frame)]
          /\ wire'[s] = tail /\ wire'[p] = more
      <4>1. wire \in [Side -> Seq(Frame)] /\ p # s
        BY <1>1, <1>2
      <4> QED BY ONLY <3>1, <3>2, <4>1, s \in Side, p \in Side, TwoUpdates, Zenon
    <3> QED BY <3>3 DEF tail, more
  <2> QED BY <2>1, <2>2
<1>8. /\ FramesInFlight(s)' /\ StanzasAhead(s)'
      /\ StanzasOrdered(s)' /\ StanzasComplete(s)'
  BY <1>1, <1>7, HeadRead
<1>9. /\ FramesInFlight(p)' /\ StanzasAhead(p)'
      /\ StanzasOrdered(p)' /\ StanzasComplete(p)'
  <2>1. end'[s].inCount \in Nat /\ end'[s].inCount >= end[s].inCount
    BY <1>2, <1>7
  <2>2. g.kind = "a" => g.n <= end'[s].inCount
    BY <1>2, <1>7
  <2> QED BY <2>1, <2>2, <1>1, <1>4, <1>7, ControlPushed
<1>10. BrokenIsEmpty(s)' /\ BrokenIsEmpty(p)'
  <2>1. BrokenIsEmpty(s) /\ BrokenIsEmpty(p)
    BY <1>1 DEF IInv
  <2> QED BY <2>1, <1>2, <1>3, <1>7 DEF BrokenIsEmpty
<1> QED BY <1>1, <1>7, <1>8, <1>9, <1>10

\* A stanza that is received is counted and handed on once.
LEMMA ReceiveStep ==
    ASSUME IInv, NEW s \in Side, ReceiveStanza(s)
    PROVE  IInv'
<1> DEFINE p == Peer(s)
           e == Received(end[s])
           f == Head(wire[s])
<1>1. p \in Side /\ p # s /\ Peer(s) = p /\ Peer(p) = s /\ \A t \in Side : t = s \/ t = p
  BY PeerOfSide DEF Side
<1>2. /\ end[s] \in End /\ end[p] \in End
      /\ end[s].inCount \in Nat /\ end[p].outCount \in Nat
      /\ end[p].inCount \in Nat /\ end[s].outCount \in Nat
      /\ Len(end[s].unacked) \in Nat /\ Len(end[p].unacked) \in Nat
      /\ wire[s] \in Seq(Frame) /\ wire[s] # <<>> /\ f.kind = "stanza"
      /\ delivered \in [Side -> Seq(Nat)] /\ delivered[s] \in Seq(Nat)
      /\ end[s].open
  BY <1>1 DEF IInv, TypeOK, End, ReceiveStanza
<1>3. /\ e \in End /\ e.inCount = end[s].inCount + 1
      /\ e.outCount = end[s].outCount /\ e.unacked = end[s].unacked
      /\ e.open = end[s].open
  BY <1>2, ReceivedEnd
<1>4. f \in Frame /\ f.n \in Nat
  BY <1>2, Popped DEF Frame
<1>5. OnStanza(e) \in Replies(R)
  <2>1. WithRequest(e, R) \in {<<R>>, <<R, R>>}
    BY <1>3, RIsFrame, WithRequestFrames
  <2> QED BY <2>1 DEF OnStanza, Replies
<1>6. /\ end' = [end EXCEPT ![s] = e]
      /\ wire' = [wire EXCEPT ![s] = Tail(@), ![p] = @ \o Travels(s, OnStanza(e))]
      /\ delivered' = [delivered EXCEPT ![s] = Append(@, f.n)]
      /\ up' = up
  BY DEF ReceiveStanza
<1>7. f.n = end[s].inCount + 1
  BY <1>2, HeadIsNext
<1>8. f.n <= end[p].outCount
  <2>1. StanzasAhead(s)
    BY DEF IInv
  <2>2. f = wire[s][1] /\ 1 \in 1..Len(wire[s])
    BY <1>2, Popped
  <2> QED BY <2>1, <2>2, <1>2 DEF StanzasAhead
<1> HIDE DEF p, e, f
<1>9. /\ end' \in [Side -> End] /\ end'[s] = e /\ end'[p] = end[p]
      /\ wire' \in [Side -> Seq(Frame)]
      /\ \A t \in Side : /\ FramesInFlight(t)' /\ StanzasAhead(t)'
                         /\ StanzasOrdered(t)' /\ StanzasComplete(t)'
                         /\ BrokenIsEmpty(t)'
  BY <1>1, <1>2, <1>3, <1>5, <1>6, RIsFrame, Handled DEF f
<1>10. /\ delivered' \in [Side -> Seq(Nat)]
       /\ delivered'[s] = Append(delivered[s], f.n) /\ delivered'[p] = delivered[p]
  BY <1>1, <1>2, <1>4, <1>6
<1>11. TypeOK'
  BY <1>6, <1>9, <1>10 DEF IInv, TypeOK
<1>12. \A t \in Side : QueueIsTail(t)'
  <2>1. QueueIsTail(s) /\ QueueIsTail(p)
    BY <1>1 DEF IInv
  <2>2. QueueIsTail(s)'
    BY <2>1, <1>3, <1>9 DEF QueueIsTail
  <2>3. QueueIsTail(p)'
    BY <2>1, <1>9 DEF QueueIsTail
  <2> QED BY <2>2, <2>3, <1>1
<1>13. \A t \in Side : AckedWasReceived(t)'
  <2>1. AckedWasReceived(s) /\ AckedWasReceived(p)
    BY <1>1 DEF IInv
  <2>2. AckedWasReceived(s)'
    BY <2>1, <1>1, <1>3, <1>9 DEF AckedWasReceived
  <2>3. AckedWasReceived(p)'
    <3>1. end[p].outCount - Len(end[p].unacked) <= end[s].inCount
      BY <2>1, <1>1 DEF AckedWasReceived
    <3>2. \A x, y \in Int : x <= y => x <= y + 1
      OBVIOUS
    <3>3. end[p].outCount - Len(end[p].unacked) \in Int /\ end[s].inCount \in Int
      BY <1>2
    <3>4. end[p].outCount - Len(end[p].unacked) <= end[s].inCount + 1
      BY <3>1, <3>2, <3>3
    <3> QED BY <3>4, <1>1, <1>3, <1>9 DEF AckedWasReceived
  <2> QED BY <2>2, <2>3, <1>1
<1>14. \A t \in Side : InOrder(t)'
  <2>1. InOrder(s) /\ InOrder(p)
    BY <1>1 DEF IInv
  <2>2. InOrder(p)'
    BY <2>1, <1>1, <1>3, <1>9, <1>10 DEF InOrder
  <2>3. /\ Len(delivered'[s]) = Len(delivered[s]) + 1
        /\ \A i \in 1..Len(delivered[s]) : delivered'[s][i] = delivered[s][i]
        /\ delivered'[s][Len(delivered[s]) + 1] = f.n
    BY <1>2, <1>4, <1>10
  <2>4. InOrder(s)'
    <3>1. Len(delivered[s]) = end[s].inCount
      BY <2>1 DEF InOrder
    <3>2. ASSUME NEW i \in 1..Len(delivered'[s]) PROVE delivered'[s][i] = i
      <4>1. CASE i = Len(delivered[s]) + 1
        BY <4>1, <2>3, <3>1, <1>7
      <4>2. CASE i \in 1..Len(delivered[s])
        BY <4>2, <2>1, <2>3 DEF InOrder
      <4>3. Len(delivered[s]) \in Nat
        BY <1>2
      <4> QED BY <4>1, <4>2, <4>3, <2>3
    <3> QED BY <3>1, <3>2, <2>3, <1>1, <1>3, <1>7, <1>8, <1>9 DEF InOrder
  <2> QED BY <2>2, <2>4, <1>1
<1> QED BY <1>9, <1>11, <1>12, <1>13, <1>14 DEF IInv

\* A stream management element changes no count, and drops from the queue
\* only what the peer has counted.
LEMMA SmStep ==
    ASSUME IInv, NEW s \in Side, HandleSmElement(s)
    PROVE  IInv'
<1> DEFINE p == Peer(s)
           f == Head(wire[s])
           e == AfterSm(end[s], f)
<1>1. p \in Side /\ p # s /\ Peer(s) = p /\ Peer(p) = s /\ \A t \in Side : t = s \/ t = p
  BY PeerOfSide DEF Side
<1>2. /\ end[s] \in End /\ end[p] \in End
      /\ end[s].inCount \in Nat /\ end[p].inCount \in Nat
      /\ wire[s] \in Seq(Frame) /\ wire[s] # <<>> /\ f.kind # "stanza"
      /\ end[s].open
  BY <1>1 DEF IInv, TypeOK, End, HandleSmElement
<1>3. f \in Frame /\ f.n \in Nat /\ f = wire[s][1] /\ 1 \in 1..Len(wire[s])
  BY <1>2, Popped DEF Frame
<1>4. /\ f.kind \notin {"stanza", "resume", "resumed"}
      /\ f.kind = "a" => f.n <= end[p].inCount
  <2>1. FramesInFlight(s)
    BY DEF IInv
  <2> QED BY <2>1, <1>2, <1>3 DEF FramesInFlight
<1>5. /\ end' = [end EXCEPT ![s] = e]
      /\ wire' = [wire EXCEPT ![s] = Tail(@), ![p] = @ \o Travels(s, SmReply(e, f))]
      /\ delivered' = delivered /\ up' = up
  BY DEF HandleSmElement
<1>6. /\ e \in End /\ e.inCount = end[s].inCount
      /\ e.outCount = end[s].outCount /\ e.open = end[s].open
      /\ \/ e.unacked = end[s].unacked
         \/ f.kind = "a" /\ e = Acked(end[s], f.n)
  BY <1>2, <1>3, AfterSmEnd
<1> HIDE DEF p, e, f
<1>7. PICK g \in Frame : /\ g.kind \notin {"stanza", "resume", "resumed"}
                         /\ g.kind = "a" => g.n = e.inCount
                         /\ SmReply(e, f) \in Replies(g)
  BY <1>3, <1>4, <1>6, SmReplyFrames
<1>8. /\ end' \in [Side -> End] /\ end'[s] = e /\ end'[p] = end[p]
      /\ wire' \in [Side -> Seq(Frame)]
      /\ \A t \in Side : /\ FramesInFlight(t)' /\ StanzasAhead(t)'
                         /\ StanzasOrdered(t)' /\ StanzasComplete(t)'
                         /\ BrokenIsEmpty(t)'
  <2>1. Head(wire[s]).kind # "stanza" /\ p = Peer(s)
    BY <1>2 DEF f, p
  <2> QED BY <2>1, <1>1, <1>2, <1>5, <1>6, <1>7, Handled
<1>9. TypeOK'
  BY <1>5, <1>8 DEF IInv, TypeOK
<1>10. /\ QueueIsTail(s) /\ QueueIsTail(p)
       /\ AckedWasReceived(s) /\ AckedWasReceived(p)
       /\ InOrder(s) /\ InOrder(p)
  BY <1>1 DEF IInv
<1>11. QueueIsTail(p)' /\ AckedWasReceived(p)'
  BY <1>1, <1>6, <1>8, <1>10 DEF QueueIsTail, AckedWasReceived
<1>12. QueueIsTail(s)' /\ AckedWasReceived(s)'
  <2>1. CASE e.unacked = end[s].unacked
    BY <2>1, <1>1, <1>6, <1>8, <1>10 DEF QueueIsTail, AckedWasReceived
  <2>2. CASE f.kind = "a" /\ e = Acked(end[s], f.n)
    <3>1. /\ Len(end[s].unacked) <= end[s].outCount
          /\ \A j \in 1..Len(end[s].unacked) :
                end[s].unacked[j] = end[s].outCount - Len(end[s].unacked) + j
          /\ end[s].outCount - Len(end[s].unacked) <= end[p].inCount
      BY <1>1, <1>10 DEF QueueIsTail, AckedWasReceived
    <3>2. /\ Len(e.unacked) <= end[s].outCount
          /\ \A j \in 1..Len(e.unacked) :
                e.unacked[j] = end[s].outCount - Len(e.unacked) + j
          /\ end[s].outCount - Len(e.unacked) <= end[p].inCount
      BY <2>2, <3>1, <1>2, <1>3, <1>4, AckedQueue
    <3> QED BY <3>2, <1>1, <1>6, <1>8 DEF QueueIsTail, AckedWasReceived
  <2> QED BY <2>1, <2>2, <1>6
<1>13. InOrder(s)' /\ InOrder(p)'
  BY <1>1, <1>5, <1>6, <1>8, <1>10 DEF InOrder
<1> QED BY <1>1, <1>8, <1>9, <1>11, <1>12, <1>13 DEF IInv

\* A failing transport takes with it what was in flight, and nothing else.
LEMMA BreakStep ==
    ASSUME IInv, Break
    PROVE  IInv'
<1>1. /\ end' = end /\ delivered' = delivered /\ ~up' /\ up' \in BOOLEAN
      /\ wire' = [s \in Side |-> <<>>]
  BY DEF Break
<1>2. TypeOK'
  BY <1>1 DEF IInv, TypeOK
<1>3. ASSUME NEW s \in Side
      PROVE  QueueIsTail(s)' /\ AckedWasReceived(s)' /\ InOrder(s)'
  <2>1. QueueIsTail(s) /\ AckedWasReceived(s) /\ InOrder(s)
    BY DEF IInv
  <2> QED BY <2>1, <1>1 DEF QueueIsTail, AckedWasReceived, InOrder
<1>4. ASSUME NEW s \in Side
      PROVE  /\ FramesInFlight(s)' /\ StanzasAhead(s)' /\ StanzasOrdered(s)'
             /\ StanzasComplete(s)' /\ BrokenIsEmpty(s)'
  <2>1. wire'[s] = <<>>
    BY <1>1
  <2> QED BY <2>1, <1>1 DEF FramesInFlight, StanzasAhead, StanzasOrdered,
                            StanzasComplete, BrokenIsEmpty
<1> QED BY <1>2, <1>3, <1>4 DEF IInv

\* A side that closes forgets nothing of what it has sent or received.
LEMMA CloseStep ==
    ASSUME IInv, NEW s \in Side, Close(s)
    PROVE  IInv'
<1> DEFINE e == [end[s] EXCEPT !.open = FALSE]
<1>1. /\ end \in [Side -> End] /\ end[s] \in End
      /\ wire \in [Side -> Seq(Frame)]
  BY DEF IInv, TypeOK
<1>2. /\ e \in End /\ e.open = FALSE /\ e.inCount = end[s].inCount
      /\ e.outCount = end[s].outCount /\ e.unacked = end[s].unacked
  BY <1>1 DEF End
<1>3. /\ end' = [end EXCEPT ![s] = e] /\ wire' = [wire EXCEPT ![s] = <<>>]
      /\ up' = up /\ delivered' = delivered
  BY <1>1 DEF Close
<1> HIDE DEF e
<1>4. \A t \in Side : /\ end'[t].inCount = end[t].inCount
                      /\ end'[t].outCount = end[t].outCount
                      /\ end'[t].unacked = end[t].unacked
                      /\ end'[t].open => (end[t].open /\ wire'[t] = wire[t])
                      /\ (wire'[t] = wire[t] \/ wire'[t] = <<>>)
  BY <1>1, <1>2, <1>3
<1>5. TypeOK'
  <2>1. end' \in [Side -> End] /\ wire' \in [Side -> Seq(Frame)]
    BY <1>1, <1>2, <1>3
  <2> QED BY <2>1, <1>3 DEF IInv, TypeOK
<1>6. ASSUME NEW t \in Side
      PROVE  QueueIsTail(t)' /\ AckedWasReceived(t)' /\ InOrder(t)'
  <2>1. QueueIsTail(t) /\ AckedWasReceived(t) /\ InOrder(t) /\ Peer(t) \in Side
    BY PeerOfSide DEF IInv
  <2> QED BY <2>1, <1>3, <1>4 DEF QueueIsTail, AckedWasReceived, InOrder
<1>7. ASSUME NEW t \in Side
      PROVE  /\ FramesInFlight(t)' /\ StanzasAhead(t)' /\ StanzasOrdered(t)'
             /\ StanzasComplete(t)' /\ BrokenIsEmpty(t)'
  <2>1. /\ FramesInFlight(t) /\ StanzasAhead(t) /\ StanzasOrdered(t)
        /\ StanzasComplete(t) /\ BrokenIsEmpty(t) /\ Peer(t) \in Side
    BY PeerOfSide DEF IInv
  <2>2. CASE wire'[t] = <<>> /\ ~end'[t].open
    BY <2>2 DEF FramesInFlight, StanzasAhead, StanzasOrdered, StanzasComplete,
                BrokenIsEmpty
  <2>3. CASE wire'[t] = wire[t]
    BY <2>1, <2>3, <1>3, <1>4 DEF FramesInFlight, StanzasAhead, StanzasOrdered,
                                  StanzasComplete, BrokenIsEmpty
  <2> QED BY <2>2, <2>3, <1>4
<1> QED BY <1>5, <1>6, <1>7 DEF IInv

-----------------------------------------------------------------------------
(* The theorems *)

\* Whatever the two ends, the transport and the schedule do, the parts of
\* IInv hold together: counts, queues and what is in flight agree.
THEOREM InductiveInvariant == Spec => []IInv
<1>1. IInv /\ [Next]_vars => IInv'
  <2> SUFFICES ASSUME IInv, [Next]_vars PROVE IInv'
    OBVIOUS
  <2>1. ASSUME NEW s \in Side, SendStanza(s) PROVE IInv'
    BY <2>1, SendStep
  <2>2. ASSUME NEW s \in Side, ReceiveStanza(s) PROVE IInv'
    BY <2>2, ReceiveStep
  <2>3. ASSUME NEW s \in Side, HandleSmElement(s) PROVE IInv'
    BY <2>3, SmStep
  <2>4. ASSUME NEW s \in Side, Close(s) PROVE IInv'
    BY <2>4, CloseStep
  <2>5. CASE Break
    BY <2>5, BreakStep
  <2>6. CASE UNCHANGED vars
    BY <2>6 DEF vars, IInv, TypeOK, QueueIsTail, AckedWasReceived, FramesInFlight,
                StanzasAhead, StanzasOrdered, StanzasComplete, BrokenIsEmpty, InOrder
  <2> QED BY <2>1, <2>2, <2>3, <2>4, <2>5, <2>6 DEF Next
<1> QED BY InitIInv, <1>1, PTL DEF Spec

\* The variables keep their types: counts stay natural numbers and every
\* frame that travels is one the stream knows.
THEOREM TypeCorrect == Spec => []TypeOK
<1>1. IInv => TypeOK
  BY DEF IInv
<1> QED BY InductiveInvariant, <1>1, PTL

\* A stream hands its stanzas on once each, in the order they were sent.
THEOREM OnceInOrder == Spec => []ExactlyOnceInOrder
<1>1. IInv => ExactlyOnceInOrder
  BY DEF IInv, ExactlyOnceInOrder
<1> QED BY InductiveInvariant, <1>1, PTL

\* The queue of a side holds every stanza its peer has not received: the
\* queue is the tail of what was sent, what left it was counted by the peer,
\* and the peer was handed exactly what it counted.
LEMMA QueueCovers == IInv => UnackedCoversUndelivered
<1> SUFFICES ASSUME IInv, NEW s \in Side, NEW id \in Sent(s) \ Got(s)
             PROVE  \E j \in 1..Len(end[s].unacked) : end[s].unacked[j] = id
  BY DEF UnackedCoversUndelivered
<1> DEFINE p == Peer(s)
           len == Len(end[s].unacked)
           j == id - (end[s].outCount - len)
<1>1. p \in Side
  BY PeerOfSide
<1>2. /\ end[s].outCount \in Nat /\ end[p].inCount \in Nat /\ len \in Nat
      /\ delivered[p] \in Seq(Nat) /\ id \in Int
  BY <1>1 DEF IInv, TypeOK, End, Sent
<1>3. /\ len <= end[s].outCount
      /\ \A k \in 1..len : end[s].unacked[k] = end[s].outCount - len + k
      /\ end[s].outCount - len <= end[p].inCount
      /\ Len(delivered[p]) = end[p].inCount
      /\ \A i \in 1..Len(delivered[p]) : delivered[p][i] = i
  BY <1>1 DEF IInv, QueueIsTail, AckedWasReceived, InOrder
<1>4. id \in 1..end[s].outCount /\ ~(id \in 1..end[p].inCount)
  <2>1. id \in 1..end[s].outCount
    BY DEF Sent
  <2>2. ASSUME id \in 1..end[p].inCount PROVE FALSE
    <3>1. id \in DOMAIN delivered[p] /\ delivered[p][id] = id
      BY <2>2, <1>2, <1>3
    <3> QED BY <3>1 DEF Got
  <2> QED BY <2>1, <2>2
<1>5. j \in 1..len /\ end[s].outCount - len + j = id
  BY <1>2, <1>3, <1>4
<1> QED BY <1>3, <1>5

\* However the ends interleave and wherever the transport breaks, a side
\* still queues every stanza that its peer has not received.
THEOREM QueueCoversUndelivered == Spec => []UnackedCoversUndelivered
<1> QED BY InductiveInvariant, QueueCovers, PTL

-----------------------------------------------------------------------------
(* The refinement: every step is one of the promise, or stutters *)

\* Sending adds the new stanza to what is held.
LEMMA HeldCounted ==
    ASSUME NEW e \in End, NEW id \in Nat
    PROVE  Held(Counted(e, id)) = Held(e) \cup {id}
<1> DEFINE u == e.unacked
           v == Append(u, id)
<1>1. u \in Seq(Nat) /\ Counted(e, id).unacked = v
  BY CountedEnd DEF End
<1> HIDE DEF u
<1>2. /\ Len(v) = Len(u) + 1 /\ v[Len(u) + 1] = id
      /\ \A j \in 1..Len(u) : v[j] = u[j]
      /\ Len(u) \in Nat
  BY <1>1, OneMore
<1> HIDE DEF v
<1>3. {v[j] : j \in 1..Len(v)} = {u[j] : j \in 1..Len(u)} \cup {id}
  BY <1>2
<1> QED BY <1>1, <1>3 DEF Held, u

\* An acknowledgement lets go of some of what is held.
LEMMA HeldAcked ==
    ASSUME NEW e \in End, NEW h \in Nat
    PROVE  Held(Acked(e, h)) \subseteq Held(e)
<1> DEFINE len  == Len(e.unacked)
           keep == e.outCount - h
           q    == SubSeq(e.unacked, len - keep + 1, len)
<1>1. e.unacked \in Seq(Nat) /\ len \in Nat /\ keep \in Int
  BY DEF End
<1>2. CASE keep >= 0 /\ keep < len
  <2>1. /\ q \in Seq(Nat) /\ Len(q) = keep
        /\ \A j \in 1..keep : q[j] = e.unacked[len - keep + j]
    <3> HIDE DEF keep
    <3>1. keep \in 0..len
      BY <1>1, <1>2
    <3> QED BY <1>1, <3>1, LastOf
  <2>2. Acked(e, h) = [e EXCEPT !.unacked = q]
    BY <1>2 DEF Acked
  <2> HIDE DEF q
  <2>3. Acked(e, h).unacked = q
    BY <2>1, <2>2 DEF End
  <2>4. \A j \in 1..keep : len - keep + j \in 1..len
    BY <1>1, <1>2
  <2> QED BY <2>1, <2>3, <2>4 DEF Held
<1>3. CASE ~(keep >= 0 /\ keep < len)
  BY <1>3 DEF Acked
<1> QED BY <1>2, <1>3

\* Both sides of the pair start out as the promise does.
LEMMA RefinesInit == Init => Promise!Init
<1> SUFFICES ASSUME Init PROVE Promise!Init
  OBVIOUS
<1>1. \A s \in Side : end[s] = NewStream
  BY DEF Init
<1>2. NewStream.outCount = 0 /\ NewStream.open = TRUE /\ Held(NewStream) = {}
  BY DEF NewStream, Held
<1> QED BY <1>1, <1>2 DEF Init, Promise!Init

\* The sides that a step does not touch keep what the promise sees of them.
LEMMA OneEndChanges ==
    ASSUME IInv, NEW s \in Side, NEW e \in End, end' = [end EXCEPT ![s] = e]
    PROVE  /\ [t \in Side |-> end'[t].outCount]
                = [[t \in Side |-> end[t].outCount] EXCEPT ![s] = e.outCount]
           /\ [t \in Side |-> Held(end'[t])]
                = [[t \in Side |-> Held(end[t])] EXCEPT ![s] = Held(e)]
           /\ [t \in Side |-> end'[t].open]
                = [[t \in Side |-> end[t].open] EXCEPT ![s] = e.open]
           /\ e.outCount = end[s].outCount =>
                [t \in Side |-> end'[t].outCount] = [t \in Side |-> end[t].outCount]
           /\ e.open = end[s].open =>
                [t \in Side |-> end'[t].open] = [t \in Side |-> end[t].open]
           /\ Held(e) = Held(end[s]) =>
                [t \in Side |-> Held(end'[t])] = [t \in Side |-> Held(end[t])]
<1>1. end \in [Side -> End]
  BY DEF IInv, TypeOK
<1>2. end'[s] = e /\ \A t \in Side : t # s => end'[t] = end[t]
  BY <1>1
<1>3. \A t \in Side : end'[t].outCount = (IF t = s THEN e.outCount ELSE end[t].outCount)
  BY <1>2
<1>4. \A t \in Side : Held(end'[t]) = (IF t = s THEN Held(e) ELSE Held(end[t]))
  BY <1>2
<1>5. \A t \in Side : end'[t].open = (IF t = s THEN e.open ELSE end[t].open)
  BY <1>2
<1>6. [t \in Side |-> end'[t].outCount]
         = [[t \in Side |-> end[t].outCount] EXCEPT ![s] = e.outCount]
  BY ONLY <1>3, s \in Side
<1>7. [t \in Side |-> Held(end'[t])]
         = [[t \in Side |-> Held(end[t])] EXCEPT ![s] = Held(e)]
  BY ONLY <1>4, s \in Side
<1>8. [t \in Side |-> end'[t].open]
         = [[t \in Side |-> end[t].open] EXCEPT ![s] = e.open]
  BY ONLY <1>5, s \in Side
<1>9. e.outCount = end[s].outCount =>
         [t \in Side |-> end'[t].outCount] = [t \in Side |-> end[t].outCount]
  BY ONLY <1>3, s \in Side
<1>10. e.open = end[s].open =>
         [t \in Side |-> end'[t].open] = [t \in Side |-> end[t].open]
  BY ONLY <1>5, s \in Side
<1>11. Held(e) = Held(end[s]) =>
         [t \in Side |-> Held(end'[t])] = [t \in Side |-> Held(end[t])]
  BY ONLY <1>4, s \in Side
<1> QED BY <1>6, <1>7, <1>8, <1>9, <1>10, <1>11

\* A send is a send, a receipt hands on the next stanza, an acknowledgement
\* lets go of what was handed on, closing stops; all else is not seen.
LEMMA RefinesStep ==
    ASSUME IInv, IInv', [Next]_vars
    PROVE  [Promise!Next]_(Promise!vars)
<1>0. TypeOK /\ TypeOK'
  BY DEF IInv
<1>ends. \A s \in Side : end[s] \in End /\ end[s].outCount \in Nat /\ end[s].inCount \in Nat
  BY <1>0 DEF TypeOK, End
<1>1. ASSUME NEW s \in Side, SendStanza(s) PROVE Promise!Send(s)
  <2> DEFINE id == end[s].outCount + 1
             e  == Counted(end[s], id)
  <2>1. end[s].open /\ end' = [end EXCEPT ![s] = e] /\ delivered' = delivered
    BY <1>1 DEF SendStanza
  <2>2. /\ e \in End /\ e.outCount = id /\ e.open = end[s].open
        /\ Held(e) = Held(end[s]) \cup {id}
    <3>1. id \in Nat /\ end[s] \in End
      BY <1>ends
    <3>2. id = end[s].outCount + 1
      OBVIOUS
    <3> HIDE DEF id
    <3>3. /\ e \in End /\ e.outCount = end[s].outCount + 1 /\ e.open = end[s].open
      BY <3>1, CountedEnd
    <3>4. Held(e) = Held(end[s]) \cup {id}
      BY <3>1, HeldCounted
    <3> QED BY <3>2, <3>3, <3>4
  <2> HIDE DEF e
  <2>3. /\ [t \in Side |-> end'[t].outCount]
                = [[t \in Side |-> end[t].outCount] EXCEPT ![s] = id]
        /\ [t \in Side |-> Held(end'[t])]
                = [[t \in Side |-> Held(end[t])] EXCEPT ![s] = Held(end[s]) \cup {id}]
        /\ [t \in Side |-> end'[t].open]
                = [t \in Side |-> end[t].open]
    <3> HIDE DEF id
    <3>1. /\ [t \in Side |-> end'[t].outCount]
                = [[t \in Side |-> end[t].outCount] EXCEPT ![s] = e.outCount]
          /\ [t \in Side |-> Held(end'[t])]
                = [[t \in Side |-> Held(end[t])] EXCEPT ![s] = Held(e)]
          /\ [t \in Side |-> end'[t].open] = [t \in Side |-> end[t].open]
      BY <2>1, <2>2, OneEndChanges
    <3> QED BY <3>1, <2>2
  <2> QED BY <2>1, <2>3 DEF Promise!Send
<1>2. ASSUME NEW s \in Side, ReceiveStanza(s) PROVE Promise!Give(s)
  <2> DEFINE e == Received(end[s])
             f == Head(wire[s])
  <2>1. /\ end[s].open /\ end' = [end EXCEPT ![s] = e]
        /\ delivered' = [delivered EXCEPT ![s] = Append(@, f.n)]
        /\ wire[s] # <<>> /\ f.kind = "stanza"
    BY <1>2 DEF ReceiveStanza
  <2>2. /\ e \in End /\ e.outCount = end[s].outCount /\ e.open = end[s].open
        /\ e.unacked = end[s].unacked
    BY <1>ends, ReceivedEnd
  <2>3. f.n = end[s].inCount + 1
    BY <2>1, HeadIsNext
  <2>4. Peer(s) \in Side /\ Peer(s) # s
    BY PeerOfSide
  <2>5. Len(delivered[s]) = end[s].inCount
    BY DEF IInv, InOrder
  <2>6. Len(delivered[s]) < end[Peer(s)].outCount
    <3>1. StanzasAhead(s) /\ wire[s] \in Seq(Frame)
      BY <1>0 DEF IInv, TypeOK
    <3>2. f = wire[s][1] /\ 1 \in 1..Len(wire[s]) /\ f \in Frame
      BY <3>1, <2>1, Popped
    <3>3. end[s].inCount < f.n /\ f.n <= end[Peer(s)].outCount /\ f.n \in Nat
      BY <3>1, <3>2, <2>1 DEF StanzasAhead, Frame
    <3> QED BY <3>3, <2>4, <2>5, <1>ends
  <2>7. Held(e) = Held(end[s])
    BY <2>2 DEF Held
  <2> HIDE DEF e, f
  <2>8. /\ [t \in Side |-> end'[t].outCount] = [t \in Side |-> end[t].outCount]
        /\ [t \in Side |-> Held(end'[t])] = [t \in Side |-> Held(end[t])]
        /\ [t \in Side |-> end'[t].open] = [t \in Side |-> end[t].open]
    BY <2>1, <2>2, <2>7, OneEndChanges
  <2>9. delivered' = [delivered EXCEPT ![s] = Append(@, Len(@) + 1)]
    BY <2>1, <2>3, <2>5
  <2> QED BY <2>1, <2>4, <2>6, <2>8, <2>9 DEF Promise!Give
<1>3. ASSUME NEW s \in Side, HandleSmElement(s) PROVE Promise!Release(s)
  <2> DEFINE p == Peer(s)
             f == Head(wire[s])
             e == AfterSm(end[s], f)
             gone == Held(end[s]) \ Held(e)
  <2>1. /\ end[s].open /\ end' = [end EXCEPT ![s] = e] /\ delivered' = delivered
        /\ wire[s] # <<>> /\ f.kind # "stanza"
    BY <1>3 DEF HandleSmElement
  <2>2. f \in Frame /\ f.n \in Nat /\ p \in Side
    <3>1. wire[s] \in Seq(Frame)
      BY <1>0 DEF TypeOK
    <3> QED BY <3>1, <2>1, Popped, PeerOfSide DEF Frame
  <2>3. /\ e \in End /\ e.outCount = end[s].outCount /\ e.open = end[s].open
        /\ e.unacked = end[s].unacked \/ e = Acked(end[s], f.n)
    BY <2>2, <1>ends, AfterSmEnd
  <2>4. Held(e) \subseteq Held(end[s])
    <3>1. CASE e.unacked = end[s].unacked
      BY <3>1 DEF Held
    <3>2. CASE e = Acked(end[s], f.n)
      <4> HIDE DEF e
      <4> QED BY <3>2, <2>2, <1>ends, HeldAcked
    <3> QED BY <2>3, <3>1, <3>2
  <2>5. end'[s] = e
    BY <1>0, <2>1 DEF TypeOK
  <2> HIDE DEF e
  <2>6. /\ [t \in Side |-> end'[t].outCount] = [t \in Side |-> end[t].outCount]
        /\ [t \in Side |-> end'[t].open] = [t \in Side |-> end[t].open]
        /\ [t \in Side |-> Held(end'[t])]
              = [[t \in Side |-> Held(end[t])] EXCEPT ![s] = Held(end[s]) \ gone]
    <3>1. Held(e) = Held(end[s]) \ gone
      BY <2>4
    <3>2. /\ [t \in Side |-> end'[t].outCount]
                = [[t \in Side |-> end[t].outCount] EXCEPT ![s] = e.outCount]
          /\ [t \in Side |-> Held(end'[t])]
                = [[t \in Side |-> Held(end[t])] EXCEPT ![s] = Held(e)]
          /\ [t \in Side |-> end'[t].open]
                = [[t \in Side |-> end[t].open] EXCEPT ![s] = e.open]
      BY <2>1, <2>3, OneEndChanges
    <3> HIDE DEF gone
    <3> QED BY <2>3, <3>1, <3>2
  <2>7. ASSUME NEW id \in gone
        PROVE  \E i \in 1..Len(delivered[p]) : delivered[p][i] = id
    <3> DEFINE len == Len(end[s].unacked)
    <3>1. PICK j \in 1..len : end[s].unacked[j] = id
      BY <2>7 DEF Held
    <3>2. /\ QueueIsTail(s)' /\ AckedWasReceived(s)' /\ InOrder(p)' /\ QueueIsTail(s)
      BY <2>2 DEF IInv
    <3>3. /\ end'[p].inCount = Len(delivered[p])
          /\ \A i \in 1..Len(delivered[p]) : delivered[p][i] = i
      BY <3>2, <2>1, <2>2 DEF InOrder
    <3>4. /\ id = end[s].outCount - len + j /\ len <= end[s].outCount
      BY <3>1, <3>2 DEF QueueIsTail
    <3> DEFINE n == Len(e.unacked)
    <3>5. /\ n \in Nat /\ n <= end[s].outCount
          /\ end[s].outCount - n <= end'[p].inCount
          /\ \A k \in 1..n : e.unacked[k] = end[s].outCount - n + k
      BY <2>3, <2>5, <3>2 DEF QueueIsTail, AckedWasReceived, End
    <3>6. ~(id \in end[s].outCount - n + 1 .. end[s].outCount)
      <4>1. SUFFICES ASSUME id \in end[s].outCount - n + 1 .. end[s].outCount PROVE FALSE
        OBVIOUS
      <4>2. id - (end[s].outCount - n) \in 1..n
        BY <4>1, <3>5, <1>ends
      <4>3. e.unacked[id - (end[s].outCount - n)] = id
        BY <4>1, <4>2, <3>5, <1>ends
      <4>4. id \in Held(e)
        BY <4>2, <4>3 DEF Held
      <4> QED BY <4>4
    <3>7. id \in 1..end[s].outCount
      <4>1. len \in Nat /\ end[s].outCount \in Nat /\ j \in 1..len
        BY <1>ends DEF End
      <4> QED BY <4>1, <3>4
    <3>8. Len(delivered[p]) \in Nat
      BY <1>0, <2>2 DEF TypeOK
    <3>9. id \in 1..Len(delivered[p])
      BY <3>3, <3>5, <3>6, <3>7, <3>8, <1>ends
    <3> QED BY <3>3, <3>9
  <2>8. gone \in SUBSET Held(end[s])
    OBVIOUS
  <2> HIDE DEF gone
  <2> QED BY <2>1, <2>6, <2>7, <2>8 DEF Promise!Release
<1>4. ASSUME NEW s \in Side, Close(s) PROVE Promise!Stop(s)
  <2> DEFINE e == [end[s] EXCEPT !.open = FALSE]
  <2>1. end[s].open /\ end' = [end EXCEPT ![s] = e] /\ delivered' = delivered
    BY <1>4, <1>0 DEF Close, TypeOK
  <2>2. /\ e \in End /\ e.outCount = end[s].outCount /\ e.open = FALSE
        /\ e.unacked = end[s].unacked
    BY <1>ends DEF End
  <2>3. Held(e) = Held(end[s])
    BY <2>2 DEF Held
  <2> HIDE DEF e
  <2>4. /\ [t \in Side |-> end'[t].outCount] = [t \in Side |-> end[t].outCount]
        /\ [t \in Side |-> Held(end'[t])] = [t \in Side |-> Held(end[t])]
        /\ [t \in Side |-> end'[t].open]
              = [[t \in Side |-> end[t].open] EXCEPT ![s] = FALSE]
    <3>1. [t \in Side |-> end'[t].open]
             = [[t \in Side |-> end[t].open] EXCEPT ![s] = e.open]
      BY <2>1, <2>2, OneEndChanges
    <3>2. /\ [t \in Side |-> end'[t].outCount] = [t \in Side |-> end[t].outCount]
          /\ [t \in Side |-> Held(end'[t])] = [t \in Side |-> Held(end[t])]
      BY <2>1, <2>2, <2>3, OneEndChanges
    <3> QED BY <3>1, <3>2, <2>2
  <2> QED BY <2>1, <2>4 DEF Promise!Stop
<1>5. ASSUME Break PROVE UNCHANGED Promise!vars
  BY <1>5 DEF Break, Promise!vars
<1>6. ASSUME UNCHANGED vars PROVE UNCHANGED Promise!vars
  BY <1>6 DEF vars, Promise!vars
<1> QED BY <1>1, <1>2, <1>3, <1>4, <1>5, <1>6 DEF Next, Promise!Next

\* Two XmppStreams on one transport keep the promise of ReliableStream: in
\* order, without gaps, and held until given, wherever the transport breaks.
THEOREM Refinement == Spec => ImplementsReliableStream
<1>1. Init => Promise!Init
  BY RefinesInit
<1>2. IInv /\ IInv' /\ [Next]_vars => [Promise!Next]_(Promise!vars)
  BY RefinesStep
<1> QED BY <1>1, <1>2, InductiveInvariant, PTL DEF Spec, ImplementsReliableStream, Promise!Spec
=============================================================================
