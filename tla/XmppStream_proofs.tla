--------------------------- MODULE XmppStream_proofs ---------------------------
(***************************************************************************)
(* Lemmas about the operators of XmppStream, for every AckInterval: what a *)
(* call makes of an end, what it pushes, and what pushing and reading do   *)
(* to a direction of a transport.  The proofs about StreamManagement and   *)
(* StreamResumption rest on them.                                          *)
(***************************************************************************)
EXTENDS XmppStream, SequenceTheorems, TLAPS

(* What a call makes of an end *)

\* The request for an acknowledgement is a frame.
LEMMA RIsFrame == R \in Frame /\ R.kind = "r"
BY DEF R, F, Frame, Kinds

\* send() pushes its element, and after it at most a request.
LEMMA WithRequestFrames ==
    ASSUME NEW e \in End, NEW f \in Frame
    PROVE  WithRequest(e, f) \in {<<f>>, <<f, R>>}
BY DEF WithRequest

\* Counting a stanza and queueing it leaves the number of those acknowledged.
LEMMA SameDifference ==
    ASSUME NEW a \in Nat, NEW b \in Nat
    PROVE  (a + 1) - (b + 1) = a - b
OBVIOUS

\* A queue with one more entry.
LEMMA OneMore ==
    ASSUME NEW u \in Seq(Nat), NEW n \in Nat
    PROVE  /\ Len(Append(u, n)) = Len(u) + 1
           /\ \A j \in 1..Len(u) : Append(u, n)[j] = u[j]
           /\ Append(u, n)[Len(u) + 1] = n
OBVIOUS

\* The last n entries of a queue.
LEMMA LastOf ==
    ASSUME NEW u \in Seq(Nat), NEW n \in 0..Len(u)
    PROVE  /\ SubSeq(u, Len(u) - n + 1, Len(u)) \in Seq(Nat)
           /\ Len(SubSeq(u, Len(u) - n + 1, Len(u))) = n
           /\ \A j \in 1..n : SubSeq(u, Len(u) - n + 1, Len(u))[j] = u[Len(u) - n + j]
BY SMT

\* Receiving a stanza counts it and leaves the rest of the end alone.
LEMMA ReceivedEnd ==
    ASSUME NEW e \in End
    PROVE  /\ Received(e) \in End
           /\ Received(e).inCount = e.inCount + 1
           /\ Received(e).outCount = e.outCount
           /\ Received(e).unacked = e.unacked
           /\ Received(e).open = e.open
BY DEF Received, End

\* Sending a stanza counts it and puts it at the end of the queue.
LEMMA CountedEnd ==
    ASSUME NEW e \in End, NEW id \in Nat
    PROVE  /\ Counted(e, id) \in End
           /\ Counted(e, id).outCount = e.outCount + 1
           /\ Counted(e, id).unacked = Append(e.unacked, id)
           /\ Counted(e, id).inCount = e.inCount
           /\ Counted(e, id).open = e.open
<1> DEFINE o == e.outCount + 1
           q == Append(e.unacked, id)
           u == [e EXCEPT !.outCount = o, !.unacked = q]
<1>1. o \in Nat /\ q \in Seq(Nat)
  BY AppendProperties DEF End
<1>2. Counted(e, id) = u
  BY DEF Counted
<1> HIDE DEF o, q
<1>3. u \in End /\ u.outCount = o /\ u.unacked = q /\ u.inCount = e.inCount
      /\ u.open = e.open
  BY <1>1 DEF End
<1> HIDE DEF u
<1> QED BY <1>2, <1>3 DEF o, q

\* An acknowledgement leaves an end of the stream, and a tail of its queue.
LEMMA AckedEnd ==
    ASSUME NEW e \in End, NEW h \in Nat
    PROVE  /\ Acked(e, h) \in End
           /\ Acked(e, h).inCount = e.inCount
           /\ Acked(e, h).outCount = e.outCount
           /\ Acked(e, h).open = e.open
<1> DEFINE len  == Len(e.unacked)
           keep == e.outCount - h
           q    == SubSeq(e.unacked, len - keep + 1, len)
<1>1. e.unacked \in Seq(Nat) /\ len \in Nat /\ keep \in Int
  BY DEF End
<1>2. CASE keep >= 0 /\ keep < len
  <2>1. q \in Seq(Nat)
    <3> HIDE DEF keep
    <3>1. keep \in 0..len
      BY <1>1, <1>2
    <3> QED BY <1>1, <3>1, LastOf
  <2>2. Acked(e, h) = [e EXCEPT !.unacked = q]
    BY <1>2 DEF Acked
  <2> HIDE DEF q
  <2> QED BY <2>1, <2>2 DEF End
<1>3. CASE ~(keep >= 0 /\ keep < len)
  BY <1>3 DEF Acked
<1> QED BY <1>2, <1>3

\* What an acknowledgement leaves of the queue is the end of it.
LEMMA AckedTail ==
    ASSUME NEW e \in End, NEW h \in Nat
    PROVE  /\ Len(Acked(e, h).unacked) <= Len(e.unacked)
           /\ \A j \in 1..Len(Acked(e, h).unacked) :
                 Acked(e, h).unacked[j]
                   = e.unacked[Len(e.unacked) - Len(Acked(e, h).unacked) + j]
           /\ \/ Len(Acked(e, h).unacked) = Len(e.unacked)
              \/ Len(Acked(e, h).unacked) = e.outCount - h
<1> DEFINE len  == Len(e.unacked)
           keep == e.outCount - h
           q    == SubSeq(e.unacked, len - keep + 1, len)
<1>1. /\ e.unacked \in Seq(Nat) /\ len \in Nat /\ keep \in Int
      /\ e.outCount \in Nat
  BY DEF End
<1>2. CASE keep >= 0 /\ keep < len
  <2>1. /\ q \in Seq(Nat) /\ Len(q) = keep
        /\ \A j \in 1..keep : q[j] = e.unacked[len - keep + j]
    <3> HIDE DEF keep
    <3>1. keep \in 0..len
      BY <1>1, <1>2
    <3> QED BY <1>1, <3>1, LastOf
  <2>2. Acked(e, h) = [e EXCEPT !.unacked = q]
    BY <1>2 DEF Acked
  <2> HIDE DEF q
  <2>3. Acked(e, h).unacked = q
    BY <2>1, <2>2 DEF End
  <2>4. /\ Len(q) <= len /\ Len(q) = keep
        /\ \A j \in 1..Len(q) : q[j] = e.unacked[len - Len(q) + j]
    BY <2>1, <1>1, <1>2
  <2> QED BY ONLY <2>3, <2>4, Zenon DEF len, keep
<1>3. CASE ~(keep >= 0 /\ keep < len)
  <2>1. Acked(e, h) = e
    BY <1>3 DEF Acked
  <2>2. \A j \in 1..len : len - len + j = j
    BY <1>1
  <2> QED BY <1>1, <2>1, <2>2
<1> QED BY <1>2, <1>3

\* An acknowledgement of what the peer received leaves an unbroken tail.
LEMMA AckedQueue ==
    ASSUME NEW e \in End, NEW h \in Nat, NEW received \in Nat, h <= received,
           Len(e.unacked) <= e.outCount,
           \A j \in 1..Len(e.unacked) :
               e.unacked[j] = e.outCount - Len(e.unacked) + j,
           e.outCount - Len(e.unacked) <= received
    PROVE  /\ Len(Acked(e, h).unacked) <= e.outCount
           /\ \A j \in 1..Len(Acked(e, h).unacked) :
                 Acked(e, h).unacked[j] = e.outCount - Len(Acked(e, h).unacked) + j
           /\ e.outCount - Len(Acked(e, h).unacked) <= received
<1> DEFINE len  == Len(e.unacked)
           keep == e.outCount - h
           q    == SubSeq(e.unacked, len - keep + 1, len)
<1>1. /\ e.unacked \in Seq(Nat) /\ len \in Nat /\ keep \in Int
      /\ e.outCount \in Nat
  BY DEF End
<1>2. CASE keep >= 0 /\ keep < len
  <2>1. /\ q \in Seq(Nat) /\ Len(q) = keep
        /\ \A j \in 1..keep : q[j] = e.unacked[len - keep + j]
    <3> HIDE DEF keep
    <3>1. keep \in 0..len
      BY <1>1, <1>2
    <3> QED BY <1>1, <3>1, LastOf
  <2>2. Acked(e, h) = [e EXCEPT !.unacked = q]
    BY <1>2 DEF Acked
  <2> HIDE DEF q
  <2>3. Acked(e, h).unacked = q
    BY <2>1, <2>2 DEF End
  <2>4. ASSUME NEW j \in 1..keep PROVE q[j] = e.outCount - keep + j
    <3> HIDE DEF keep
    <3>1. len - keep + j \in 1..len
      BY <1>1, <1>2
    <3>2. e.unacked[len - keep + j] = e.outCount - len + (len - keep + j)
      BY <3>1
    <3> QED BY <2>1, <3>2, <1>1
  <2> QED BY <2>1, <2>3, <2>4, <1>1, <1>2
<1>3. CASE ~(keep >= 0 /\ keep < len)
  BY <1>3 DEF Acked
<1> QED BY <1>2, <1>3

\* What handleSmElement makes of an end when no resumption takes place.
LEMMA AfterSmEnd ==
    ASSUME NEW e \in End, NEW f \in Frame
    PROVE  /\ AfterSm(e, f) \in End
           /\ AfterSm(e, f).inCount = e.inCount
           /\ AfterSm(e, f).outCount = e.outCount
           /\ AfterSm(e, f).open = e.open
           /\ \/ AfterSm(e, f).unacked = e.unacked
              \/ f.kind = "a" /\ AfterSm(e, f) = Acked(e, f.n)
<1>1. CASE f.kind \in {"enable", "enabled"}
  <2>1. AfterSm(e, f) = [e EXCEPT !.smEnabled = TRUE]
    BY <1>1 DEF AfterSm
  <2> QED BY <2>1 DEF End
<1>2. CASE f.kind = "a"
  <2>1. AfterSm(e, f) = Acked(e, f.n) /\ f.n \in Nat
    BY <1>2 DEF AfterSm, Frame
  <2> QED BY <2>1, <1>2, AckedEnd
<1>3. CASE f.kind \notin {"enable", "enabled", "a"}
  BY <1>3 DEF AfterSm
<1> QED BY <1>1, <1>2, <1>3

-----------------------------------------------------------------------------
(* What happens to a direction of the transport *)

\* Both directions of the transport change.
LEMMA TwoUpdates ==
    ASSUME NEW S, NEW T, NEW w \in [S -> T], NEW v, NEW s \in S, NEW p \in S,
           p # s, NEW x \in T, NEW y \in T,
           v = [w EXCEPT ![s] = x, ![p] = y]
    PROVE  v \in [S -> T] /\ v[s] = x /\ v[p] = y
OBVIOUS

\* v is w with f, and perhaps a request, or only a request or nothing behind it.
Extends(w, v, f) ==
    /\ v \in Seq(Frame)
    /\ Len(v) >= Len(w)
    /\ \A k \in 1..Len(w) : v[k] = w[k]
    /\ \A k \in 1..Len(v) : k > Len(w) => \/ k = Len(w) + 1 /\ v[k] = f
                                          \/ v[k] = R

Carries(w, v, f) == Len(w) + 1 \in 1..Len(v) /\ v[Len(w) + 1] = f

\* Pushing keeps what was in flight and adds behind it.
LEMMA Pushed ==
    ASSUME NEW w \in Seq(Frame), NEW f \in Frame,
           NEW frames \in {<<>>, <<f>>, <<f, R>>}
    PROVE  /\ Extends(w, w \o frames, f)
           /\ frames # <<>> => Carries(w, w \o frames, f)
<1>1. CASE frames = <<>>
  BY <1>1 DEF Extends, Carries
<1>2. CASE frames = <<f>>
  BY <1>2 DEF Extends, Carries
<1>3. CASE frames = <<f, R>>
  BY <1>3, RIsFrame DEF Extends, Carries
<1> QED BY <1>1, <1>2, <1>3

\* A frame of what was extended was there before, is f, or is a request.
LEMMA ExtendsCases ==
    ASSUME NEW w \in Seq(Frame), NEW v, NEW f \in Frame, Extends(w, v, f),
           NEW k \in 1..Len(v)
    PROVE  \/ k \in 1..Len(w) /\ v[k] = w[k]
           \/ k = Len(w) + 1 /\ k > Len(w) /\ v[k] = f
           \/ k > Len(w) /\ v[k].kind = "r"
BY RIsFrame DEF Extends

\* What is in flight is frames.
LEMMA FrameAt ==
    ASSUME NEW w \in Seq(Frame), NEW k \in 1..Len(w)
    PROVE  w[k] \in Frame /\ w[k].n \in Nat
<1>1. w[k] \in Frame
  OBVIOUS
<1> QED BY <1>1 DEF Frame

\* Reading the head leaves the rest, one place nearer.
LEMMA Popped ==
    ASSUME NEW w \in Seq(Frame), w # <<>>
    PROVE  /\ Head(w) \in Frame /\ Head(w) = w[1] /\ 1 \in 1..Len(w)
           /\ Tail(w) \in Seq(Frame)
           /\ Len(Tail(w)) = Len(w) - 1
           /\ \A k \in 1..Len(Tail(w)) : Tail(w)[k] = w[k + 1] /\ k + 1 \in 1..Len(w)
OBVIOUS

\* The frames that one reading step pushes, g being a reply or a request.
Replies(g) == {<<>>, <<g>>, <<g, R>>}

\* What it pushes then: nothing, or one reply that is no stanza.
LEMMA SmReplyFrames ==
    ASSUME NEW e \in End, NEW f \in Frame,
           f.kind \notin {"stanza", "resume", "resumed"}
    PROVE  \E g \in Frame : /\ g.kind \notin {"stanza", "resume", "resumed"}
                            /\ g.kind = "a" => g.n = e.inCount
                            /\ SmReply(e, f) \in Replies(g)
<1>1. CASE f.kind = "enable"
  <2> DEFINE g == F("enabled", 0)
  <2>1. g \in Frame /\ g.kind = "enabled"
    BY DEF F, Frame, Kinds
  <2> HIDE DEF g
  <2>2. SmReply(e, f) = WithRequest(e, g)
    BY <1>1 DEF SmReply, g
  <2>3. SmReply(e, f) \in Replies(g)
    BY <2>1, <2>2, WithRequestFrames DEF Replies
  <2> QED BY <2>1, <2>3
<1>2. CASE f.kind = "r"
  <2> DEFINE g == F("a", e.inCount)
  <2>1. g \in Frame /\ g.kind = "a" /\ g.n = e.inCount
    BY DEF F, Frame, Kinds, End
  <2> HIDE DEF g
  <2>2. SmReply(e, f) = WithRequest(e, g)
    BY <1>2 DEF SmReply, g
  <2>3. SmReply(e, f) \in Replies(g)
    BY <2>1, <2>2, WithRequestFrames DEF Replies
  <2> QED BY <2>1, <2>3
<1>3. CASE f.kind \notin {"enable", "r"}
  <2>1. SmReply(e, f) = <<>>
    BY <1>3 DEF SmReply
  <2> QED BY <2>1, RIsFrame DEF Replies
<1> QED BY <1>1, <1>2, <1>3

-----------------------------------------------------------------------------
(* Stanzas in transit *)

\* The stanzas among the frames w are lo + 1 to hi, each once and in order.
InTransit(w, lo, hi) ==
    /\ \A k \in 1..Len(w) : w[k].kind = "stanza" => lo < w[k].n /\ w[k].n <= hi
    /\ \A j, k \in 1..Len(w) :
          (j < k /\ w[j].kind = "stanza" /\ w[k].kind = "stanza") => w[j].n < w[k].n
    /\ \A id \in lo + 1 .. hi : \E k \in 1..Len(w) : w[k].kind = "stanza" /\ w[k].n = id

\* A transport that carries no stanza yet lacks none.
LEMMA TransitNone ==
    ASSUME NEW w \in Seq(Frame), NEW lo \in Nat,
           \A k \in 1..Len(w) : w[k].kind # "stanza"
    PROVE  InTransit(w, lo, lo)
BY DEF InTransit

\* Pushing a frame that is no stanza, and perhaps a request, disturbs nothing.
LEMMA TransitControl ==
    ASSUME NEW w \in Seq(Frame), NEW v, NEW f \in Frame, Extends(w, v, f),
           f.kind # "stanza", NEW lo \in Nat, NEW hi \in Nat, InTransit(w, lo, hi)
    PROVE  InTransit(v, lo, hi)
<1>1. ASSUME NEW k \in 1..Len(v), v[k].kind = "stanza"
      PROVE  k \in 1..Len(w) /\ v[k] = w[k]
  BY <1>1, ExtendsCases
<1>2. \A k \in 1..Len(w) : k \in 1..Len(v) /\ v[k] = w[k]
  BY DEF Extends
<1> QED BY <1>1, <1>2 DEF InTransit

\* Sending the next stanza adds it.
LEMMA TransitSend ==
    ASSUME NEW w \in Seq(Frame), NEW v, NEW f \in Frame, Extends(w, v, f),
           Carries(w, v, f), NEW lo \in Nat, NEW hi \in Nat, lo <= hi,
           f.kind = "stanza", f.n = hi + 1, InTransit(w, lo, hi)
    PROVE  InTransit(v, lo, hi + 1)
<1>1. /\ v \in Seq(Frame) /\ Len(w) \in Nat /\ Len(v) \in Nat
      /\ \A k \in 1..Len(w) : k \in 1..Len(v) /\ v[k] = w[k] /\ w[k].n \in Nat
      /\ Len(w) + 1 \in 1..Len(v) /\ v[Len(w) + 1] = f
  BY FrameAt DEF Extends, Carries
<1>2. ASSUME NEW k \in 1..Len(v), v[k].kind = "stanza"
      PROVE  \/ k \in 1..Len(w) /\ v[k] = w[k] /\ k # Len(w) + 1
             \/ k = Len(w) + 1 /\ v[k] = f
  <2>1. \/ k \in 1..Len(w) /\ v[k] = w[k]
        \/ k = Len(w) + 1 /\ v[k] = f
    BY <1>2, ExtendsCases
  <2> QED BY <2>1, <1>1
<1>3. ASSUME NEW k \in 1..Len(v), v[k].kind = "stanza"
      PROVE  lo < v[k].n /\ v[k].n <= hi + 1
  <2>1. CASE k \in 1..Len(w) /\ v[k] = w[k]
    <3>1. lo < w[k].n /\ w[k].n <= hi /\ w[k].n \in Nat
      BY <2>1, <1>1, <1>3 DEF InTransit
    <3> QED BY <2>1, <3>1
  <2>2. CASE v[k] = f
    BY <2>2
  <2> QED BY <1>2, <1>3, <2>1, <2>2
<1>4. ASSUME NEW j \in 1..Len(v), NEW k \in 1..Len(v), j < k,
             v[j].kind = "stanza", v[k].kind = "stanza"
      PROVE  v[j].n < v[k].n
  <2>1. j \in 1..Len(w) /\ v[j] = w[j]
    <3>1. j # Len(w) + 1
      BY <1>1, <1>2, <1>4
    <3> QED BY <3>1, <1>2, <1>4
  <2>2. CASE k \in 1..Len(w) /\ v[k] = w[k]
    BY <2>1, <2>2, <1>4 DEF InTransit
  <2>3. CASE v[k] = f
    <3>1. w[j].n <= hi /\ w[j].n \in Nat
      BY <2>1, <1>1, <1>4 DEF InTransit
    <3> QED BY <2>1, <2>3, <3>1
  <2> QED BY <1>2, <1>4, <2>2, <2>3
<1>5. ASSUME NEW id \in lo + 1 .. hi + 1
      PROVE  \E k \in 1..Len(v) : v[k].kind = "stanza" /\ v[k].n = id
  <2>1. CASE id = hi + 1
    BY <2>1, <1>1
  <2>2. CASE id # hi + 1
    <3>1. id \in lo + 1 .. hi
      BY <2>2
    <3>2. PICK k \in 1..Len(w) : w[k].kind = "stanza" /\ w[k].n = id
      BY <3>1 DEF InTransit
    <3> QED BY <3>2, <1>1
  <2> QED BY <2>1, <2>2
<1> QED BY <1>3, <1>4, <1>5 DEF InTransit

\* Reading a frame that is no stanza leaves the same stanzas.
LEMMA TransitSkip ==
    ASSUME NEW w \in Seq(Frame), w # <<>>, Head(w).kind # "stanza",
           NEW lo \in Nat, NEW hi \in Nat, InTransit(w, lo, hi)
    PROVE  InTransit(Tail(w), lo, hi)
<1> DEFINE t == Tail(w)
<1>1. /\ Head(w) = w[1] /\ Len(w) \in Nat /\ Len(t) = Len(w) - 1
      /\ \A k \in 1..Len(t) : t[k] = w[k + 1] /\ k + 1 \in 1..Len(w)
  BY Popped
<1> HIDE DEF t
<1>2. ASSUME NEW k \in 1..Len(t), t[k].kind = "stanza"
      PROVE  lo < t[k].n /\ t[k].n <= hi
  <2>1. t[k] = w[k + 1] /\ k + 1 \in 1..Len(w)
    BY <1>1
  <2> QED BY <1>2, <2>1 DEF InTransit
<1>3. ASSUME NEW j \in 1..Len(t), NEW k \in 1..Len(t), j < k,
             t[j].kind = "stanza", t[k].kind = "stanza"
      PROVE  t[j].n < t[k].n
  <2>1. j + 1 < k + 1
    BY <1>3
  <2>2. /\ t[j] = w[j + 1] /\ j + 1 \in 1..Len(w)
        /\ t[k] = w[k + 1] /\ k + 1 \in 1..Len(w)
    BY <1>1
  <2> QED BY <1>3, <2>1, <2>2 DEF InTransit
<1>4. ASSUME NEW id \in lo + 1 .. hi
      PROVE  \E k \in 1..Len(t) : t[k].kind = "stanza" /\ t[k].n = id
  <2>1. PICK k \in 1..Len(w) : w[k].kind = "stanza" /\ w[k].n = id
    BY DEF InTransit
  <2>2. k # 1
    BY <2>1, <1>1
  <2>3. k - 1 \in 1..Len(t) /\ (k - 1) + 1 = k
    BY <2>2, <1>1
  <2> QED BY <2>1, <2>3, <1>1
<1> QED BY <1>2, <1>3, <1>4 DEF InTransit, t

\* A stanza that is read is the first one that was in transit.
LEMMA TransitNext ==
    ASSUME NEW w \in Seq(Frame), w # <<>>, Head(w).kind = "stanza",
           NEW lo \in Nat, NEW hi \in Nat, InTransit(w, lo, hi)
    PROVE  Head(w).n = lo + 1 /\ lo + 1 <= hi /\ InTransit(Tail(w), lo + 1, hi)
<1> DEFINE t == Tail(w)
<1>1. /\ Head(w) = w[1] /\ 1 \in 1..Len(w) /\ w[1].n \in Nat
      /\ Len(w) \in Nat /\ Len(t) = Len(w) - 1
      /\ \A k \in 1..Len(t) : t[k] = w[k + 1] /\ k + 1 \in 1..Len(w)
                               /\ w[k + 1].n \in Nat
  BY Popped, FrameAt
<1> HIDE DEF t
<1>2. lo < w[1].n /\ w[1].n <= hi
  BY <1>1 DEF InTransit
<1>3. w[1].n = lo + 1
  <2>1. lo + 1 \in lo + 1 .. hi
    BY <1>1, <1>2
  <2>2. PICK k \in 1..Len(w) : w[k].kind = "stanza" /\ w[k].n = lo + 1
    BY <2>1 DEF InTransit
  <2>3. CASE k = 1
    BY <2>2, <2>3
  <2>4. CASE 1 < k
    <3>1. w[1].n < w[k].n
      BY <1>1, <2>2, <2>4 DEF InTransit
    <3> QED BY <1>1, <1>2, <2>2, <3>1
  <2> QED BY <2>3, <2>4
<1>4. ASSUME NEW k \in 1..Len(t), t[k].kind = "stanza"
      PROVE  lo + 1 < t[k].n /\ t[k].n <= hi
  <2>1. 1 < k + 1
    OBVIOUS
  <2>2. w[1].n < w[k + 1].n /\ w[k + 1].n <= hi
    BY <1>1, <1>4, <2>1 DEF InTransit
  <2> QED BY <1>1, <1>3, <2>2
<1>5. ASSUME NEW j \in 1..Len(t), NEW k \in 1..Len(t), j < k,
             t[j].kind = "stanza", t[k].kind = "stanza"
      PROVE  t[j].n < t[k].n
  <2>1. j + 1 < k + 1
    BY <1>5
  <2>2. /\ t[j] = w[j + 1] /\ j + 1 \in 1..Len(w)
        /\ t[k] = w[k + 1] /\ k + 1 \in 1..Len(w)
    BY <1>1
  <2>3. w[j + 1].kind = "stanza" /\ w[k + 1].kind = "stanza"
    BY <1>5, <2>2
  <2> QED BY <2>1, <2>2, <2>3 DEF InTransit
<1>6. ASSUME NEW id \in lo + 1 + 1 .. hi
      PROVE  \E k \in 1..Len(t) : t[k].kind = "stanza" /\ t[k].n = id
  <2>1. id \in lo + 1 .. hi /\ id # lo + 1
    OBVIOUS
  <2>2. PICK k \in 1..Len(w) : w[k].kind = "stanza" /\ w[k].n = id
    BY <2>1 DEF InTransit
  <2>3. k # 1
    BY <2>1, <2>2, <1>3
  <2>4. k - 1 \in 1..Len(t) /\ (k - 1) + 1 = k
    BY <2>3, <1>1
  <2> QED BY <2>2, <2>4, <1>1
<1> QED BY <1>1, <1>2, <1>3, <1>4, <1>5, <1>6 DEF InTransit, t
=============================================================================
