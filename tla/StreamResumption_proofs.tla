------------------------ MODULE StreamResumption_proofs ------------------------
(***************************************************************************)
(* Proofs about StreamResumption, for every AckInterval, MaxStanzas and    *)
(* MaxLinks, and for every set of diallers that leaves one node out: when  *)
(* both nodes dial each other, both ask on the same stream, and the        *)
(* property fails.                                                         *)
(***************************************************************************)
EXTENDS StreamResumption, XmppStream_proofs, FiniteSetTheorems

(* The inductive invariant *)

\* One direction of a stream between an end e, whose node has sent n stanzas in
\* all, and the end o of its peer, that g counts the arrivals at: w and v are in
\* transit towards e and towards o, and u says whether the transport works.

\* The peer was handed the first h stanzas of e.
Arrived(e, n, g, h) ==
    /\ h <= e.outCount
    /\ \A id \in n - e.outCount + 1 .. n - e.outCount + h : g[id] > 0

\* The queue is the unbroken tail of what was sent, and of this stream.
QueueIsTail(e, n) ==
    /\ e.outCount <= n
    /\ Len(e.unacked) <= e.outCount
    /\ \A j \in 1..Len(e.unacked) : e.unacked[j] = n - Len(e.unacked) + j

\* What the peer has counted, or acknowledges, is what it was handed.
CountsAreHonest(e, o, w, n, g) ==
    /\ \A k \in 1..Len(w) : w[k].kind = "a" => Arrived(e, n, g, w[k].n)
    /\ o.open => Arrived(e, n, g, o.inCount)

\* What the peer lacks is in transit, as long as the transport works.
RestIsInTransit(e, o, v, n, u) ==
    (u /\ o.open) => InTransit(v, n - e.outCount + o.inCount, n)

Fits(e, o, w, v, n, g, u) ==
    QueueIsTail(e, n) /\ CountsAreHonest(e, o, w, n, g) /\ RestIsInTransit(e, o, v, n, u)

FreshEnd(n) ==
    Fits(stream[n], stream[Peer(n)], wire[n], wire[Peer(n)], sent[n], got[Peer(n)], up)

Only(w, kinds) == \A k \in 1..Len(w) : w[k].kind \in kinds

Resumptions == {"resume", "resumed"}

\* A stream that began with a new session: nothing is resumed on it.
Fresh == \A n \in Node : /\ Only(wire[n], Kinds \ Resumptions)
                         /\ stream[n].open => FreshEnd(n)

\* A stream that resumes a session: as handleSmElement never enables stream
\* management on <resumed/>, neither end asks for acknowledgements or sends one.
Quiet == \A n \in Node : /\ Only(wire[n], Resumptions \union {"stanza"})
                         /\ ~stream[n].smEnabled

\* At most one session is stored, and only for stanzas that were sent.
Held(n) == Kept(n) \union dropped[n]

Books(n) ==
    /\ saved[n] = {} \/ \E s \in Session : saved[n] = {s}
    /\ hasAddr[n] => n \in Diallers
    /\ ~stream[n].open => stream[n] = NoStream /\ wire[n] = <<>>
    /\ ~up => wire[n] = <<>>
    /\ Held(n) \subseteq 1..sent[n]
    /\ Undelivered(n) \subseteq Held(n)

Typed ==
    /\ stream \in [Node -> End]
    /\ closing \in [Node -> Seq(End)]
    /\ saved \in [Node -> SUBSET Session]
    /\ hasAddr \in [Node -> BOOLEAN] /\ timer \in [Node -> BOOLEAN]
    /\ wire \in [Node -> Seq(Frame)] /\ up \in BOOLEAN
    /\ links \in 0..MaxLinks
    /\ sent \in [Node -> 0..MaxStanzas]
    /\ got \in [Node -> [Ids -> Nat]]
    /\ agreed \in [Node -> {"no", "enabled", "resumed"}]
    /\ dropped \in [Node -> SUBSET Nat]

IInv == Typed /\ (\A n \in Node : Books(n)) /\ (Fresh \/ Quiet)

-----------------------------------------------------------------------------
(* Queues and sessions *)

\* Each node has the other for its peer.
LEMMA PeerOfNode ==
    ASSUME NEW n \in Node
    PROVE  /\ Peer(n) \in Node /\ Peer(n) # n /\ Peer(Peer(n)) = n
           /\ \A m \in Node : m = n \/ m = Peer(n)
BY DEF Node, Peer

\* A new stream, and the place of a stream that is gone, hold nothing.
LEMMA NewEnds ==
    /\ NewStream \in End /\ NoStream \in End
    /\ NewStream.open /\ ~NoStream.open
    /\ NewStream.unacked = <<>> /\ NoStream.unacked = <<>>
    /\ ~NewStream.smEnabled /\ ~NoStream.smEnabled
    /\ NewStream.inCount = 0 /\ NewStream.outCount = 0
<1>1. /\ NewStream \in End /\ NewStream.open /\ ~NewStream.smEnabled
      /\ NewStream.unacked = <<>> /\ NewStream.inCount = 0 /\ NewStream.outCount = 0
  BY DEF NewStream, End
<1>2. NoStream = [NewStream EXCEPT !.open = FALSE]
  BY DEF NoStream
<1>3. NoStream \in End /\ NoStream.open = FALSE
  BY <1>1, <1>2 DEF End
<1>4. NoStream.unacked = <<>> /\ ~NoStream.smEnabled
  BY <1>1, <1>2 DEF End
<1> QED BY <1>1, <1>3, <1>4

\* The stanzas of an empty queue, and of a longer one.
LEMMA QueuedNone == Queued(<<>>) = {}
BY DEF Queued

(* What a queue holds after a stanza was added. *)
LEMMA QueuedMore ==
    ASSUME NEW u \in Seq(Nat), NEW id \in Nat
    PROVE  Queued(Append(u, id)) = Queued(u) \union {id}
<1> DEFINE v == Append(u, id)
<1>1. /\ Len(v) = Len(u) + 1 /\ v[Len(u) + 1] = id /\ Len(u) \in Nat
      /\ \A j \in 1..Len(u) : v[j] = u[j]
      /\ DOMAIN u = 1..Len(u) /\ DOMAIN v = 1..Len(v)
  BY OneMore
<1> HIDE DEF v
<1>2. {v[j] : j \in 1..Len(v)} = {u[j] : j \in 1..Len(u)} \union {id}
  BY <1>1
<1> QED BY <1>1, <1>2 DEF Queued, v

\* The stanzas of no session, and of one.
LEMMA QueuedInNone == QueuedIn({}) = {}
BY DEF QueuedIn

(* What the queue of a single session holds. *)
LEMMA QueuedInOne ==
    ASSUME NEW s
    PROVE  QueuedIn({s}) = Queued(s.unacked)
BY DEF QueuedIn

\* The stanzas of the streams that are still to close.
QueuedInAll(c) == UNION {Queued(c[i].unacked) : i \in DOMAIN c}

(* A stanza is in the queues of a sequence of ends when it is in one of them. *)
LEMMA InAll ==
    ASSUME NEW c \in Seq(End), NEW x
    PROVE  x \in QueuedInAll(c) <=> \E i \in 1..Len(c) : x \in Queued(c[i].unacked)
<1>1. DOMAIN c = 1..Len(c)
  OBVIOUS
<1> QED BY <1>1, Zenon DEF QueuedInAll

(* The queues of a sequence after one more end was added. *)
LEMMA QueuedInMore ==
    ASSUME NEW c \in Seq(End), NEW e \in End
    PROVE  /\ Append(c, e) \in Seq(End)
           /\ QueuedInAll(Append(c, e)) = QueuedInAll(c) \union Queued(e.unacked)
<1> DEFINE d == Append(c, e)
<1>1. /\ d \in Seq(End) /\ Len(d) = Len(c) + 1 /\ d[Len(c) + 1] = e
      /\ Len(c) \in Nat /\ \A j \in 1..Len(c) : d[j] = c[j]
  OBVIOUS
<1> HIDE DEF d
<1>2. ASSUME NEW x
      PROVE  x \in QueuedInAll(d) <=> x \in QueuedInAll(c) \/ x \in Queued(e.unacked)
  <2>1. x \in QueuedInAll(c) <=> \E i \in 1..Len(c) : x \in Queued(c[i].unacked)
    BY InAll
  <2>2. x \in QueuedInAll(d) <=> \E i \in 1..Len(d) : x \in Queued(d[i].unacked)
    BY <1>1, InAll
  <2>3. \A i \in 1..Len(d) : (i \in 1..Len(c) /\ d[i] = c[i]) \/ d[i] = e
    BY <1>1
  <2>4. \A i \in 1..Len(c) : i \in 1..Len(d) /\ d[i] = c[i]
    BY <1>1
  <2>5. \E i \in 1..Len(d) : d[i] = e
    BY <1>1
  <2> QED BY ONLY <2>1, <2>2, <2>3, <2>4, <2>5, Zenon
<1>3. QueuedInAll(d) = QueuedInAll(c) \union Queued(e.unacked)
  BY <1>2
<1> QED BY <1>1, <1>3 DEF d

(* The queues of a sequence are those of its head and of its tail. *)
LEMMA QueuedInLess ==
    ASSUME NEW c \in Seq(End), c # <<>>
    PROVE  /\ Head(c) \in End /\ Tail(c) \in Seq(End)
           /\ QueuedInAll(c) = Queued(Head(c).unacked) \union QueuedInAll(Tail(c))
<1> DEFINE d == Tail(c)
           e == Head(c)
<1>1. /\ e = c[1] /\ e \in End /\ 1 \in 1..Len(c) /\ Len(c) \in Nat
      /\ d \in Seq(End) /\ Len(d) = Len(c) - 1
      /\ \A k \in 1..Len(d) : d[k] = c[k + 1] /\ k + 1 \in 1..Len(c)
  OBVIOUS
<1> HIDE DEF d, e
<1>2. ASSUME NEW x
      PROVE  x \in QueuedInAll(c) <=> x \in Queued(e.unacked) \/ x \in QueuedInAll(d)
  <2>1. x \in QueuedInAll(c) <=> \E i \in 1..Len(c) : x \in Queued(c[i].unacked)
    BY InAll
  <2>2. x \in QueuedInAll(d) <=> \E i \in 1..Len(d) : x \in Queued(d[i].unacked)
    BY <1>1, InAll
  <2>3. \A i \in 1..Len(c) : c[i] = e \/ \E k \in 1..Len(d) : d[k] = c[i]
    <3> SUFFICES ASSUME NEW i \in 1..Len(c), i # 1
                 PROVE  \E k \in 1..Len(d) : d[k] = c[i]
      BY <1>1
    <3>1. i - 1 \in 1..Len(d) /\ (i - 1) + 1 = i
      BY <1>1
    <3> QED BY <3>1, <1>1
  <2>4. \A k \in 1..Len(d) : \E i \in 1..Len(c) : d[k] = c[i]
    BY <1>1
  <2>5. \E i \in 1..Len(c) : c[i] = e
    BY <1>1
  <2> QED BY ONLY <2>1, <2>2, <2>3, <2>4, <2>5, Zenon
<1>3. QueuedInAll(c) = Queued(e.unacked) \union QueuedInAll(d)
  BY <1>2
<1> QED BY <1>1, <1>3 DEF d, e

\* What a node has not thrown away, part by part.
LEMMA HeldParts ==
    ASSUME NEW n \in Node
    PROVE  Held(n) = Queued(stream[n].unacked) \union QueuedIn(saved[n])
                       \union QueuedInAll(closing[n]) \union dropped[n]
BY DEF Held, Kept, QueuedInAll

-----------------------------------------------------------------------------
(* Streams that close *)

\* A stream that closes leaves its stanzas in a session, or throws them away
\* with it; either way they are accounted for.
LEMMA SessionSaved ==
    ASSUME Typed, NEW n \in Node, Books(n), NEW e \in End, SaveSession(n, e)
    PROVE  /\ saved' \in [Node -> SUBSET Session] /\ dropped' \in [Node -> SUBSET Nat]
           /\ \A m \in Node : m # n => saved'[m] = saved[m] /\ dropped'[m] = dropped[m]
           /\ saved'[n] = {} \/ \E s \in Session : saved'[n] = {s}
           /\ QueuedIn(saved'[n]) \union dropped'[n]
                = QueuedIn(saved[n]) \union dropped[n] \union Queued(e.unacked)
<1> DEFINE old == QueuedIn(saved[n])
           q == Queued(e.unacked)
           s == [outCount |-> e.outCount, inCount |-> e.inCount, unacked |-> e.unacked]
<1>1. /\ saved \in [Node -> SUBSET Session] /\ dropped \in [Node -> SUBSET Nat]
      /\ sent[n] \in Nat
  BY DEF Typed
<1>2. old \subseteq Nat /\ q \subseteq Nat
  <2>1. Held(n) \subseteq Nat
    BY <1>1 DEF Books
  <2>2. e.unacked \in Seq(Nat)
    BY DEF End
  <2> QED BY <2>1, <2>2, HeldParts DEF Queued
<1>3. s \in Session /\ s.unacked = e.unacked
  BY DEF Session, End
<1>4. saved[n] = {} \/ \E t \in Session : saved[n] = {t}
  BY DEF Books
<1>5. CASE e.smEnabled
  <2>1. saved' = [saved EXCEPT ![n] = {s}] /\ dropped' = [dropped EXCEPT ![n] = @ \union old]
    BY <1>5 DEF SaveSession
  <2> HIDE DEF s, old
  <2>2. saved'[n] = {s} /\ dropped'[n] = dropped[n] \union old
    BY <1>1, <2>1
  <2>3. QueuedIn(saved'[n]) = q
    BY <1>3, <2>2, QueuedInOne
  <2>4. /\ saved' \in [Node -> SUBSET Session]
        /\ \A m \in Node : m # n => saved'[m] = saved[m]
    BY <1>1, <1>3, <2>1
  <2>5. /\ dropped' \in [Node -> SUBSET Nat]
        /\ \A m \in Node : m # n => dropped'[m] = dropped[m]
    BY <1>1, <1>2, <2>1
  <2> HIDE DEF q
  <2>6. QueuedIn(saved'[n]) \union dropped'[n] = old \union dropped[n] \union q
    BY <2>2, <2>3
  <2> QED BY <1>3, <2>2, <2>4, <2>5, <2>6 DEF old, q
<1>6. CASE ~e.smEnabled
  <2>1. saved' = saved /\ dropped' = [dropped EXCEPT ![n] = @ \union q]
    BY <1>6 DEF SaveSession
  <2> HIDE DEF s, old, q
  <2>2. dropped'[n] = dropped[n] \union q
    BY <1>1, <2>1
  <2>3. /\ dropped' \in [Node -> SUBSET Nat]
        /\ \A m \in Node : m # n => dropped'[m] = dropped[m]
    BY <1>1, <1>2, <2>1
  <2>4. QueuedIn(saved'[n]) \union dropped'[n] = old \union dropped[n] \union q
    BY <2>1, <2>2 DEF old
  <2> QED BY <1>1, <1>4, <2>1, <2>3, <2>4 DEF old, q
<1> QED BY <1>5, <1>6

\* What is in use on the transport is not touched by the books of a node.
LEMMA LinkUnchanged ==
    ASSUME Fresh \/ Quiet, UNCHANGED <<stream, wire, up, sent, got>>
    PROVE  (Fresh \/ Quiet)'
BY DEF Fresh, Quiet, Only, FreshEnd

\* The books of a node of which nothing is thrown away, sent or received.
LEMMA BooksKept ==
    ASSUME NEW n \in Node, Books(n), Held(n)' = Held(n), hasAddr' = hasAddr,
           saved'[n] = {} \/ \E s \in Session : saved'[n] = {s},
           sent' = sent, got' = got, up' = up,
           \/ stream'[n] = stream[n] /\ wire'[n] = wire[n]
           \/ stream'[n] = NoStream /\ wire'[n] = <<>>
    PROVE  Books(n)'
<1>1. Undelivered(n)' = Undelivered(n)
  BY DEF Undelivered
<1>2. ~NoStream.open
  BY NewEnds
<1> QED BY <1>1, <1>2 DEF Books

\* The event of a stream that a newer one has replaced.
LEMMA ReplacedStep ==
    ASSUME IInv, NEW n \in Node, ReplacedStreamClosed(n)
    PROVE  IInv'
<1>1. Typed /\ (\A m \in Node : Books(m)) /\ (Fresh \/ Quiet)
  BY DEF IInv
<1> DEFINE e == Head(closing[n])
           d == Tail(closing[n])
<1>2. /\ closing \in [Node -> Seq(End)] /\ closing[n] \in Seq(End) /\ closing[n] # <<>>
  BY <1>1 DEF Typed, ReplacedStreamClosed
<1>3. /\ e \in End /\ d \in Seq(End)
      /\ QueuedInAll(closing[n]) = Queued(e.unacked) \union QueuedInAll(d)
  BY <1>2, QueuedInLess
<1>4. /\ SaveSession(n, e)
      /\ closing' = [closing EXCEPT ![n] = d]
      /\ timer' = [timer EXCEPT ![n] = @ \/ hasAddr[n]]
      /\ UNCHANGED <<stream, hasAddr, links, wire, up, sent, got, agreed>>
  BY <1>2 DEF ReplacedStreamClosed
<1> HIDE DEF e, d
<1>5. /\ saved' \in [Node -> SUBSET Session] /\ dropped' \in [Node -> SUBSET Nat]
      /\ \A m \in Node : m # n => saved'[m] = saved[m] /\ dropped'[m] = dropped[m]
      /\ saved'[n] = {} \/ \E s \in Session : saved'[n] = {s}
      /\ QueuedIn(saved'[n]) \union dropped'[n]
           = QueuedIn(saved[n]) \union dropped[n] \union Queued(e.unacked)
  BY <1>1, <1>3, <1>4, SessionSaved
<1>6. /\ closing' \in [Node -> Seq(End)] /\ closing'[n] = d
      /\ \A m \in Node : m # n => closing'[m] = closing[m]
  BY <1>2, <1>3, <1>4
<1>7. timer' \in [Node -> BOOLEAN]
  <2>1. timer \in [Node -> BOOLEAN] /\ hasAddr[n] \in BOOLEAN
    BY <1>1 DEF Typed
  <2> QED BY <1>4, <2>1
<1>8. Typed'
  BY <1>1, <1>4, <1>5, <1>6, <1>7 DEF Typed
<1>9. ASSUME NEW m \in Node PROVE Books(m)'
  <2>1. Held(m)' = QueuedIn(saved'[m]) \union dropped'[m]
                     \union Queued(stream[m].unacked) \union QueuedInAll(closing'[m])
    BY <1>4 DEF Held, Kept, QueuedInAll
  <2>2. Held(m) = QueuedIn(saved[m]) \union dropped[m]
                     \union Queued(stream[m].unacked) \union QueuedInAll(closing[m])
    BY DEF Held, Kept, QueuedInAll
  <2>3. Held(m)' = Held(m)
    <3>1. CASE m = n
      BY <3>1, <2>1, <2>2, <1>3, <1>5, <1>6
    <3>2. CASE m # n
      BY <3>2, <2>1, <2>2, <1>5, <1>6
    <3> QED BY <3>1, <3>2
  <2>4. saved'[m] = {} \/ \E s \in Session : saved'[m] = {s}
    BY <1>1, <1>5 DEF Books
  <2> QED BY <1>1, <1>4, <2>3, <2>4, BooksKept
<1>10. (Fresh \/ Quiet)'
  BY <1>1, <1>4, LinkUnchanged
<1> QED BY <1>8, <1>9, <1>10 DEF IInv

\* The stream in use closes: its peer's may go on, with nothing to read.
LEMMA ClosedStep ==
    ASSUME IInv, NEW n \in Node, StreamClosed(n)
    PROVE  IInv'
<1>1. Typed /\ (\A m \in Node : Books(m)) /\ (Fresh \/ Quiet)
  BY DEF IInv
<1> DEFINE e == stream[n]
<1>2. /\ stream \in [Node -> End] /\ wire \in [Node -> Seq(Frame)] /\ e \in End
  BY <1>1 DEF Typed
<1>3. /\ SaveSession(n, e)
      /\ stream' = [stream EXCEPT ![n] = NoStream]
      /\ timer' = [timer EXCEPT ![n] = @ \/ hasAddr[n]]
      /\ wire' = [wire EXCEPT ![n] = <<>>]
      /\ UNCHANGED <<closing, hasAddr, links, up, sent, got, agreed>>
  BY DEF StreamClosed
<1> HIDE DEF e
<1>4. /\ saved' \in [Node -> SUBSET Session] /\ dropped' \in [Node -> SUBSET Nat]
      /\ \A m \in Node : m # n => saved'[m] = saved[m] /\ dropped'[m] = dropped[m]
      /\ saved'[n] = {} \/ \E s \in Session : saved'[n] = {s}
      /\ QueuedIn(saved'[n]) \union dropped'[n]
           = QueuedIn(saved[n]) \union dropped[n] \union Queued(e.unacked)
  BY <1>1, <1>2, <1>3, SessionSaved
<1>5. /\ stream' \in [Node -> End] /\ stream'[n] = NoStream
      /\ \A m \in Node : m # n => stream'[m] = stream[m]
  BY <1>2, <1>3, NewEnds
<1>6. /\ wire' \in [Node -> Seq(Frame)] /\ wire'[n] = <<>>
      /\ \A m \in Node : m # n => wire'[m] = wire[m]
  BY <1>2, <1>3
<1>7. timer' \in [Node -> BOOLEAN]
  <2>1. timer \in [Node -> BOOLEAN] /\ hasAddr[n] \in BOOLEAN
    BY <1>1 DEF Typed
  <2> QED BY <1>3, <2>1
<1>8. Typed'
  BY <1>1, <1>3, <1>4, <1>5, <1>6, <1>7 DEF Typed
<1>9. ASSUME NEW m \in Node PROVE Books(m)'
  <2>1. Held(m)' = QueuedIn(saved'[m]) \union dropped'[m]
                     \union Queued(stream'[m].unacked) \union QueuedInAll(closing[m])
    BY <1>3 DEF Held, Kept, QueuedInAll
  <2>2. Held(m) = QueuedIn(saved[m]) \union dropped[m]
                     \union Queued(stream[m].unacked) \union QueuedInAll(closing[m])
    BY DEF Held, Kept, QueuedInAll
  <2>3. Held(m)' = Held(m)
    <3>1. CASE m = n
      <4>1. Queued(stream'[n].unacked) = {}
        BY <1>5, NewEnds, QueuedNone
      <4> QED BY <3>1, <4>1, <2>1, <2>2, <1>4 DEF e
    <3>2. CASE m # n
      BY <3>2, <2>1, <2>2, <1>4, <1>5
    <3> QED BY <3>1, <3>2
  <2>4. saved'[m] = {} \/ \E s \in Session : saved'[m] = {s}
    BY <1>1, <1>4 DEF Books
  <2>5. \/ stream'[m] = stream[m] /\ wire'[m] = wire[m]
        \/ stream'[m] = NoStream /\ wire'[m] = <<>>
    BY <1>5, <1>6
  <2> QED BY <1>1, <1>3, <2>3, <2>4, <2>5, BooksKept
<1>10. (Fresh \/ Quiet)'
  <2> DEFINE p == Peer(n)
  <2>0. p \in Node /\ p # n /\ Peer(p) = n /\ \A m \in Node : m = n \/ m = p
    BY PeerOfNode
  <2>1. CASE Fresh
    <3>1. Only(wire'[n], Kinds \ Resumptions) /\ Only(wire'[p], Kinds \ Resumptions)
      BY <2>0, <2>1, <1>6 DEF Only, Fresh
    <3>2. ~stream'[n].open
      BY <1>5, NewEnds
    <3>3. ASSUME stream'[p].open PROVE FreshEnd(p)'
      <4>1. FreshEnd(p)
        BY <2>0, <2>1, <3>3, <1>5 DEF Fresh
      <4>2. stream'[p] = stream[p] /\ wire'[p] = wire[p] /\ sent' = sent /\ got' = got
        BY <2>0, <1>3, <1>5, <1>6
      <4> QED BY <4>1, <4>2, <3>2, <2>0
           DEF FreshEnd, Fits, CountsAreHonest, RestIsInTransit
    <3>4. Fresh'
      BY <2>0, <3>1, <3>2, <3>3 DEF Fresh
    <3> QED BY <3>4
  <2>2. CASE Quiet
    <3>1. Quiet'
      BY <2>2, <1>5, <1>6, NewEnds DEF Quiet, Only
    <3> QED BY <3>1
  <2> QED BY <2>1, <2>2, <1>1
<1> QED BY <1>8, <1>9, <1>10 DEF IInv

\* The transport fails: neither node knows yet, and nothing is in transit.
LEMMA BreakStep ==
    ASSUME IInv, Break
    PROVE  IInv'
<1>1. Typed /\ (\A m \in Node : Books(m)) /\ (Fresh \/ Quiet)
  BY DEF IInv
<1>2. /\ up' = FALSE /\ wire' = [n \in Node |-> <<>>]
      /\ UNCHANGED <<stream, closing, saved, hasAddr, timer, links, sent, got, agreed, dropped>>
  BY DEF Break, sessions, dialling, history
<1>3. Typed'
  <2>1. wire' \in [Node -> Seq(Frame)] /\ up' \in BOOLEAN
    <3>1. <<>> \in Seq(Frame)
      OBVIOUS
    <3>2. wire' = [n \in Node |-> <<>>] /\ up' = FALSE
      BY <1>2
    <3> QED BY ONLY <3>1, <3>2
  <2> QED BY <1>1, <1>2, <2>1 DEF Typed
<1>4. ASSUME NEW m \in Node PROVE Books(m)'
  <2>1. Held(m)' = Held(m) /\ Undelivered(m)' = Undelivered(m)
    BY <1>2 DEF Held, Kept, Undelivered
  <2> QED BY <1>1, <1>2, <2>1 DEF Books
<1>5. CASE Fresh
  <2>1. ASSUME NEW m \in Node
        PROVE  Only(wire'[m], Kinds \ Resumptions) /\ (stream'[m].open => FreshEnd(m)')
    <3>1. Peer(m) \in Node
      BY PeerOfNode
    <3> QED BY <1>2, <1>5, <3>1 DEF Fresh, Only, FreshEnd, Fits, CountsAreHonest,
                RestIsInTransit
  <2>2. Fresh'
    BY <2>1 DEF Fresh
  <2> QED BY <1>3, <1>4, <2>2 DEF IInv
<1>6. CASE Quiet
  <2>1. Quiet'
    BY <1>2, <1>6 DEF Quiet, Only
  <2> QED BY <1>3, <1>4, <2>1 DEF IInv
<1> QED BY <1>1, <1>5, <1>6

\* Before the first transport nothing is open, stored or in transit.
LEMMA InitIInv == Init => IInv
<1> SUFFICES ASSUME Init PROVE IInv
  OBVIOUS
<1>1. Typed
  <2>1. links \in 0..MaxLinks /\ 0 \in 0..MaxStanzas
    BY ResumptionAssumption DEF Init
  <2>2. /\ closing \in [Node -> Seq(End)] /\ wire \in [Node -> Seq(Frame)]
        /\ stream \in [Node -> End]
    BY NewEnds DEF Init
  <2>3. /\ saved \in [Node -> SUBSET Session] /\ hasAddr \in [Node -> BOOLEAN]
        /\ timer \in [Node -> BOOLEAN] /\ up \in BOOLEAN
        /\ dropped \in [Node -> SUBSET Nat]
        /\ agreed \in [Node -> {"no", "enabled", "resumed"}]
    BY DEF Init
  <2>4. sent \in [Node -> 0..MaxStanzas] /\ got \in [Node -> [Ids -> Nat]]
    BY <2>1 DEF Init
  <2> QED BY <2>1, <2>2, <2>3, <2>4 DEF Typed
<1>2. ASSUME NEW n \in Node PROVE Books(n)
  <2>1. Held(n) = {}
    <3>1. QueuedInAll(closing[n]) = {}
      BY DEF Init, QueuedInAll
    <3> QED BY <3>1, HeldParts, NewEnds, QueuedNone, QueuedInNone DEF Init
  <2>2. Undelivered(n) = {}
    BY DEF Init, Undelivered
  <2> QED BY <2>1, <2>2 DEF Init, Books
<1>3. Quiet
  BY NewEnds DEF Init, Quiet, Only
<1> QED BY <1>1, <1>2, <1>3 DEF IInv

-----------------------------------------------------------------------------
(* One direction of a stream on which nothing is resumed *)

\* A new stream has sent nothing and lacks nothing.
LEMMA FitsNew ==
    ASSUME NEW w \in Seq(Frame), NEW v \in Seq(Frame), NEW n \in Nat, NEW g, NEW u,
           \A k \in 1..Len(w) : w[k].kind # "a",
           \A k \in 1..Len(v) : v[k].kind # "stanza"
    PROVE  Fits(NewStream, NewStream, w, v, n, g, u)
<1>1. NewStream.inCount = 0 /\ NewStream.outCount = 0 /\ NewStream.unacked = <<>>
  BY NewEnds
<1> DEFINE e == NewStream
<1> HIDE DEF e
<1>2. e.inCount = 0 /\ e.outCount = 0 /\ e.unacked = <<>>
  BY <1>1 DEF e
<1>3. QueueIsTail(e, n)
  BY <1>2 DEF QueueIsTail
<1>4. CountsAreHonest(e, e, w, n, g)
  BY <1>2 DEF CountsAreHonest, Arrived
<1>5. RestIsInTransit(e, e, v, n, u)
  <2>1. InTransit(v, n, n)
    BY TransitNone
  <2>2. n - e.outCount + e.inCount = n
    BY <1>2
  <2> QED BY <2>1, <2>2 DEF RestIsInTransit
<1> QED BY <1>3, <1>4, <1>5 DEF Fits, e

\* Where the counts of a stream stand in the count of what was sent.
LEMMA Places ==
    ASSUME NEW n \in Nat, NEW c \in Nat, NEW i \in Nat, c <= n
    PROVE  /\ n - c \in Nat /\ n - c + i \in Nat
           /\ (n - c + i) + 1 = n - c + (i + 1)
           /\ (n - c + i) + 1 <= n => i + 1 <= c
           /\ i <= c => n - c + i <= n
           /\ (n + 1) - (c + 1) = n - c
OBVIOUS

\* A count of arrivals stands when more is sent, and when more arrives.
LEMMA ArrivedStands ==
    ASSUME NEW e \in End, NEW x \in End, NEW n \in Nat, NEW m \in Nat, NEW g, NEW k,
           NEW h \in Nat,
           n - e.outCount = m - x.outCount, e.outCount <= x.outCount,
           \A id \in 1..n : g[id] > 0 => k[id] > 0,
           e.outCount <= n, Arrived(e, n, g, h)
    PROVE  Arrived(x, m, k, h)
<1>1. e.outCount \in Nat /\ x.outCount \in Nat
  BY DEF End
<1>2. h <= x.outCount
  BY <1>1 DEF Arrived
<1>3. ASSUME NEW id \in m - x.outCount + 1 .. m - x.outCount + h
      PROVE  k[id] > 0
  <2>1. id \in n - e.outCount + 1 .. n - e.outCount + h
    OBVIOUS
  <2>2. id \in 1..n
    BY <2>1, <1>1 DEF Arrived
  <2> QED BY <2>1, <2>2 DEF Arrived
<1> QED BY <1>2, <1>3 DEF Arrived

\* The node sends its next stanza.
LEMMA FitsSend ==
    ASSUME NEW e \in End, NEW o \in End, NEW w \in Seq(Frame), NEW v \in Seq(Frame),
           NEW n \in Nat, NEW g, NEW u, Fits(e, o, w, v, n, g, u),
           NEW x \in End, x.outCount = e.outCount + 1, x.unacked = Append(e.unacked, n + 1),
           NEW y, NEW f \in Frame, f.kind = "stanza", f.n = n + 1, Extends(v, y, f),
           (u /\ o.open) => Carries(v, y, f)
    PROVE  Fits(x, o, w, y, n + 1, g, u)
<1>1. /\ e.outCount \in Nat /\ e.unacked \in Seq(Nat) /\ Len(e.unacked) \in Nat
      /\ o.inCount \in Nat
  BY DEF End
<1>2. /\ e.outCount <= n /\ Len(e.unacked) <= e.outCount
      /\ \A j \in 1..Len(e.unacked) : e.unacked[j] = n - Len(e.unacked) + j
  BY DEF Fits, QueueIsTail
<1>3. QueueIsTail(x, n + 1)
  <2> DEFINE q == e.unacked
             z == x.unacked
  <2>1. /\ q \in Seq(Nat) /\ z = Append(q, n + 1) /\ Len(q) \in Nat
        /\ \A j \in 1..Len(q) : q[j] = n - Len(q) + j
        /\ Len(q) <= e.outCount
    BY <1>1, <1>2
  <2> HIDE DEF q, z
  <2>2. /\ Len(z) = Len(q) + 1 /\ z[Len(q) + 1] = n + 1
        /\ \A j \in 1..Len(q) : z[j] = q[j]
    BY <2>1, OneMore
  <2>3. ASSUME NEW j \in 1..Len(z) PROVE z[j] = (n + 1) - Len(z) + j
    <3>1. CASE j = Len(q) + 1
      BY <3>1, <2>1, <2>2
    <3>2. CASE j \in 1..Len(q)
      <4>1. z[j] = n - Len(q) + j
        BY <3>2, <2>1, <2>2
      <4> QED BY <4>1, <2>1, <2>2
    <3> QED BY <3>1, <3>2, <2>1, <2>2
  <2>4. Len(z) <= x.outCount /\ x.outCount <= n + 1
    BY <1>1, <1>2, <2>1, <2>2
  <2> QED BY <2>3, <2>4 DEF QueueIsTail, z
<1>4. n - e.outCount = (n + 1) - x.outCount /\ e.outCount <= x.outCount
  <2>1. (n + 1) - (e.outCount + 1) = n - e.outCount
    BY ONLY <1>1, <1>2, n \in Nat, Places
  <2>2. e.outCount <= e.outCount + 1
    BY ONLY <1>1
  <2> QED BY <2>1, <2>2
<1>5. CountsAreHonest(x, o, w, n + 1, g)
  <2>1. ASSUME NEW h \in Nat, Arrived(e, n, g, h) PROVE Arrived(x, n + 1, g, h)
    BY <1>2, <1>4, <2>1, ArrivedStands
  <2>2. \A k \in 1..Len(w) : w[k].n \in Nat
    BY FrameAt
  <2> QED BY <1>1, <2>1, <2>2 DEF Fits, CountsAreHonest
<1>6. RestIsInTransit(x, o, y, n + 1, u)
  <2> SUFFICES ASSUME u, o.open PROVE InTransit(y, (n + 1) - x.outCount + o.inCount, n + 1)
    BY Zenon DEF RestIsInTransit
  <2> DEFINE lo == n - e.outCount + o.inCount
  <2>1. InTransit(v, lo, n)
    BY DEF Fits, RestIsInTransit
  <2>2. o.inCount <= e.outCount
    BY DEF Fits, CountsAreHonest, Arrived
  <2>3. lo \in Nat /\ lo <= n
    BY ONLY <1>1, <1>2, <2>2, n \in Nat, Places
  <2>4. (n + 1) - x.outCount + o.inCount = lo
    BY <1>4
  <2> HIDE DEF lo
  <2>5. InTransit(y, lo, n + 1)
    BY <2>1, <2>3, TransitSend
  <2> QED BY <2>4, <2>5
<1> QED BY <1>3, <1>5, <1>6 DEF Fits

\* Its peer sends one, or reads a frame that is no stanza and answers.
LEMMA FitsPeerPushes ==
    ASSUME NEW e \in End, NEW o \in End, NEW w \in Seq(Frame), NEW v \in Seq(Frame),
           NEW n \in Nat, NEW g, NEW u, Fits(e, o, w, v, n, g, u),
           NEW x \in End, x.inCount = o.inCount, x.open = o.open, o.open,
           NEW z, NEW f \in Frame, Extends(w, z, f), f.kind = "a" => f.n = o.inCount,
           NEW y, \/ y = v
                  \/ v # <<>> /\ Head(v).kind # "stanza" /\ y = Tail(v)
    PROVE  Fits(e, x, z, y, n, g, u)
<1>1. QueueIsTail(e, n)
  BY DEF Fits
<1>2. CountsAreHonest(e, x, z, n, g)
  <2>1. Arrived(e, n, g, o.inCount)
    BY DEF Fits, CountsAreHonest
  <2>2. ASSUME NEW k \in 1..Len(z), z[k].kind = "a" PROVE Arrived(e, n, g, z[k].n)
    <3>1. (k \in 1..Len(w) /\ z[k] = w[k]) \/ z[k] = f
      BY <2>2, ExtendsCases
    <3>2. CASE k \in 1..Len(w) /\ z[k] = w[k]
      BY <2>2, <3>2 DEF Fits, CountsAreHonest
    <3>3. CASE z[k] = f
      BY <2>1, <2>2, <3>3
    <3> QED BY <3>1, <3>2, <3>3
  <2> QED BY <2>1, <2>2 DEF CountsAreHonest
<1>3. RestIsInTransit(e, x, y, n, u)
  <2> SUFFICES ASSUME u PROVE InTransit(y, n - e.outCount + o.inCount, n)
    BY DEF RestIsInTransit
  <2> DEFINE lo == n - e.outCount + o.inCount
  <2>1. InTransit(v, lo, n)
    BY DEF Fits, RestIsInTransit
  <2>2. lo \in Nat
    <3>1. e.outCount \in Nat /\ o.inCount \in Nat /\ e.outCount <= n
      BY <1>1 DEF QueueIsTail, End
    <3> QED BY ONLY <3>1, n \in Nat, Places
  <2> HIDE DEF lo
  <2>3. InTransit(y, lo, n)
    BY <2>1, <2>2, TransitSkip
  <2> QED BY <2>3 DEF lo
<1> QED BY <1>1, <1>2, <1>3 DEF Fits

\* Its peer counts the stanza it reads, which is the next one.
LEMMA FitsPeerReceives ==
    ASSUME NEW e \in End, NEW o \in End, NEW w \in Seq(Frame), NEW v \in Seq(Frame),
           NEW n \in Nat, NEW g, Fits(e, o, w, v, n, g, TRUE),
           NEW x \in End, x.inCount = o.inCount + 1, x.open = o.open, o.open,
           v # <<>>, Head(v).kind = "stanza",
           NEW z, Extends(w, z, R),
           NEW k, \A id \in 1..n : g[id] > 0 => k[id] > 0,
           Head(v).n \in 1..n => k[Head(v).n] > 0
    PROVE  Fits(e, x, z, Tail(v), n, k, TRUE)
<1> DEFINE base == n - e.outCount
           lo == base + o.inCount
<1>1. QueueIsTail(e, n) /\ e.outCount <= n
  BY DEF Fits, QueueIsTail
<1>2. /\ e.outCount \in Nat /\ o.inCount \in Nat /\ base \in Nat /\ lo \in Nat
      /\ lo + 1 = base + x.inCount
  <2>1. e.outCount \in Nat /\ o.inCount \in Nat
    BY DEF End
  <2>2. base \in Nat /\ lo \in Nat /\ lo + 1 = base + (o.inCount + 1)
    BY ONLY <2>1, <1>1, n \in Nat, Places
  <2> QED BY <2>1, <2>2
<1>3. InTransit(v, lo, n)
  BY DEF Fits, RestIsInTransit
<1>4. Head(v).n = lo + 1 /\ lo + 1 <= n /\ InTransit(Tail(v), lo + 1, n)
  <2> HIDE DEF lo
  <2> QED BY <1>2, <1>3, TransitNext
<1>5. RestIsInTransit(e, x, Tail(v), n, TRUE)
  <2>1. InTransit(Tail(v), base + x.inCount, n)
    BY <1>2, <1>4
  <2> QED BY <2>1, Zenon DEF RestIsInTransit
<1>6. CountsAreHonest(e, x, z, n, k)
  <2>1. ASSUME NEW h \in Nat, Arrived(e, n, g, h) PROVE Arrived(e, n, k, h)
    <3>1. n - e.outCount = n - e.outCount /\ e.outCount <= e.outCount
      BY <1>2
    <3> QED BY <1>1, <2>1, <3>1, ArrivedStands
  <2>2. Arrived(e, n, k, o.inCount)
    BY <1>2, <2>1 DEF Fits, CountsAreHonest
  <2>3. Arrived(e, n, k, x.inCount)
    <3>1. x.inCount <= e.outCount
      <4>1. lo + 1 <= n => o.inCount + 1 <= e.outCount
        BY ONLY <1>1, <1>2, n \in Nat, Places
      <4> QED BY <1>4, <4>1
    <3>2. k[lo + 1] > 0
      <4>1. lo + 1 \in 1..n
        BY ONLY <1>2, <1>4, n \in Nat
      <4> QED BY <1>4, <4>1
    <3>3. ASSUME NEW id \in base + 1 .. base + x.inCount PROVE k[id] > 0
      <4>1. CASE id = lo + 1
        BY <4>1, <3>2
      <4>2. CASE id # lo + 1
        <5>1. id \in base + 1 .. base + o.inCount
          BY <4>2, <1>2
        <5> QED BY <5>1, <2>2 DEF Arrived
      <4> QED BY <4>1, <4>2
    <3> QED BY <3>1, <3>3 DEF Arrived
  <2>4. ASSUME NEW j \in 1..Len(z), z[j].kind = "a" PROVE Arrived(e, n, k, z[j].n)
    <3>1. j \in 1..Len(w) /\ z[j] = w[j]
      BY <2>4, RIsFrame, ExtendsCases
    <3>2. Arrived(e, n, g, w[j].n) /\ w[j].n \in Nat
      BY <2>4, <3>1, FrameAt DEF Fits, CountsAreHonest
    <3> QED BY <2>1, <3>1, <3>2
  <2> QED BY <2>3, <2>4 DEF CountsAreHonest
<1> QED BY <1>1, <1>5, <1>6 DEF Fits

\* The node itself reads a frame: its queue may shrink by an acknowledgement.
LEMMA FitsReads ==
    ASSUME NEW e \in End, NEW o \in End, NEW w \in Seq(Frame), NEW v \in Seq(Frame),
           NEW n \in Nat, NEW g, NEW u, Fits(e, o, w, v, n, g, u),
           NEW x \in End, x.outCount = e.outCount, w # <<>>,
           x.unacked = e.unacked \/ \E h \in Nat : x = Acked(e, h),
           NEW y, NEW f \in Frame, Extends(v, y, f), f.kind # "stanza"
    PROVE  Fits(x, o, Tail(w), y, n, g, u)
<1>1. /\ e.outCount \in Nat /\ e.unacked \in Seq(Nat) /\ e.outCount <= n
      /\ o.inCount \in Nat
  BY DEF End, Fits, QueueIsTail
<1>2. QueueIsTail(x, n)
  <2>1. /\ Len(e.unacked) <= e.outCount
        /\ \A j \in 1..Len(e.unacked) : e.unacked[j] = n - Len(e.unacked) + j
    BY DEF Fits, QueueIsTail
  <2>2. CASE x.unacked = e.unacked
    BY <2>1, <2>2, <1>1 DEF QueueIsTail
  <2>3. ASSUME NEW h \in Nat, x = Acked(e, h) PROVE QueueIsTail(x, n)
    <3> DEFINE q == e.unacked
               z == x.unacked
    <3>1. /\ q \in Seq(Nat) /\ z \in Seq(Nat) /\ Len(q) \in Nat /\ Len(z) \in Nat
          /\ Len(z) <= Len(q) /\ Len(q) <= e.outCount
          /\ \A j \in 1..Len(z) : z[j] = q[Len(q) - Len(z) + j]
          /\ \A j \in 1..Len(q) : q[j] = n - Len(q) + j
      <4>1. q \in Seq(Nat) /\ z \in Seq(Nat) /\ Len(q) <= e.outCount
            /\ \A j \in 1..Len(q) : q[j] = n - Len(q) + j
        BY <1>1, <2>1 DEF End
      <4>2. Len(z) <= Len(q) /\ \A j \in 1..Len(z) : z[j] = q[Len(q) - Len(z) + j]
        BY <2>3, AckedTail
      <4>3. Len(q) \in Nat /\ Len(z) \in Nat
        BY <4>1
      <4> QED BY ONLY <4>1, <4>2, <4>3
    <3> HIDE DEF q, z
    <3>2. ASSUME NEW j \in 1..Len(z) PROVE z[j] = n - Len(z) + j
      <4>1. Len(q) - Len(z) + j \in 1..Len(q)
        BY <3>1
      <4>2. z[j] = n - Len(q) + (Len(q) - Len(z) + j)
        BY <3>1, <4>1
      <4> QED BY <3>1, <4>2
    <3>3. Len(z) <= x.outCount /\ x.outCount <= n
      BY <1>1, <3>1
    <3> QED BY <3>2, <3>3 DEF QueueIsTail, z
  <2> QED BY <2>2, <2>3
<1>3. CountsAreHonest(x, o, Tail(w), n, g)
  <2>1. \A h : Arrived(e, n, g, h) => Arrived(x, n, g, h)
    BY DEF Arrived
  <2>2. \A k \in 1..Len(Tail(w)) : Tail(w)[k] = w[k + 1] /\ k + 1 \in 1..Len(w)
    BY Popped
  <2> QED BY <2>1, <2>2 DEF Fits, CountsAreHonest
<1>4. RestIsInTransit(x, o, y, n, u)
  <2> SUFFICES ASSUME u, o.open PROVE InTransit(y, n - e.outCount + o.inCount, n)
    BY DEF RestIsInTransit
  <2> DEFINE lo == n - e.outCount + o.inCount
  <2>1. InTransit(v, lo, n) /\ lo \in Nat
    <3>1. lo \in Nat
      BY ONLY <1>1, n \in Nat, Places
    <3> QED BY <3>1 DEF Fits, RestIsInTransit
  <2> HIDE DEF lo
  <2>2. InTransit(y, lo, n)
    BY <2>1, TransitControl
  <2> QED BY <2>2 DEF lo
<1> QED BY <1>2, <1>3, <1>4 DEF Fits

\* An acknowledgement of what arrived takes no other stanza from the queue.
LEMMA AckedArrived ==
    ASSUME NEW e \in End, NEW n \in Nat, NEW g, NEW h \in Nat, QueueIsTail(e, n),
           Arrived(e, n, g, h), NEW id \in Queued(e.unacked), ~(g[id] > 0)
    PROVE  id \in Queued(Acked(e, h).unacked)
<1> DEFINE q == e.unacked
           z == Acked(e, h).unacked
           c == e.outCount
<1>1. /\ q \in Seq(Nat) /\ z \in Seq(Nat) /\ c \in Nat
      /\ DOMAIN q = 1..Len(q) /\ DOMAIN z = 1..Len(z)
      /\ Len(q) \in Nat /\ Len(z) \in Nat
  <2>1. q \in Seq(Nat) /\ z \in Seq(Nat) /\ c \in Nat
    BY AckedEnd DEF End
  <2> QED BY <2>1
<1>2. /\ Len(z) <= Len(q) /\ \A j \in 1..Len(z) : z[j] = q[Len(q) - Len(z) + j]
      /\ Len(z) = Len(q) \/ Len(z) = c - h
  BY AckedTail
<1>3. /\ c <= n /\ Len(q) <= c
      /\ \A j \in 1..Len(q) : q[j] = n - Len(q) + j
  BY DEF QueueIsTail
<1>4. \A i \in n - c + 1 .. n - c + h : g[i] > 0
  BY DEF Arrived
<1>5. PICK j \in 1..Len(q) : q[j] = id
  BY <1>1 DEF Queued
<1> HIDE DEF q, z, c
<1> DEFINE a == Len(q)
           b == Len(z)
<1>6. /\ a \in Nat /\ b \in Nat /\ c \in Nat /\ j \in 1..a
      /\ b <= a /\ a <= c /\ c <= n /\ (b = a \/ b = c - h)
      /\ id = n - a + j
  BY <1>1, <1>2, <1>3, <1>5
<1> HIDE DEF a, b
<1>7. CASE j > a - b
  <2> DEFINE i == j - (a - b)
  <2>1. i \in 1..b /\ a - b + i = j
    BY ONLY <1>6, <1>7
  <2> HIDE DEF i
  <2>2. z[i] = id /\ i \in DOMAIN z
    BY <1>1, <1>2, <1>5, <2>1 DEF a, b
  <2> QED BY <2>2 DEF Queued, z
<1>8. CASE j <= a - b
  <2>1. b = c - h
    BY ONLY <1>6, <1>8
  <2>2. id \in n - c + 1 .. n - c + h
    BY ONLY <1>6, <1>8, <2>1, n \in Nat, h \in Nat
  <2> QED BY <1>4, <2>2
<1> QED BY <1>6, <1>7, <1>8

-----------------------------------------------------------------------------
(* A new transport *)

\* registerStream makes a new stream, or one that carries the stored session on.
LEMMA RestoredEnd ==
    ASSUME Typed, NEW n \in Node, Books(n), NEW addr \in [Node -> BOOLEAN]
    PROVE  /\ Restored(n, addr) \in End
           /\ Restored(n, addr).open /\ ~Restored(n, addr).smEnabled
           /\ (addr[n] /\ saved[n] # {})
                => Queued(Restored(n, addr).unacked) = QueuedIn(saved[n])
           /\ ~(addr[n] /\ saved[n] # {}) => Restored(n, addr) = NewStream
<1>1. CASE addr[n] /\ saved[n] # {}
  <2>1. PICK s \in Session : saved[n] = {s}
    BY <1>1 DEF Books
  <2>2. (CHOOSE t \in saved[n] : TRUE) = s
    BY <2>1
  <2> DEFINE e == [NewStream EXCEPT !.outCount = s.outCount, !.inCount = s.inCount,
                                    !.unacked = s.unacked]
  <2>3. Restored(n, addr) = e
    BY <1>1, <2>2 DEF Restored
  <2>4. s.outCount \in Nat /\ s.inCount \in Nat /\ s.unacked \in Seq(Nat)
    BY DEF Session
  <2>5. e \in End /\ e.open /\ ~e.smEnabled /\ e.unacked = s.unacked
    BY <2>4 DEF NewStream, End
  <2> HIDE DEF e
  <2> QED BY <1>1, <2>1, <2>3, <2>5, QueuedInOne
<1>2. CASE ~(addr[n] /\ saved[n] # {})
  BY <1>2, NewEnds DEF Restored
<1> QED BY <1>1, <1>2

\* It begins with at most one frame: the initiator asks for a session or for
\* the resumption of one.
LEMMA OpeningFrame ==
    ASSUME Typed, NEW n \in Node, Books(n), NEW addr \in [Node -> BOOLEAN]
    PROVE  \/ ~addr[n] /\ Opening(n, addr) = <<>>
           \/ /\ addr[n] /\ saved[n] = {}
              /\ \E f \in Frame : f.kind = "enable" /\ Opening(n, addr) = <<f>>
           \/ /\ addr[n] /\ saved[n] # {}
              /\ \E f \in Frame : f.kind = "resume" /\ Opening(n, addr) = <<f>>
<1>1. CASE ~addr[n]
  <2>1. Opening(n, addr) = <<>>
    BY <1>1 DEF Opening
  <2> QED BY <1>1, <2>1
<1>2. CASE addr[n] /\ saved[n] = {}
  <2> DEFINE f == F("enable", 0)
  <2>1. f \in Frame /\ f.kind = "enable"
    BY DEF F, Frame, Kinds
  <2>2. Opening(n, addr) = <<f>>
    BY <1>2 DEF Opening
  <2> HIDE DEF f
  <2> QED BY <1>2, <2>1, <2>2
<1>3. CASE addr[n] /\ saved[n] # {}
  <2> DEFINE f == F("resume", Restored(n, addr).inCount)
  <2>1. Restored(n, addr).inCount \in Nat
    BY RestoredEnd DEF End
  <2>2. f \in Frame /\ f.kind = "resume"
    BY <2>1 DEF F, Frame, Kinds
  <2>3. Opening(n, addr) = <<f>>
    BY <1>3 DEF Opening
  <2> HIDE DEF f
  <2> QED BY <1>3, <2>2, <2>3
<1> QED BY <1>1, <1>2, <1>3

\* Whatever was stored or queued moves with the registration of a new stream.
LEMMA RegisterHeld ==
    ASSUME Typed, NEW n \in Node, Books(n), NEW addr \in [Node -> BOOLEAN], NEW due,
           Register(addr, due)
    PROVE  /\ Held(n)' = Held(n) /\ stream'[n].open
           /\ closing'[n] \in Seq(End)
           /\ saved'[n] = {} \/ \E s \in Session : saved'[n] = {s}
<1> DEFINE shut == [stream[n] EXCEPT !.open = FALSE]
<1>1. /\ closing'[n] = IF stream[n].open THEN Append(closing[n], shut) ELSE closing[n]
      /\ stream'[n] = Restored(n, addr)
      /\ saved'[n] = IF addr[n] THEN {} ELSE saved[n]
      /\ dropped'[n] = dropped[n]
  BY DEF Register
<1>2. /\ closing[n] \in Seq(End) /\ stream[n] \in End
      /\ shut \in End /\ shut.unacked = stream[n].unacked
  <2>1. closing[n] \in Seq(End) /\ stream[n] \in End
    BY DEF Typed
  <2> QED BY <2>1 DEF End
<1> HIDE DEF shut
<1>3. /\ closing'[n] \in Seq(End)
      /\ QueuedInAll(closing'[n]) = QueuedInAll(closing[n]) \union Queued(stream[n].unacked)
  <2>1. CASE stream[n].open
    BY <2>1, <1>1, <1>2, QueuedInMore
  <2>2. CASE ~stream[n].open
    <3>1. Queued(stream[n].unacked) = {}
      BY <2>2, NewEnds, QueuedNone DEF Books
    <3> QED BY <2>2, <3>1, <1>1, <1>2
  <2> QED BY <2>1, <2>2
<1>4. Queued(stream'[n].unacked) \union QueuedIn(saved'[n]) = QueuedIn(saved[n])
  <2>1. CASE addr[n] /\ saved[n] # {}
    <3>1. Queued(stream'[n].unacked) = QueuedIn(saved[n]) /\ saved'[n] = {}
      BY <2>1, <1>1, RestoredEnd
    <3> QED BY <3>1, QueuedInNone
  <2>2. CASE ~(addr[n] /\ saved[n] # {})
    <3>1. stream'[n] = NewStream /\ saved'[n] = saved[n]
      BY <2>2, <1>1, RestoredEnd
    <3> QED BY <3>1, NewEnds, QueuedNone
  <2> QED BY <2>1, <2>2
<1>5. Held(n)' = Queued(stream'[n].unacked) \union QueuedIn(saved'[n])
                   \union QueuedInAll(closing'[n]) \union dropped'[n]
  BY DEF Held, Kept, QueuedInAll
<1>6. Held(n)' = Held(n)
  BY <1>1, <1>3, <1>4, <1>5, HeldParts
<1>7. stream'[n].open
  BY <1>1, RestoredEnd
<1> QED BY <1>1, <1>3, <1>6, <1>7 DEF Books

\* The first frame leaves a new stream fresh, or one that resumes quiet: only
\* one of the nodes can have asked.
LEMMA RegisterLink ==
    ASSUME IInv, NEW addr \in [Node -> BOOLEAN], NEW due,
           \A n \in Node : addr[n] => n \in Diallers, Diallers # Node,
           Register(addr, due)
    PROVE  (Fresh \/ Quiet)' /\ wire' \in [Node -> Seq(Frame)]
<1>1. Typed /\ \A n \in Node : Books(n)
  BY DEF IInv
<1>2. /\ stream' = [n \in Node |-> Restored(n, addr)]
      /\ wire' = [n \in Node |-> Opening(Peer(n), addr)]
      /\ sent' = sent /\ got' = got
  BY DEF Register
<1>3. PICK q \in Node : ~addr[q]
  BY ResumptionAssumption
<1> DEFINE p == Peer(q)
<1>4. p \in Node /\ p # q /\ Peer(p) = q /\ Peer(q) = p /\ \A m \in Node : m = q \/ m = p
  BY PeerOfNode
<1> HIDE DEF p
<1>5. /\ stream'[q] = NewStream /\ wire'[p] = <<>>
      /\ stream'[p] = Restored(p, addr) /\ wire'[q] = Opening(p, addr)
  <2>1. Opening(q, addr) = <<>> /\ Restored(q, addr) = NewStream
    BY <1>1, <1>3, OpeningFrame, RestoredEnd
  <2> QED BY <2>1, <1>2, <1>4
<1>6. ASSUME NEW f \in Frame, wire'[q] = <<f>> \/ wire'[q] = <<>>
      PROVE  wire' \in [Node -> Seq(Frame)]
  <2>1. wire'[q] \in Seq(Frame) /\ wire'[p] \in Seq(Frame)
    <3>1. <<>> \in Seq(Frame) /\ <<f>> \in Seq(Frame)
      OBVIOUS
    <3> QED BY <1>5, <1>6, <3>1, Zenon
  <2>2. wire' = [n \in Node |-> wire'[n]]
    BY <1>2
  <2> QED BY <2>1, <2>2, <1>4
<1>7. CASE addr[p] /\ saved[p] # {}
  <2>1. PICK f \in Frame : f.kind = "resume" /\ wire'[q] = <<f>>
    BY <1>1, <1>4, <1>5, <1>7, OpeningFrame
  <2>2. ~stream'[q].smEnabled /\ ~stream'[p].smEnabled
    BY <1>1, <1>4, <1>5, RestoredEnd, NewEnds
  <2>3. /\ Only(wire'[p], Resumptions \union {"stanza"})
        /\ Only(wire'[q], Resumptions \union {"stanza"})
    BY <1>5, <2>1 DEF Only, Resumptions
  <2>4. Quiet'
    BY <1>4, <2>2, <2>3 DEF Quiet
  <2> QED BY <1>6, <2>1, <2>4
<1>8. CASE ~(addr[p] /\ saved[p] # {})
  <2>1. stream'[p] = NewStream
    BY <1>1, <1>4, <1>5, <1>8, RestoredEnd
  <2>2. wire'[q] = <<>> \/ \E f \in Frame : f.kind = "enable" /\ wire'[q] = <<f>>
    BY <1>1, <1>4, <1>5, <1>8, OpeningFrame
  <2>3. wire' \in [Node -> Seq(Frame)]
    BY <2>2, <1>6, RIsFrame
  <2>4. ASSUME NEW m \in Node, NEW k \in 1..Len(wire'[m])
        PROVE  wire'[m][k].kind = "enable"
    BY <2>2, <2>4, <1>4, <1>5
  <2>5. ASSUME NEW m \in Node
        PROVE  Only(wire'[m], Kinds \ Resumptions) /\ FreshEnd(m)'
    <3> DEFINE o == Peer(m)
    <3>1. /\ stream'[m] = NewStream /\ stream'[o] = NewStream /\ o \in Node
          /\ sent[m] \in Nat /\ wire'[o] \in Seq(Frame) /\ sent'[m] = sent[m]
      <4>1. o \in Node
        BY PeerOfNode
      <4>2. stream'[m] = NewStream /\ stream'[o] = NewStream
        BY <4>1, <1>4, <1>5, <2>1
      <4>3. sent[m] \in Nat /\ sent'[m] = sent[m]
        BY <1>1, <1>2 DEF Typed
      <4>4. wire'[o] \in Seq(Frame)
        BY <4>1, <2>3
      <4> QED BY <4>1, <4>2, <4>3, <4>4
    <3>2. Only(wire'[m], Kinds \ Resumptions)
      BY <2>4 DEF Only, Kinds, Resumptions
    <3>3. /\ \A k \in 1..Len(wire'[m]) : wire'[m][k].kind # "a"
          /\ \A k \in 1..Len(wire'[o]) : wire'[o][k].kind # "stanza"
      BY <3>1, <2>4
    <3>4. wire'[m] \in Seq(Frame)
      BY <2>3
    <3>5. Fits(NewStream, NewStream, wire'[m], wire'[o], sent[m], got'[o], up')
      BY <3>1, <3>3, <3>4, FitsNew
    <3>6. FreshEnd(m)'
      BY <3>1, <3>5 DEF FreshEnd
    <3> QED BY <3>2, <3>6
  <2>6. Fresh'
    BY <2>5 DEF Fresh
  <2> QED BY <2>3, <2>6
<1> QED BY <1>7, <1>8

\* Both nodes register the new transport.
LEMMA RegisterStep ==
    ASSUME IInv, NEW addr \in [Node -> BOOLEAN], NEW due \in [Node -> BOOLEAN],
           \A n \in Node : addr[n] => n \in Diallers, Diallers # Node,
           Register(addr, due)
    PROVE  IInv'
<1>1. Typed /\ \A n \in Node : Books(n)
  BY DEF IInv
<1>2. /\ links < MaxLinks /\ links' = links + 1 /\ hasAddr' = addr /\ up' = TRUE
      /\ timer' = [n \in Node |-> due[n] /\ ~stream[n].open]
      /\ stream' = [n \in Node |-> Restored(n, addr)]
      /\ saved' = [n \in Node |-> IF addr[n] THEN {} ELSE saved[n]]
      /\ agreed' = [n \in Node |-> "no"]
      /\ UNCHANGED <<sent, got, dropped>>
  BY DEF Register
<1>3. closing' \in [Node -> Seq(End)]
  <2>1. closing' = [n \in Node |-> closing'[n]]
    BY DEF Register
  <2>2. \A n \in Node : closing'[n] \in Seq(End)
    BY <1>1, RegisterHeld
  <2> QED BY <2>1, <2>2
<1>4. stream' \in [Node -> End]
  BY <1>1, <1>2, RestoredEnd
<1>5. saved' \in [Node -> SUBSET Session]
  BY <1>1, <1>2 DEF Typed
<1>6. (Fresh \/ Quiet)' /\ wire' \in [Node -> Seq(Frame)]
  BY RegisterLink
<1>7. links' \in 0..MaxLinks /\ hasAddr' \in [Node -> BOOLEAN] /\ up' \in BOOLEAN
  BY <1>1, <1>2, ResumptionAssumption DEF Typed
<1>8. timer' \in [Node -> BOOLEAN] /\ agreed' \in [Node -> {"no", "enabled", "resumed"}]
  BY <1>2
<1>9. Typed'
  BY <1>1, <1>2, <1>3, <1>4, <1>5, <1>6, <1>7, <1>8 DEF Typed
<1>10. ASSUME NEW n \in Node PROVE Books(n)'
  <2>1. /\ Held(n)' = Held(n) /\ stream'[n].open
        /\ saved'[n] = {} \/ \E s \in Session : saved'[n] = {s}
    BY <1>1, RegisterHeld
  <2>2. Undelivered(n)' = Undelivered(n)
    BY <1>2 DEF Undelivered
  <2> QED BY <1>1, <1>2, <2>1, <2>2 DEF Books
<1> QED BY <1>6, <1>9, <1>10 DEF IInv

-----------------------------------------------------------------------------
(* Sending *)

\* A frame pushed by s towards its peer, with at most a request behind it,
\* travels while the transport works and the peer reads.
LEMMA TravelsFrames ==
    ASSUME NEW s \in Node, NEW f \in Frame, NEW frames \in {<<>>, <<f>>, <<f, R>>},
           NEW w \in Seq(Frame)
    PROVE  /\ Extends(w, w \o Travels(s, frames), f)
           /\ w \o Travels(s, frames) \in Seq(Frame)
           /\ (up /\ stream[Peer(s)].open /\ frames # <<>>)
                => Carries(w, w \o Travels(s, frames), f)
           /\ (~up \/ ~stream[Peer(s)].open) => w \o Travels(s, frames) = w
<1>1. Travels(s, frames) \in {<<>>, <<f>>, <<f, R>>}
  BY DEF Travels
<1>2. (up /\ stream[Peer(s)].open /\ frames # <<>>) => Travels(s, frames) # <<>>
  BY DEF Travels
<1>3. (~up \/ ~stream[Peer(s)].open) => Travels(s, frames) = <<>>
  BY DEF Travels
<1> DEFINE t == Travels(s, frames)
<1> HIDE DEF t
<1>4. /\ Extends(w, w \o t, f)
      /\ t # <<>> => Carries(w, w \o t, f)
  BY <1>1, Pushed DEF t
<1>5. w \o t \in Seq(Frame)
  BY <1>4 DEF Extends
<1>6. t = <<>> => w \o t = w
  OBVIOUS
<1> QED BY <1>2, <1>3, <1>4, <1>5, <1>6 DEF t

\* Frames of some kinds stay so when one of them, and a request, is pushed.
LEMMA PushedOnly ==
    ASSUME NEW w \in Seq(Frame), NEW v, NEW f \in Frame, Extends(w, v, f),
           NEW kinds, Only(w, kinds), f.kind \in kinds, "r" \in kinds
    PROVE  Only(v, kinds)
<1> SUFFICES ASSUME NEW k \in 1..Len(v) PROVE v[k].kind \in kinds
  BY DEF Only
<1>1. (k \in 1..Len(w) /\ v[k] = w[k]) \/ v[k] = f \/ v[k].kind = "r"
  BY ExtendsCases
<1> QED BY <1>1 DEF Only

(* Frames of some kinds stay of these kinds when one more is sent. *)
LEMMA OneMoreOnly ==
    ASSUME NEW w \in Seq(Frame), NEW f, NEW kinds, Only(w, kinds), f.kind \in kinds
    PROVE  Only(w \o <<f>>, kinds)
<1> SUFFICES ASSUME NEW k \in 1..Len(w \o <<f>>) PROVE (w \o <<f>>)[k].kind \in kinds
  BY DEF Only
<1>1. (k \in 1..Len(w) /\ (w \o <<f>>)[k] = w[k]) \/ (w \o <<f>>)[k] = f
  OBVIOUS
<1> QED BY <1>1 DEF Only

\* The books of a node on whose stream something is sent or received.
LEMMA BooksStep ==
    ASSUME NEW n \in Node, Books(n), saved' = saved, hasAddr' = hasAddr, up' = up,
           Held(n)' \subseteq 1..sent'[n], Undelivered(n)' \subseteq Held(n)',
           stream'[n].open = stream[n].open, stream[n].open \/ stream'[n] = stream[n],
           (~up \/ ~stream[n].open) => wire'[n] = <<>>
    PROVE  Books(n)'
BY DEF Books

\* send(stanza) puts the stanza in the queue and, unless it is lost, in transit.
LEMMA SendStep ==
    ASSUME IInv, NEW s \in Node, SendStanza(s)
    PROVE  IInv'
<1> DEFINE p  == Peer(s)
           id == sent[s] + 1
           e  == Counted(stream[s], id)
           f  == F("stanza", id)
           fr == WithRequest(e, f)
<1>0. Typed /\ (\A m \in Node : Books(m)) /\ (Fresh \/ Quiet)
  BY DEF IInv
<1>1. p \in Node /\ p # s /\ Peer(s) = p /\ Peer(p) = s /\ \A m \in Node : m = s \/ m = p
  BY PeerOfNode
<1>2. /\ stream[s] \in End /\ stream[p] \in End /\ wire[p] \in Seq(Frame)
      /\ wire[s] \in Seq(Frame) /\ sent[s] \in Nat /\ sent[p] \in Nat /\ stream[s].outCount \in Nat
      /\ stream[s].unacked \in Seq(Nat) /\ stream[p].inCount \in Nat
      /\ stream[s].inCount \in Nat /\ stream[p].outCount \in Nat
      /\ Len(stream[s].unacked) \in Nat
  BY <1>0, <1>1 DEF Typed, End
<1>3. id \in Nat /\ f \in Frame /\ f.kind = "stanza" /\ f.n = id
  BY <1>2 DEF F, Frame, Kinds
<1>4. /\ e \in End /\ e.outCount = stream[s].outCount + 1 /\ e.inCount = stream[s].inCount
      /\ e.open = stream[s].open /\ e.unacked = Append(stream[s].unacked, id)
      /\ e.smEnabled = stream[s].smEnabled
  <2>1. e.smEnabled = stream[s].smEnabled
    BY <1>2 DEF Counted, End
  <2> QED BY <2>1, <1>2, <1>3, CountedEnd
<1>5. fr \in {<<f>>, <<f, R>>} /\ (~e.smEnabled => fr = <<f>>)
  <2>1. ~e.smEnabled => fr = <<f>>
    BY DEF WithRequest
  <2> QED BY <2>1, <1>3, <1>4, WithRequestFrames
<1>6. /\ stream[s].open /\ id <= MaxStanzas
      /\ sent' = [sent EXCEPT ![s] = id]
      /\ stream' = [stream EXCEPT ![s] = e]
      /\ wire' = [wire EXCEPT ![p] = wire[p] \o Travels(s, fr)]
      /\ UNCHANGED <<closing, saved, hasAddr, timer, links, up, got, agreed, dropped>>
  BY DEF SendStanza, dialling
<1>id. id = sent[s] + 1
  OBVIOUS
<1> HIDE DEF p, id, e, f, fr
<1>7. fr \in {<<>>, <<f>>, <<f, R>>} /\ fr # <<>>
  BY <1>5
<1>8. /\ Extends(wire[p], wire[p] \o Travels(s, fr), f)
      /\ wire[p] \o Travels(s, fr) \in Seq(Frame)
      /\ (up /\ stream[p].open) => Carries(wire[p], wire[p] \o Travels(s, fr), f)
      /\ (~up \/ ~stream[p].open) => wire[p] \o Travels(s, fr) = wire[p]
  <2>1. wire[p] \in Seq(Frame) /\ f \in Frame /\ Peer(s) = p
    BY <1>1, <1>2, <1>3
  <2> QED BY <1>7, <2>1, TravelsFrames
<1>9. /\ stream' \in [Node -> End] /\ stream'[s] = e /\ stream'[p] = stream[p]
      /\ sent' \in [Node -> 0..MaxStanzas] /\ sent'[s] = id /\ sent'[p] = sent[p]
  BY <1>0, <1>1, <1>3, <1>4, <1>6 DEF Typed
<1>10. /\ wire' \in [Node -> Seq(Frame)] /\ wire'[s] = wire[s]
       /\ Extends(wire[p], wire'[p], f)
       /\ (up /\ stream[p].open) => Carries(wire[p], wire'[p], f)
       /\ (~up \/ ~stream[p].open) => wire'[p] = wire[p]
  <2>1. wire' \in [Node -> Seq(Frame)] /\ wire'[s] = wire[s]
        /\ wire'[p] = wire[p] \o Travels(s, fr)
    BY <1>0, <1>1, <1>6, <1>8 DEF Typed
  <2> QED BY <1>8, <2>1
<1>11. Typed'
  BY <1>0, <1>6, <1>9, <1>10 DEF Typed
<1>12. Books(p)'
  <2>1. Held(p)' = Held(p)
    BY <1>6, <1>9 DEF Held, Kept
  <2>2. Undelivered(p)' = Undelivered(p)
    BY <1>6, <1>9 DEF Undelivered
  <2>3. /\ Books(p) /\ saved' = saved /\ hasAddr' = hasAddr /\ up' = up
        /\ stream'[p] = stream[p] /\ sent'[p] = sent[p]
    BY <1>0, <1>1, <1>6, <1>9
  <2>4. (~up \/ ~stream[p].open) => wire'[p] = <<>>
    BY <1>10, <2>3 DEF Books
  <2>5. Held(p)' \subseteq 1..sent'[p] /\ Undelivered(p)' \subseteq Held(p)'
    BY <2>1, <2>2, <2>3 DEF Books
  <2> QED BY <1>1, <2>3, <2>4, <2>5, BooksStep
<1>13. Books(s)'
  <2>1. Held(s)' = Held(s) \union {id}
    <3>1. Queued(stream'[s].unacked) = Queued(stream[s].unacked) \union {id}
      <4>1. stream'[s].unacked = Append(stream[s].unacked, id)
        BY <1>4, <1>9
      <4>2. stream[s].unacked \in Seq(Nat) /\ id \in Nat
        BY <1>2, <1>3
      <4> QED BY ONLY <4>1, <4>2, QueuedMore, Zenon
    <3>2. /\ Held(s)' = Queued(stream'[s].unacked) \union QueuedIn(saved[s])
                          \union QueuedInAll(closing[s]) \union dropped[s]
      BY <1>6 DEF Held, Kept, QueuedInAll
    <3> QED BY <3>1, <3>2, HeldParts
  <2>2. Undelivered(s)' \subseteq Undelivered(s) \union {id}
    BY <1>2, <1>6, <1>9, <1>id DEF Undelivered
  <2>3. 1..id = 1..sent[s] \union {id}
    BY <1>2, <1>id
  <2>4. /\ Books(s) /\ saved' = saved /\ hasAddr' = hasAddr /\ up' = up
        /\ stream[s].open /\ stream'[s].open = stream[s].open
        /\ sent'[s] = id /\ wire'[s] = wire[s]
    BY <1>0, <1>4, <1>6, <1>9, <1>10
  <2>5. Held(s)' \subseteq 1..sent'[s] /\ Undelivered(s)' \subseteq Held(s)'
    BY <2>1, <2>2, <2>3, <2>4 DEF Books
  <2>6. ~up => wire'[s] = <<>>
    BY <2>4 DEF Books
  <2> QED BY <2>4, <2>5, <2>6, BooksStep
<1>14. CASE Fresh
  <2>1. ASSUME NEW m \in Node PROVE Only(wire'[m], Kinds \ Resumptions)
    <3>1. Only(wire[s], Kinds \ Resumptions) /\ Only(wire[p], Kinds \ Resumptions)
      BY <1>1, <1>14 DEF Fresh
    <3>2. Only(wire'[p], Kinds \ Resumptions)
      <4> DEFINE kinds == Kinds \ Resumptions
      <4>1. f.kind \in kinds /\ "r" \in kinds /\ Only(wire[p], kinds)
        BY <1>3, <3>1 DEF Kinds, Resumptions
      <4> HIDE DEF kinds
      <4>2. Only(wire'[p], kinds)
        BY <1>2, <1>3, <1>10, <4>1, PushedOnly
      <4> QED BY <4>2 DEF kinds
    <3> QED BY <1>1, <1>10, <3>1, <3>2
  <2>2. FreshEnd(s)'
    <3>1. FreshEnd(s)
      BY <1>6, <1>14 DEF Fresh
    <3>2. Fits(e, stream[p], wire[s], wire'[p], sent[s] + 1, got[p], up)
      BY <1>1, <1>2, <1>3, <1>4, <1>10, <1>id, <3>1, FitsSend DEF FreshEnd
    <3> QED BY <1>1, <1>6, <1>9, <1>10, <1>id, <3>2 DEF FreshEnd
  <2>3. ASSUME stream'[p].open PROVE FreshEnd(p)'
    <3>1. FreshEnd(p)
      BY <2>3, <1>1, <1>9, <1>14 DEF Fresh
    <3>2. Fits(stream[p], e, wire'[p], wire[s], sent[p], got[s], up)
      <4>1. Fits(stream[p], stream[s], wire[p], wire[s], sent[p], got[s], up)
        BY <1>1, <3>1 DEF FreshEnd
      <4>2. /\ e.inCount = stream[s].inCount /\ e.open = stream[s].open /\ stream[s].open
            /\ f.kind # "a" /\ Extends(wire[p], wire'[p], f)
        BY <1>3, <1>4, <1>6, <1>10
      <4> QED BY <1>2, <1>3, <1>4, <4>1, <4>2, FitsPeerPushes
    <3> QED BY <1>1, <1>6, <1>9, <1>10, <3>2 DEF FreshEnd
  <2>4. Fresh'
    BY <1>1, <2>1, <2>2, <2>3 DEF Fresh
  <2> QED BY <1>1, <1>11, <1>12, <1>13, <2>4 DEF IInv
<1>15. CASE Quiet
  <2>1. ~e.smEnabled /\ ~stream[p].smEnabled
    BY <1>1, <1>4, <1>15 DEF Quiet
  <2>2. fr = <<f>>
    BY <1>5, <2>1
  <2>3. wire'[p] = wire[p] \/ wire'[p] = wire[p] \o <<f>>
    <3>1. wire'[p] = wire[p] \o Travels(s, fr)
      BY <1>0, <1>1, <1>6 DEF Typed
    <3>2. Travels(s, fr) = <<f>> \/ Travels(s, fr) = <<>>
      BY <2>2 DEF Travels
    <3>3. wire[p] \o <<>> = wire[p]
      BY <1>2
    <3> QED BY <3>1, <3>2, <3>3, Zenon
  <2>4. Only(wire'[p], Resumptions \union {"stanza"})
    <3>1. Only(wire[p], Resumptions \union {"stanza"})
      BY <1>1, <1>15 DEF Quiet
    <3>2. wire[p] \in Seq(Frame) /\ f.kind \in Resumptions \union {"stanza"}
      BY <1>2, <1>3
    <3> QED BY <2>3, <3>1, <3>2, OneMoreOnly
  <2>5. Quiet'
    BY <1>1, <1>9, <1>10, <1>15, <2>1, <2>4 DEF Quiet
  <2> QED BY <1>1, <1>11, <1>12, <1>13, <2>5 DEF IInv
<1> QED BY <1>0, <1>14, <1>15

-----------------------------------------------------------------------------
(* Reading *)

\* Reading takes the head of one direction, and may push in the other.
LEMMA ReadWires ==
    ASSUME Typed, NEW s \in Node, wire[s] # <<>>, NEW frames \in Seq(Frame),
           wire' = [wire EXCEPT ![s] = Tail(@), ![Peer(s)] = @ \o Travels(s, frames)]
    PROVE  /\ wire' \in [Node -> Seq(Frame)] /\ wire'[s] = Tail(wire[s])
           /\ wire'[Peer(s)] = wire[Peer(s)] \o Travels(s, frames)
           /\ (~up \/ ~stream[Peer(s)].open) => wire'[Peer(s)] = wire[Peer(s)]
<1> DEFINE p == Peer(s)
           x == Tail(wire[s])
           y == wire[p] \o Travels(s, frames)
<1>1. p \in Node /\ p # s
  BY PeerOfNode
<1>2. wire \in [Node -> Seq(Frame)] /\ wire[s] \in Seq(Frame) /\ wire[p] \in Seq(Frame)
  BY <1>1 DEF Typed
<1>3. Travels(s, frames) \in Seq(Frame)
  BY DEF Travels
<1>4. x \in Seq(Frame) /\ y \in Seq(Frame)
  BY <1>2, <1>3, Popped
<1>5. (~up \/ ~stream[p].open) => y = wire[p]
  <2>1. (~up \/ ~stream[p].open) => Travels(s, frames) = <<>>
    BY DEF Travels
  <2>2. wire[p] \o <<>> = wire[p]
    BY <1>2
  <2> QED BY <2>1, <2>2
<1>6. wire' = [wire EXCEPT ![s] = x, ![p] = y]
  BY <1>1, <1>2
<1> HIDE DEF p, x, y
<1>7. wire' \in [Node -> Seq(Frame)] /\ wire'[s] = x /\ wire'[p] = y
  BY ONLY <1>1, <1>2, <1>4, <1>6, s \in Node, TwoUpdates, Zenon
<1> QED BY <1>5, <1>7 DEF p, x, y

\* The kinds of frames in transit stay the same when some are read or joined.
LEMMA TailOnly ==
    ASSUME NEW w \in Seq(Frame), w # <<>>, NEW kinds, Only(w, kinds)
    PROVE  Only(Tail(w), kinds) /\ Head(w).kind \in kinds
BY Popped DEF Only

(* Frames of some kinds stay of these kinds when several more are sent. *)
LEMMA JoinedOnly ==
    ASSUME NEW w \in Seq(Frame), NEW v \in Seq(Frame), NEW kinds,
           Only(w, kinds), Only(v, kinds)
    PROVE  Only(w \o v, kinds)
<1> SUFFICES ASSUME NEW k \in 1..Len(w \o v) PROVE (w \o v)[k].kind \in kinds
  BY DEF Only
<1>1. \/ k \in 1..Len(w) /\ (w \o v)[k] = w[k]
      \/ k - Len(w) \in 1..Len(v) /\ (w \o v)[k] = v[k - Len(w)]
  OBVIOUS
<1> QED BY <1>1 DEF Only

\* What is sent again are stanzas of the queue.
LEMMA RawFrames ==
    ASSUME NEW e \in End, NEW h \in Nat
    PROVE  Raw(ToResend(e, h)) \in Seq(Frame) /\ Only(Raw(ToResend(e, h)), {"stanza"})
<1> DEFINE ids == ToResend(e, h)
           len == Len(e.unacked)
           start == Clamp(h - (e.outCount - len), len)
<1>1. e.unacked \in Seq(Nat) /\ len \in Nat /\ e.outCount \in Nat
  BY DEF End
<1>2. ids \in Seq(Nat)
  <2>1. start \in 0..len
    BY <1>1 DEF Clamp
  <2>2. ids = <<>> \/ ids = SubSeq(e.unacked, start + 1, len)
    BY DEF ToResend
  <2> HIDE DEF start
  <2>3. SubSeq(e.unacked, start + 1, len) \in Seq(Nat)
    BY <1>1, <2>1
  <2> HIDE DEF ids, len
  <2>4. <<>> \in Seq(Nat)
    OBVIOUS
  <2> QED BY <2>2, <2>3, <2>4
<1> HIDE DEF ids
<1>3. \A i \in 1..Len(ids) : /\ F("stanza", ids[i]) \in Frame
                             /\ F("stanza", ids[i]).kind = "stanza"
  BY <1>2 DEF F, Frame, Kinds
<1>4. Len(ids) \in Nat
  BY <1>2
<1> DEFINE r == [i \in 1..Len(ids) |-> F("stanza", ids[i])]
<1>5. r \in Seq(Frame) /\ Len(r) = Len(ids)
  BY <1>3, <1>4
<1>6. \A i \in 1..Len(r) : r[i].kind = "stanza"
  BY <1>3, <1>5
<1> QED BY <1>5, <1>6 DEF Raw, Only, ids

\* An acknowledgement adds nothing to a queue.
LEMMA AckedSubset ==
    ASSUME NEW e \in End, NEW h \in Nat
    PROVE  Queued(Acked(e, h).unacked) \subseteq Queued(e.unacked)
<1> DEFINE q == e.unacked
           z == Acked(e, h).unacked
<1>1. q \in Seq(Nat) /\ z \in Seq(Nat)
  BY AckedEnd DEF End
<1>2. Len(z) <= Len(q) /\ \A j \in 1..Len(z) : z[j] = q[Len(q) - Len(z) + j]
  BY AckedTail
<1> HIDE DEF q, z
<1>3. ASSUME NEW j \in 1..Len(z) PROVE \E i \in 1..Len(q) : q[i] = z[j]
  <2>1. Len(q) - Len(z) + j \in 1..Len(q)
    BY <1>1, <1>2
  <2> QED BY <1>2, <2>1
<1>4. DOMAIN q = 1..Len(q) /\ DOMAIN z = 1..Len(z)
  BY <1>1
<1> QED BY <1>3, <1>4 DEF Queued, q, z

\* A stanza that is read is counted and handed on.
LEMMA ReceiveStep ==
    ASSUME IInv, NEW s \in Node, ReceiveStanza(s)
    PROVE  IInv'
<1> DEFINE p == Peer(s)
           f == Head(wire[s])
           e == Received(stream[s])
           fr == OnStanza(e)
<1>0. Typed /\ (\A m \in Node : Books(m)) /\ (Fresh \/ Quiet)
  BY DEF IInv
<1>1. p \in Node /\ p # s /\ Peer(s) = p /\ Peer(p) = s /\ \A m \in Node : m = s \/ m = p
  BY PeerOfNode
<1>2. /\ stream[s] \in End /\ stream[p] \in End /\ wire[p] \in Seq(Frame)
      /\ wire[s] \in Seq(Frame) /\ sent[s] \in 0..MaxStanzas /\ sent[p] \in 0..MaxStanzas
      /\ got[s] \in [Ids -> Nat] /\ wire[s] # <<>> /\ f.kind = "stanza"
      /\ stream[s].open
  BY <1>0, <1>1 DEF Typed, ReceiveStanza
<1>nat. sent[s] \in Nat /\ sent[p] \in Nat
  BY <1>2, ResumptionAssumption
<1>3. f \in Frame /\ f.n \in Nat
  BY <1>2, Popped DEF Frame
<1>4. /\ e \in End /\ e.outCount = stream[s].outCount /\ e.inCount = stream[s].inCount + 1
      /\ e.open = stream[s].open /\ e.unacked = stream[s].unacked
      /\ e.smEnabled = stream[s].smEnabled
  <2>1. e.smEnabled = stream[s].smEnabled
    BY <1>2 DEF Received, End
  <2> QED BY <2>1, <1>2, ReceivedEnd
<1>5. fr \in {<<>>, <<R>>, <<R, R>>} /\ (~e.smEnabled => fr = <<>>)
  <2>1. WithRequest(e, R) \in {<<R>>, <<R, R>>}
    BY <1>4, RIsFrame, WithRequestFrames
  <2> QED BY <2>1 DEF OnStanza
<1>6. /\ stream' = [stream EXCEPT ![s] = e]
      /\ got' = [got EXCEPT ![s][f.n] = @ + 1]
      /\ wire' = [wire EXCEPT ![s] = Tail(@), ![p] = @ \o Travels(s, fr)]
      /\ UNCHANGED <<closing, saved, hasAddr, timer, links, up, sent, agreed, dropped>>
  BY DEF ReceiveStanza, dialling
<1> HIDE DEF p, f, e, fr
<1>7. fr \in Seq(Frame)
  <2>1. <<>> \in Seq(Frame) /\ <<R>> \in Seq(Frame) /\ <<R, R>> \in Seq(Frame)
    BY RIsFrame
  <2> QED BY <1>5, <2>1
<1>8. /\ wire' \in [Node -> Seq(Frame)] /\ wire'[s] = Tail(wire[s])
      /\ wire'[p] = wire[p] \o Travels(s, fr)
      /\ (~up \/ ~stream[p].open) => wire'[p] = wire[p]
  BY <1>0, <1>1, <1>2, <1>6, <1>7, ReadWires
<1>9. Extends(wire[p], wire'[p], R)
  <2>1. wire[p] \in Seq(Frame) /\ R \in Frame /\ fr \in {<<>>, <<R>>, <<R, R>>}
    BY <1>2, <1>5, RIsFrame
  <2>2. Extends(wire[p], wire[p] \o Travels(s, fr), R)
    BY <2>1, TravelsFrames
  <2> QED BY <2>2, <1>8
<1>10. stream' \in [Node -> End] /\ stream'[s] = e /\ stream'[p] = stream[p]
  BY <1>0, <1>1, <1>4, <1>6 DEF Typed
<1>11. /\ got' \in [Node -> [Ids -> Nat]] /\ got'[p] = got[p]
       /\ \A id \in Ids : got[s][id] > 0 => got'[s][id] > 0
       /\ f.n \in Ids => got'[s][f.n] > 0
  <2> DEFINE g == [got[s] EXCEPT ![f.n] = @ + 1]
  <2> DEFINE a == got[s]
             i == f.n
  <2>0. a \in [Ids -> Nat] /\ g = [a EXCEPT ![i] = @ + 1]
    BY <1>2
  <2> HIDE DEF a, i, g
  <2>a. /\ g \in [Ids -> Nat]
        /\ \A id \in Ids : a[id] > 0 => g[id] > 0
        /\ i \in Ids => g[i] > 0
    <3>1. CASE i \in Ids
      <4>1. a[i] + 1 \in Nat /\ a[i] + 1 > 0
        BY <2>0, <3>1
      <4> QED BY <2>0, <3>1, <4>1
    <3>2. CASE i \notin Ids
      <4>1. g = a
        BY <2>0, <3>2
      <4> QED BY <2>0, <3>2, <4>1
    <3> QED BY <3>1, <3>2
  <2>1. g \in [Ids -> Nat]
    BY <2>a
  <2>2. /\ \A id \in Ids : got[s][id] > 0 => g[id] > 0
        /\ f.n \in Ids => g[f.n] > 0
    BY <2>a DEF a, i
  <2>3. got' = [got EXCEPT ![s] = g]
    BY <1>0, <1>6 DEF Typed, g
  <2>4. got' \in [Node -> [Ids -> Nat]] /\ got'[s] = g /\ got'[p] = got[p]
    BY <1>0, <1>1, <2>1, <2>3 DEF Typed
  <2> QED BY <2>2, <2>4
<1>12. Typed'
  BY <1>0, <1>6, <1>8, <1>10, <1>11 DEF Typed
<1>13. \A m \in Node : 1..sent[m] \subseteq Ids
  BY <1>0, ResumptionAssumption DEF Typed, Ids
<1>14. up = TRUE
  BY <1>0, <1>2 DEF Books, Typed
<1>15. ASSUME NEW m \in Node PROVE Books(m)'
  <2>1. Held(m)' = Held(m)
    BY <1>1, <1>4, <1>6, <1>10 DEF Held, Kept
  <2>2. Undelivered(m)' \subseteq Undelivered(m)
    <3> SUFFICES ASSUME NEW id \in 1..sent[m], got'[Peer(m)][id] = 0
                 PROVE  got[Peer(m)][id] = 0
      BY <1>6 DEF Undelivered
    <3>1. CASE m = s
      BY <3>1, <1>1, <1>11
    <3>2. CASE m = p
      <4>1. id \in Ids /\ got[s][id] \in Nat /\ got'[s][id] = 0
        BY <3>2, <1>1, <1>2, <1>13
      <4>2. got[s][id] > 0 => got'[s][id] > 0
        BY <4>1, <1>11
      <4> QED BY <3>2, <4>1, <4>2, <1>1
    <3> QED BY <3>1, <3>2, <1>1
  <2>3. /\ Books(m) /\ saved' = saved /\ hasAddr' = hasAddr /\ up' = up /\ sent' = sent
        /\ stream'[m].open = stream[m].open
        /\ stream[m].open \/ stream'[m] = stream[m]
    BY <1>0, <1>1, <1>2, <1>4, <1>6, <1>10
  <2>4. ~stream[m].open => wire'[m] = <<>>
    BY <1>1, <1>2, <1>8, <2>3 DEF Books
  <2>5. Held(m)' \subseteq 1..sent'[m] /\ Undelivered(m)' \subseteq Held(m)'
    BY <2>1, <2>2, <2>3 DEF Books
  <2> QED BY <2>3, <2>4, <2>5, <1>14, BooksStep
<1>16. CASE Fresh
  <2>1. ASSUME NEW m \in Node PROVE Only(wire'[m], Kinds \ Resumptions)
    <3> DEFINE kinds == Kinds \ Resumptions
    <3>1. Only(wire[s], kinds) /\ Only(wire[p], kinds) /\ "r" \in kinds
      BY <1>1, <1>16 DEF Fresh, Kinds, Resumptions
    <3> HIDE DEF kinds
    <3>2. Only(wire'[p], kinds)
      BY <1>2, <1>9, <3>1, RIsFrame, PushedOnly
    <3>3. Only(wire'[s], kinds)
      BY <1>2, <1>8, <3>1, TailOnly
    <3> QED BY <1>1, <3>2, <3>3 DEF kinds
  <2>2. FreshEnd(s)'
    <3>1. Fits(stream[s], stream[p], wire[s], wire[p], sent[s], got[p], up)
      BY <1>1, <1>2, <1>16 DEF Fresh, FreshEnd
    <3>2. R \in Frame /\ R.kind # "stanza"
      BY RIsFrame
    <3>3. Fits(e, stream[p], Tail(wire[s]), wire'[p], sent[s], got[p], up)
      <4>1. /\ stream[s] \in End /\ stream[p] \in End /\ wire[s] \in Seq(Frame)
            /\ wire[p] \in Seq(Frame) /\ wire[s] # <<>> /\ e \in End
            /\ e.outCount = stream[s].outCount /\ e.unacked = stream[s].unacked
        BY <1>2, <1>4
      <4> QED BY <1>9, <1>nat, <3>1, <3>2, <4>1, FitsReads
    <3> QED BY <1>1, <1>6, <1>8, <1>10, <1>11, <3>3 DEF FreshEnd
  <2>3. ASSUME stream'[p].open PROVE FreshEnd(p)'
    <3>1. Fits(stream[p], stream[s], wire[p], wire[s], sent[p], got[s], TRUE)
      BY <2>3, <1>1, <1>10, <1>14, <1>16 DEF Fresh, FreshEnd
    <3>2. /\ \A id \in 1..sent[p] : got[s][id] > 0 => got'[s][id] > 0
          /\ f.n \in 1..sent[p] => got'[s][f.n] > 0
      BY <1>1, <1>11, <1>13
    <3>3. Fits(stream[p], e, wire'[p], Tail(wire[s]), sent[p], got'[s], TRUE)
      <4>1. /\ stream[s] \in End /\ stream[p] \in End /\ wire[s] \in Seq(Frame)
            /\ wire[p] \in Seq(Frame) /\ wire[s] # <<>> /\ e \in End
            /\ e.inCount = stream[s].inCount + 1 /\ e.open = stream[s].open
            /\ stream[s].open
        BY <1>2, <1>4
      <4>2. Head(wire[s]).kind = "stanza" /\ Head(wire[s]).n = f.n
        BY <1>2 DEF f
      <4>3. Head(wire[s]).n \in 1..sent[p] => got'[s][Head(wire[s]).n] > 0
        BY <3>2, <4>2
      <4> QED BY <1>9, <1>nat, <3>1, <3>2, <4>1, <4>2, <4>3, FitsPeerReceives
    <3> QED BY <1>1, <1>6, <1>8, <1>10, <1>14, <3>3 DEF FreshEnd
  <2>4. Fresh'
    BY <1>1, <2>1, <2>2, <2>3 DEF Fresh
  <2> QED BY <1>12, <1>15, <2>4 DEF IInv
<1>17. CASE Quiet
  <2>1. ~e.smEnabled /\ ~stream[p].smEnabled
    BY <1>1, <1>4, <1>17 DEF Quiet
  <2>2. wire'[p] = wire[p]
    <3>1. Travels(s, fr) = <<>>
      BY <1>5, <2>1 DEF Travels
    <3>2. wire[p] \o <<>> = wire[p]
      BY <1>2
    <3> QED BY <3>1, <3>2, <1>8
  <2>3. Only(wire'[s], Resumptions \union {"stanza"})
    <3>1. Only(wire[s], Resumptions \union {"stanza"})
      BY <1>17 DEF Quiet
    <3> QED BY <3>1, <1>2, <1>8, TailOnly
  <2>4. Quiet'
    BY <1>1, <1>10, <1>17, <2>1, <2>2, <2>3 DEF Quiet
  <2> QED BY <1>12, <1>15, <2>4 DEF IInv
<1> QED BY <1>0, <1>16, <1>17

\* A stream management element is handled: none of them loses a stanza.
LEMMA SmStep ==
    ASSUME IInv, NEW s \in Node, HandleSmElement(s)
    PROVE  IInv'
<1> DEFINE p == Peer(s)
           f == Head(wire[s])
           d == stream[s]
           e == AfterSm(d, f)
           fr == SmReply(e, f)
<1>0. Typed /\ (\A m \in Node : Books(m)) /\ (Fresh \/ Quiet)
  BY DEF IInv
<1>1. p \in Node /\ p # s /\ Peer(s) = p /\ Peer(p) = s /\ \A m \in Node : m = s \/ m = p
  BY PeerOfNode
<1>2. /\ d \in End /\ stream[p] \in End /\ wire[p] \in Seq(Frame)
      /\ wire[s] \in Seq(Frame) /\ sent[s] \in 0..MaxStanzas /\ sent[p] \in 0..MaxStanzas
      /\ wire[s] # <<>> /\ f.kind # "stanza" /\ d.open
  BY <1>0, <1>1 DEF Typed, HandleSmElement
<1>3. f \in Frame /\ f.n \in Nat /\ f.kind \in Kinds
  BY <1>2, Popped DEF Frame
<1>4. /\ e \in End /\ e.outCount = d.outCount /\ e.inCount = d.inCount /\ e.open = d.open
      /\ e.unacked = d.unacked \/ (f.kind = "a" /\ e = Acked(d, f.n))
  BY <1>2, <1>3, AfterSmEnd
<1>5. sent[s] \in Nat /\ sent[p] \in Nat
  BY <1>2, ResumptionAssumption
<1>6. /\ stream' = [stream EXCEPT ![s] = e]
      /\ agreed' = [agreed EXCEPT ![s] =
                      IF f.kind \in {"enabled", "resumed"} THEN f.kind ELSE @]
      /\ wire' = [wire EXCEPT ![s] = Tail(@), ![p] = @ \o Travels(s, fr)]
      /\ UNCHANGED <<closing, saved, hasAddr, timer, links, up, sent, got, dropped>>
  BY DEF HandleSmElement, dialling
<1>head. f = Head(wire[s]) /\ f = wire[s][1] /\ 1 \in 1..Len(wire[s])
  BY <1>2, Popped
<1>end. e = AfterSm(d, f) /\ d = stream[s] /\ fr = SmReply(e, f)
  OBVIOUS
<1> HIDE DEF p, f, d, e, fr
<1>7. /\ stream' \in [Node -> End] /\ stream'[s] = e /\ stream'[p] = stream[p]
      /\ agreed' \in [Node -> {"no", "enabled", "resumed"}]
  BY <1>0, <1>1, <1>4, <1>6 DEF Typed
<1>8. up = TRUE
  BY <1>0, <1>2 DEF Books, Typed
<1>9. ASSUME wire' \in [Node -> Seq(Frame)]
      PROVE  Typed'
  BY <1>0, <1>6, <1>7, <1>9 DEF Typed
<1>10. ASSUME ~stream[p].open => wire'[p] = wire[p],
              \A id \in Undelivered(s) : id \in Queued(d.unacked) => id \in Queued(e.unacked),
              NEW m \in Node
       PROVE  Books(m)'
  <2>1. Undelivered(m)' = Undelivered(m)
    BY <1>6 DEF Undelivered
  <2>2. Queued(stream'[m].unacked) \subseteq Queued(stream[m].unacked)
    <3>1. CASE m = p
      BY <3>1, <1>7
    <3>2. CASE m = s
      <4>1. Queued(Acked(d, f.n).unacked) \subseteq Queued(d.unacked)
        BY <1>2, <1>3, AckedSubset
      <4>2. Queued(e.unacked) \subseteq Queued(d.unacked)
        BY <4>1, <1>4
      <4> QED BY <3>2, <4>2, <1>7, <1>end
    <3> QED BY <3>1, <3>2, <1>1
  <2>3. Held(m)' = Queued(stream'[m].unacked) \union QueuedIn(saved[m])
                     \union QueuedInAll(closing[m]) \union dropped[m]
    BY <1>6 DEF Held, Kept, QueuedInAll
  <2>4. Held(m)' \subseteq Held(m)
    BY <2>2, <2>3, HeldParts
  <2>5. \A id \in Undelivered(m) : id \in Queued(stream[m].unacked)
                                     => id \in Queued(stream'[m].unacked)
    <3>1. CASE m = p
      BY <3>1, <1>7
    <3>2. CASE m = s
      BY <3>2, <1>7, <1>10, <1>end
    <3> QED BY <3>1, <3>2, <1>1
  <2>6. Undelivered(m) \subseteq Held(m) /\ Held(m) \subseteq 1..sent[m]
    BY <1>0 DEF Books
  <2>7. Undelivered(m) \subseteq Held(m)'
    BY <2>3, <2>5, <2>6, HeldParts
  <2>8. /\ Books(m) /\ saved' = saved /\ hasAddr' = hasAddr /\ up' = up /\ sent' = sent
        /\ stream'[m].open = stream[m].open
        /\ stream[m].open \/ stream'[m] = stream[m]
    BY <1>0, <1>1, <1>2, <1>4, <1>6, <1>7, <1>end
  <2>9. ~stream[m].open => wire'[m] = <<>>
    BY <1>1, <1>2, <1>10, <1>end, <2>8 DEF Books
  <2>10. Held(m)' \subseteq 1..sent'[m] /\ Undelivered(m)' \subseteq Held(m)'
    BY <2>1, <2>4, <2>6, <2>7, <2>8
  <2> QED BY <2>8, <2>9, <2>10, <1>8, BooksStep
<1>11. CASE Fresh
  <2>1. f.kind \notin {"stanza", "resume", "resumed"}
    <3>1. Only(wire[s], Kinds \ Resumptions)
      BY <1>11 DEF Fresh
    <3> QED BY <3>1, <1>2, <1>head DEF Only, Resumptions
  <2>2. PICK g \in Frame : /\ g.kind \notin {"stanza", "resume", "resumed"}
                           /\ g.kind = "a" => g.n = e.inCount
                           /\ fr \in Replies(g)
    BY <2>1, <1>3, <1>4, <1>end, SmReplyFrames
  <2>3. fr \in Seq(Frame) /\ fr \in {<<>>, <<g>>, <<g, R>>}
    <3>1. <<>> \in Seq(Frame) /\ <<g>> \in Seq(Frame) /\ <<g, R>> \in Seq(Frame)
      BY RIsFrame
    <3> QED BY <2>2, <3>1 DEF Replies
  <2>4. /\ wire' \in [Node -> Seq(Frame)] /\ wire'[s] = Tail(wire[s])
        /\ wire'[p] = wire[p] \o Travels(s, fr)
        /\ (~up \/ ~stream[p].open) => wire'[p] = wire[p]
    BY <1>0, <1>1, <1>2, <1>6, <2>3, ReadWires
  <2>5. Extends(wire[p], wire'[p], g)
    <3>1. Extends(wire[p], wire[p] \o Travels(s, fr), g)
      BY <1>2, <2>3, TravelsFrames
    <3> QED BY <3>1, <2>4
  <2>6. Fits(d, stream[p], wire[s], wire[p], sent[s], got[p], up)
    BY <1>1, <1>2, <1>11, <1>end DEF Fresh, FreshEnd
  <2>7. ASSUME NEW m \in Node PROVE Only(wire'[m], Kinds \ Resumptions)
    <3> DEFINE kinds == Kinds \ Resumptions
    <3>1. Only(wire[s], kinds) /\ Only(wire[p], kinds) /\ "r" \in kinds /\ g.kind \in kinds
      BY <1>1, <1>11, <2>2 DEF Fresh, Kinds, Resumptions, Frame
    <3> HIDE DEF kinds
    <3>2. Only(wire'[p], kinds)
      BY <1>2, <2>5, <3>1, PushedOnly
    <3>3. Only(wire'[s], kinds)
      BY <1>2, <2>4, <3>1, TailOnly
    <3> QED BY <1>1, <3>2, <3>3 DEF kinds
  <2>8. FreshEnd(s)'
    <3>1. e.unacked = d.unacked \/ \E h \in Nat : e = Acked(d, h)
      BY <1>3, <1>4
    <3>2. Fits(e, stream[p], Tail(wire[s]), wire'[p], sent[s], got[p], up)
      BY <1>2, <1>4, <1>5, <2>2, <2>5, <2>6, <3>1, FitsReads
    <3> QED BY <1>1, <1>6, <1>7, <2>4, <3>2 DEF FreshEnd
  <2>9. ASSUME stream'[p].open PROVE FreshEnd(p)'
    <3>1. Fits(stream[p], d, wire[p], wire[s], sent[p], got[s], up)
      BY <2>9, <1>1, <1>7, <1>11, <1>end DEF Fresh, FreshEnd
    <3>2. /\ e.inCount = d.inCount /\ e.open = d.open /\ d.open
          /\ g.kind = "a" => g.n = d.inCount
      BY <1>2, <1>4, <2>2
    <3>3. wire[s] # <<>> /\ Head(wire[s]).kind # "stanza"
      BY <1>2, <1>head
    <3>4. Fits(stream[p], e, wire'[p], Tail(wire[s]), sent[p], got[s], up)
      BY <1>2, <1>4, <1>5, <2>5, <3>1, <3>2, <3>3, FitsPeerPushes
    <3> QED BY <1>1, <1>6, <1>7, <2>4, <3>4 DEF FreshEnd
  <2>10. ASSUME NEW id \in Undelivered(s), id \in Queued(d.unacked)
         PROVE  id \in Queued(e.unacked)
    <3>1. CASE f.kind = "a" /\ e = Acked(d, f.n)
      <4>1. QueueIsTail(d, sent[s]) /\ Arrived(d, sent[s], got[p], f.n)
        BY <2>6, <3>1, <1>head DEF Fits, CountsAreHonest
      <4>2. ~(got[p][id] > 0)
        BY <1>1 DEF Undelivered
      <4> QED BY <1>2, <1>3, <1>5, <2>10, <3>1, <4>1, <4>2, AckedArrived
    <3> QED BY <3>1, <1>4, <2>10
  <2>11. Fresh'
    BY <1>1, <2>7, <2>8, <2>9 DEF Fresh
  <2> QED BY <1>9, <1>10, <2>4, <2>10, <2>11 DEF IInv
<1>12. CASE Quiet
  <2>1. ~d.smEnabled /\ ~stream[p].smEnabled /\ f.kind \in Resumptions
    <3>1. Only(wire[s], Resumptions \union {"stanza"})
      BY <1>12 DEF Quiet
    <3>2. f.kind \in Resumptions
      BY <3>1, <1>2, <1>head DEF Only
    <3> QED BY <3>2, <1>1, <1>12, <1>end DEF Quiet
  <2>2. e = d
    BY <2>1, <1>end DEF AfterSm, Resumptions
  <2> DEFINE raw == Raw(ToResend(e, f.n))
             kinds == Resumptions \union {"stanza"}
             g == F("resumed", e.inCount)
  <2>3. raw \in Seq(Frame) /\ Only(raw, {"stanza"}) /\ g \in Frame /\ g.kind \in Resumptions
    BY <1>3, <1>4, RawFrames DEF F, Frame, Kinds, End, Resumptions
  <2>4. fr = <<g>> \o raw \/ fr = raw
    <3>1. WithRequest(e, g) = <<g>>
      BY <2>1, <2>2 DEF WithRequest
    <3> QED BY <2>1, <3>1, <1>end DEF SmReply, Resumptions
  <2> HIDE DEF raw, g
  <2>5. fr \in Seq(Frame) /\ Only(fr, kinds)
    <3>1. <<g>> \in Seq(Frame) /\ Only(<<g>>, kinds) /\ Only(raw, kinds)
      BY <2>3 DEF Only
    <3> HIDE DEF kinds
    <3> DEFINE w == <<g>>
    <3> HIDE DEF w
    <3>2. w \in Seq(Frame) /\ Only(w, kinds)
      BY <3>1 DEF w
    <3>3. w \o raw \in Seq(Frame)
      BY <2>3, <3>2
    <3>4. Only(w \o raw, kinds)
      BY <2>3, <3>1, <3>2, JoinedOnly
    <3>5. fr = w \o raw \/ fr = raw
      BY <2>4 DEF w
    <3> QED BY <2>3, <3>1, <3>3, <3>4, <3>5
  <2> HIDE DEF kinds
  <2>6. /\ wire' \in [Node -> Seq(Frame)] /\ wire'[s] = Tail(wire[s])
        /\ wire'[p] = wire[p] \o Travels(s, fr)
        /\ (~up \/ ~stream[p].open) => wire'[p] = wire[p]
    BY <1>0, <1>1, <1>2, <1>6, <2>5, ReadWires
  <2>7. Only(wire[s], kinds) /\ Only(wire[p], kinds)
    BY <1>1, <1>12 DEF Quiet, kinds
  <2>8. Only(wire'[p], kinds)
    <3>1. Travels(s, fr) \in Seq(Frame) /\ Only(Travels(s, fr), kinds)
      <4>1. <<>> \in Seq(Frame) /\ Only(<<>>, kinds)
        BY DEF Only
      <4> QED BY <4>1, <2>5 DEF Travels
    <3> QED BY <1>2, <2>6, <2>7, <3>1, JoinedOnly
  <2>9. Only(wire'[s], kinds)
    BY <1>2, <2>6, <2>7, TailOnly
  <2>10. Quiet'
    <3>1. ~stream'[s].smEnabled /\ ~stream'[p].smEnabled
      BY <1>7, <2>1, <2>2
    <3> QED BY <1>1, <2>8, <2>9, <3>1 DEF Quiet, kinds
  <2> QED BY <1>9, <1>10, <2>2, <2>6, <2>10 DEF IInv
<1> QED BY <1>0, <1>11, <1>12

-----------------------------------------------------------------------------
(* The invariant of the specification *)

(* Every step keeps the invariant, when a node exists that has no address of its peer. *)
LEMMA NextIInv ==
    ASSUME Diallers # Node, IInv, [Next]_vars
    PROVE  IInv'
<1>1. ASSUME NEW n \in Node, Dial(n) PROVE IInv'
  <2> DEFINE addr == [hasAddr EXCEPT ![n] = TRUE]
  <2>1. Register(addr, timer) /\ n \in Diallers
    BY <1>1 DEF Dial
  <2>2. hasAddr \in [Node -> BOOLEAN] /\ timer \in [Node -> BOOLEAN]
    BY DEF IInv, Typed
  <2>3. addr \in [Node -> BOOLEAN] /\ \A m \in Node : addr[m] => m \in Diallers
    BY <2>1, <2>2 DEF IInv, Books
  <2> HIDE DEF addr
  <2> QED BY <2>1, <2>2, <2>3, RegisterStep
<1>2. ASSUME NEW n \in Node, Reconnect(n) PROVE IInv'
  <2> DEFINE due == [timer EXCEPT ![n] = FALSE]
  <2>1. Register(hasAddr, due)
    BY <1>2 DEF Reconnect
  <2>2. hasAddr \in [Node -> BOOLEAN] /\ due \in [Node -> BOOLEAN]
    BY DEF IInv, Typed
  <2>3. \A m \in Node : hasAddr[m] => m \in Diallers
    BY DEF IInv, Books
  <2> HIDE DEF due
  <2> QED BY <2>1, <2>2, <2>3, RegisterStep
<1>3. CASE UNCHANGED vars
  <2>1. UNCHANGED <<stream, closing, saved, hasAddr, timer, links, wire, up, sent, got,
                    agreed, dropped>>
    BY <1>3 DEF vars, sessions, dialling, history
  <2>2. Typed' /\ (Fresh \/ Quiet)'
    BY <2>1 DEF IInv, Typed, Fresh, Quiet, FreshEnd
  <2>3. \A n \in Node : Books(n)'
    BY <2>1 DEF IInv, Books, Held, Kept, Undelivered
  <2> QED BY <2>2, <2>3 DEF IInv
<1> QED BY <1>1, <1>2, <1>3, ClosedStep, ReplacedStep, SendStep, ReceiveStep, SmStep, BreakStep
     DEF Next

\* With one node that never dials, the queues, the counts and what is in transit
\* stay in step on a new stream, and a resumed one acknowledges nothing.
THEOREM InductiveInvariant == ASSUME Diallers # Node PROVE Spec => []IInv
<1>1. IInv /\ [Next]_vars => IInv'
  BY NextIInv
<1> QED BY InitIInv, <1>1, PTL DEF Spec

\* Every value stays of its type; of sessions, at most one is stored.
THEOREM TypeCorrect == ASSUME Diallers # Node PROVE Spec => []TypeOK
<1>1. IInv => TypeOK
  <2> SUFFICES ASSUME IInv PROVE TypeOK
    OBVIOUS
  <2>1. ASSUME NEW n \in Node
        PROVE  saved[n] \subseteq Session /\ Cardinality(saved[n]) <= 1
    <3>1. saved[n] = {} \/ \E s \in Session : saved[n] = {s}
      BY DEF IInv, Books
    <3>2. CASE saved[n] = {}
      BY <3>2, FS_EmptySet
    <3>3. CASE \E s \in Session : saved[n] = {s}
      BY <3>3, FS_Singleton
    <3> QED BY <3>1, <3>2, <3>3
  <2>2. dropped \in [Node -> SUBSET Ids]
    <3>1. ASSUME NEW n \in Node PROVE dropped[n] \subseteq Ids
      <4>1. dropped[n] \subseteq 1..sent[n] /\ sent[n] \in 0..MaxStanzas
        BY DEF IInv, Typed, Books, Held
      <4> QED BY <4>1, ResumptionAssumption DEF Ids
    <3> QED BY <3>1 DEF IInv, Typed
  <2> QED BY <2>1, <2>2 DEF IInv, Typed, TypeOK
<1> QED BY <1>1, InductiveInvariant, PTL

\* Nothing a node has sent is forgotten while its session lives.
THEOREM NothingLost == ASSUME Diallers # Node PROVE Spec => []LostOnlyWithItsSession
<1>1. IInv => LostOnlyWithItsSession
  BY DEF IInv, Books, Held, LostOnlyWithItsSession
<1> QED BY <1>1, InductiveInvariant, PTL
=============================================================================
