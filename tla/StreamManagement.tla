-------------------------- MODULE StreamManagement --------------------------
(***************************************************************************)
(* Two XmppStreams joined by one libp2p transport, from the moment both    *)
(* are registered until both are closed (src/core/xmpp-stream.ts).  Side   *)
(* "dialler" opened the stream and asks for stream management; side        *)
(* "responder" accepted it.  Each direction of the transport delivers in   *)
(* order until the transport breaks, when everything in flight is lost.    *)
(***************************************************************************)
EXTENDS XmppStream

CONSTANT MaxStanzas       \* bound: stanzas each side sends in a behaviour

ASSUME MaxStanzasAssumption == MaxStanzas \in Nat

Side == {"dialler", "responder"}
Peer(s) == IF s = "dialler" THEN "responder" ELSE "dialler"

VARIABLES
    end,        \* end[s]: the XmppStream of side s
    wire,       \* wire[s]: the frames in flight towards s, oldest first
    up,         \* the transport still carries frames
    delivered   \* delivered[s]: the stanzas s handed to its 'element' handler

vars == <<end, wire, up, delivered>>

TypeOK ==
    /\ end \in [Side -> End]
    /\ wire \in [Side -> Seq(Frame)]
    /\ up \in BOOLEAN
    /\ delivered \in [Side -> Seq(Nat)]

\* registerStream has just sent <enable/> on the dialler's new stream.
Init ==
    /\ end = [s \in Side |-> NewStream]
    /\ wire = [s \in Side |-> IF s = "responder" THEN <<F("enable", 0)>> ELSE <<>>]
    /\ up = TRUE
    /\ delivered = [s \in Side |-> <<>>]

\* Frames pushed by s travel only while the transport works and the peer reads.
Travels(s, frames) == IF up /\ end[Peer(s)].open THEN frames ELSE <<>>

\* send(stanza): the next stanza of s; MaxStanzas bounds the model.
SendStanza(s) ==
    LET id == end[s].outCount + 1
        e  == Counted(end[s], id)
    IN  /\ end[s].open
        /\ id <= MaxStanzas
        /\ end' = [end EXCEPT ![s] = e]
        /\ wire' = [wire EXCEPT ![Peer(s)] =
                        @ \o Travels(s, WithRequest(e, F("stanza", id)))]
        /\ UNCHANGED <<up, delivered>>

\* The parser of s emits the stanza at the head of its inbound data.
ReceiveStanza(s) ==
    LET f == Head(wire[s])
        e == Received(end[s])
    IN  /\ end[s].open
        /\ wire[s] # <<>>
        /\ f.kind = "stanza"
        /\ end' = [end EXCEPT ![s] = e]
        /\ wire' = [wire EXCEPT ![s] = Tail(@),
                                ![Peer(s)] = @ \o Travels(s, OnStanza(e))]
        /\ delivered' = [delivered EXCEPT ![s] = Append(@, f.n)]
        /\ UNCHANGED up

\* The parser of s emits a stream management element.
HandleSmElement(s) ==
    LET f == Head(wire[s])
        e == AfterSm(end[s], f)
    IN  /\ end[s].open
        /\ wire[s] # <<>>
        /\ f.kind # "stanza"
        /\ end' = [end EXCEPT ![s] = e]
        /\ wire' = [wire EXCEPT ![s] = Tail(@),
                                ![Peer(s)] = @ \o Travels(s, SmReply(e, f))]
        /\ UNCHANGED <<up, delivered>>

\* The transport fails: what was in flight is gone, neither side knows yet.
Break ==
    /\ up
    /\ up' = FALSE
    /\ wire' = [s \in Side |-> <<>>]
    /\ UNCHANGED <<end, delivered>>

\* close(), or the end of the inbound data: s reads and sends nothing more.
Close(s) ==
    /\ end[s].open
    /\ end' = [end EXCEPT ![s].open = FALSE]
    /\ wire' = [wire EXCEPT ![s] = <<>>]
    /\ UNCHANGED <<up, delivered>>

Next ==
    \/ \E s \in Side : \/ SendStanza(s)
                       \/ ReceiveStanza(s)
                       \/ HandleSmElement(s)
                       \/ Close(s)
    \/ Break

Spec == Init /\ [][Next]_vars

-----------------------------------------------------------------------------
(* Properties *)

Sent(s) == 1..end[s].outCount

\* The stanzas of s that its peer's handlers have been given.
Got(s) == {delivered[Peer(s)][i] : i \in DOMAIN delivered[Peer(s)]}

\* However the two ends interleave and wherever the transport breaks, a side
\* still queues every stanza its peer has not received: an acknowledgement
\* (Acked) never drops one.  This is what a later resumption resends from.
UnackedCoversUndelivered ==
    \A s \in Side : \A id \in Sent(s) \ Got(s) :
        \E j \in 1..Len(end[s].unacked) : end[s].unacked[j] = id

\* A stream hands its stanzas on once each and in the order they were sent.
InOrder(s) == /\ Len(delivered[s]) = end[s].inCount
              /\ \A i \in 1..Len(delivered[s]) : delivered[s][i] = i
              /\ Len(delivered[s]) <= end[Peer(s)].outCount

ExactlyOnceInOrder == \A s \in Side : InOrder(s)

-----------------------------------------------------------------------------
(* The inductive invariant behind the safety properties *)

\* The queue is the unbroken tail of what s has sent.
QueueIsTail(s) ==
    /\ Len(end[s].unacked) <= end[s].outCount
    /\ \A j \in 1..Len(end[s].unacked) :
          end[s].unacked[j] = end[s].outCount - Len(end[s].unacked) + j

\* What left the queue was counted by the peer.
AckedWasReceived(s) ==
    end[s].outCount - Len(end[s].unacked) <= end[Peer(s)].inCount

\* No acknowledgement in flight towards s is ahead of its sender's count, and
\* nothing but the first <enable/> negotiates: no resumption takes place.
FramesInFlight(s) ==
    \A k \in 1..Len(wire[s]) :
        /\ wire[s][k].kind \notin {"resume", "resumed"}
        /\ wire[s][k].kind = "a" => wire[s][k].n <= end[Peer(s)].inCount

\* The stanzas in flight towards s are ones it lacks, in order, ...
StanzasAhead(s) ==
    \A k \in 1..Len(wire[s]) : wire[s][k].kind = "stanza" =>
        end[s].inCount < wire[s][k].n /\ wire[s][k].n <= end[Peer(s)].outCount

StanzasOrdered(s) ==
    \A j, k \in 1..Len(wire[s]) :
        (j < k /\ wire[s][j].kind = "stanza" /\ wire[s][k].kind = "stanza")
            => wire[s][j].n < wire[s][k].n

\* ... and all of them as long as the transport works and s reads.
StanzasComplete(s) ==
    (up /\ end[s].open) =>
        \A id \in end[s].inCount + 1 .. end[Peer(s)].outCount :
            \E k \in 1..Len(wire[s]) : wire[s][k].kind = "stanza" /\ wire[s][k].n = id

BrokenIsEmpty(s) == ~up => wire[s] = <<>>

IInv ==
    /\ TypeOK
    /\ \A s \in Side : /\ QueueIsTail(s)
                       /\ AckedWasReceived(s)
                       /\ FramesInFlight(s)
                       /\ StanzasAhead(s)
                       /\ StanzasOrdered(s)
                       /\ StanzasComplete(s)
                       /\ BrokenIsEmpty(s)
                       /\ InOrder(s)

-----------------------------------------------------------------------------
(* The promise this implements *)

Held(e) == {e.unacked[j] : j \in 1..Len(e.unacked)}

Promise == INSTANCE ReliableStream WITH
    sent    <- [s \in Side |-> end[s].outCount],
    held    <- [s \in Side |-> Held(end[s])],
    given   <- delivered,
    reading <- [s \in Side |-> end[s].open]

\* Enabling, counting, asking and acknowledging, on a transport that may break
\* at any point, amount to the promise of ReliableStream: stanzas are handed on
\* in order and without gaps, and one is held until the peer was given it.
ImplementsReliableStream == Promise!Spec

-----------------------------------------------------------------------------
(* Liveness *)

\* The event loop goes on reading an open stream whose data has arrived.
\* Nothing obliges a side to send, to close, or the transport to break.
Fairness ==
    \A s \in Side : WF_vars(ReceiveStanza(s)) /\ WF_vars(HandleSmElement(s))

FairSpec == Spec /\ Fairness

Healthy == up /\ \A s \in Side : end[s].open

\* A stanza that was sent is handed to the peer, unless the stream is lost.
SentIsDelivered ==
    \A s \in Side : \A id \in 1..MaxStanzas :
        (id \in Sent(s)) ~> (id \in Got(s) \/ ~Healthy)

AtMultiple(count) == count % AckInterval = 0

\* An <r/> is answered by an <a/>, and by another <r/> when the answering side
\* is itself at a multiple of the interval.  The exchange dies out unless both
\* sides stand at a multiple: two sides that stop sending do fall silent.
AckTrafficDiesOut ==
    \A m, n \in 0..MaxStanzas :
        LET Counts == end["dialler"].outCount = m /\ end["responder"].outCount = n
        IN  ~(AtMultiple(m) /\ AtMultiple(n)) =>
                (Counts ~> (~Healthy \/ ~Counts \/ \A s \in Side : wire[s] = <<>>))
=============================================================================
