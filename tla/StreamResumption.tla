-------------------------- MODULE StreamResumption --------------------------
(***************************************************************************)
(* Two nodes whose XMPP stream is lost and dialled again: how              *)
(* registerStream (src/core/xmpp-node.ts) and XmppReliabilityManager       *)
(* (src/core/xmpp-reliability.ts) carry a stream management session from   *)
(* one XmppStream to the next.  One transport is in use at a time; a new   *)
(* one replaces it at both nodes.                                          *)
(***************************************************************************)
EXTENDS XmppStream, FiniteSets

CONSTANTS
    Diallers,       \* the nodes that may dial; the other only accepts
    MaxStanzas,     \* bound: stanzas each node sends
    MaxLinks        \* bound: transports dialled

Node == {"a", "b"}

ASSUME ResumptionAssumption ==
    Diallers \subseteq Node /\ MaxStanzas \in Nat /\ MaxLinks \in Nat

Peer(n) == IF n = "a" THEN "b" ELSE "a"

VARIABLES
    stream,     \* stream[n]: the entry of `streams` for the peer (open or none)
    closing,    \* closing[n]: replaced streams whose 'close' event is still due
    saved,      \* saved[n]: the stored StreamSession, a set of at most one
    hasAddr,    \* hasAddr[n]: peerAddrs knows how to dial the peer
    timer,      \* timer[n]: a reconnection is scheduled
    wire, up,   \* the current transport, as in StreamManagement
    links,      \* how many transports were dialled
    sent,       \* sent[n]: how many stanzas n has sent
    got,        \* got[n][id]: how often n was handed stanza id of its peer
    agreed,     \* agreed[n]: "enabled" or "resumed" was answered to n's stream
    dropped     \* dropped[n]: stanzas of n whose queue was thrown away

sessions == <<stream, closing, saved>>
dialling == <<hasAddr, timer, links>>
history  == <<sent, got, agreed, dropped>>
vars == <<sessions, dialling, wire, up, history>>

Ids == 1..MaxStanzas
NoStream == [NewStream EXCEPT !.open = FALSE]
Session == [outCount : Nat, inCount : Nat, unacked : Seq(Nat)]

TypeOK ==
    /\ stream \in [Node -> End]
    /\ closing \in [Node -> Seq(End)]
    /\ \A n \in Node : saved[n] \subseteq Session /\ Cardinality(saved[n]) <= 1
    /\ hasAddr \in [Node -> BOOLEAN] /\ timer \in [Node -> BOOLEAN]
    /\ wire \in [Node -> Seq(Frame)] /\ up \in BOOLEAN
    /\ links \in 0..MaxLinks
    /\ sent \in [Node -> 0..MaxStanzas]
    /\ got \in [Node -> [Ids -> Nat]]
    /\ agreed \in [Node -> {"no", "enabled", "resumed"}]
    /\ dropped \in [Node -> SUBSET Ids]

Init ==
    /\ stream = [n \in Node |-> NoStream]
    /\ closing = [n \in Node |-> <<>>]
    /\ saved = [n \in Node |-> {}]
    /\ hasAddr = [n \in Node |-> FALSE] /\ timer = [n \in Node |-> FALSE]
    /\ wire = [n \in Node |-> <<>>] /\ up = FALSE
    /\ links = 0
    /\ sent = [n \in Node |-> 0]
    /\ got = [n \in Node |-> [id \in Ids |-> 0]]
    /\ agreed = [n \in Node |-> "no"]
    /\ dropped = [n \in Node |-> {}]

Queued(q) == {q[i] : i \in DOMAIN q}
QueuedIn(S) == UNION {Queued(s.unacked) : s \in S}

-----------------------------------------------------------------------------
(* registerStream, at the node that dialled and at the one that accepted    *)

\* Slip: the counts are restored without the queue.
RestoredWithoutQueue(n, addr) ==
    IF addr[n] /\ saved[n] # {}
    THEN LET s == CHOOSE s \in saved[n] : TRUE
         IN  [NewStream EXCEPT !.outCount = s.outCount, !.inCount = s.inCount]
    ELSE NewStream

\* A node that has dialled its peer before is taken for the initiator, also
\* of a stream the peer dialled: it restores its session or asks for one.
Restored(n, addr) ==
    IF addr[n] /\ saved[n] # {}
    THEN LET s == CHOOSE s \in saved[n] : TRUE
         IN  [NewStream EXCEPT !.outCount = s.outCount, !.inCount = s.inCount,
                               !.unacked = s.unacked]
    ELSE NewStream

Opening(n, addr) ==
    IF ~addr[n] THEN <<>>
    ELSE IF saved[n] = {} THEN <<F("enable", 0)>>
    ELSE <<F("resume", Restored(n, addr).inCount)>>

\* Both nodes register the new transport.  A stream still registered is
\* closed, which cancels a scheduled reconnection; its event comes later.
Register(addr, due) ==
    /\ links < MaxLinks
    /\ links' = links + 1
    /\ hasAddr' = addr
    /\ closing' = [n \in Node |-> IF stream[n].open
                                  THEN Append(closing[n], [stream[n] EXCEPT !.open = FALSE])
                                  ELSE closing[n]]
    /\ timer' = [n \in Node |-> due[n] /\ ~stream[n].open]
    /\ stream' = [n \in Node |-> Restored(n, addr)]
    /\ saved' = [n \in Node |-> IF addr[n] THEN {} ELSE saved[n]]
    /\ wire' = [n \in Node |-> Opening(Peer(n), addr)]
    /\ up' = TRUE
    /\ agreed' = [n \in Node |-> "no"]
    /\ UNCHANGED <<sent, got, dropped>>

\* getOrCreateStream finds no stream and dials.
Dial(n) ==
    /\ n \in Diallers
    /\ ~stream[n].open
    /\ Register([hasAddr EXCEPT ![n] = TRUE], timer)

\* The reconnection timer fires; it does not look for a live stream.
Reconnect(n) ==
    /\ timer[n]
    /\ hasAddr[n]
    /\ Register(hasAddr, [timer EXCEPT ![n] = FALSE])

-----------------------------------------------------------------------------
(* The 'close' handler                                                      *)

\* Only a stream that stream management was enabled on leaves its session;
\* it replaces a session saved earlier.
SaveSession(n, e) ==
    IF e.smEnabled
    THEN /\ saved' = [saved EXCEPT ![n] =
                {[outCount |-> e.outCount, inCount |-> e.inCount, unacked |-> e.unacked]}]
         /\ dropped' = [dropped EXCEPT ![n] = @ \union QueuedIn(saved[n])]
    ELSE /\ dropped' = [dropped EXCEPT ![n] = @ \union Queued(e.unacked)]
         /\ UNCHANGED saved

\* The registered stream closes: by close(), or at the end of its data.
StreamClosed(n) ==
    /\ stream[n].open
    /\ SaveSession(n, stream[n])
    /\ stream' = [stream EXCEPT ![n] = NoStream]
    /\ timer' = [timer EXCEPT ![n] = @ \/ hasAddr[n]]
    /\ wire' = [wire EXCEPT ![n] = <<>>]
    /\ UNCHANGED <<closing, hasAddr, links, up, sent, got, agreed>>

\* The event of a stream that a newer one has replaced.
ReplacedStreamClosed(n) ==
    /\ closing[n] # <<>>
    /\ SaveSession(n, Head(closing[n]))
    /\ closing' = [closing EXCEPT ![n] = Tail(@)]
    /\ timer' = [timer EXCEPT ![n] = @ \/ hasAddr[n]]
    /\ UNCHANGED <<stream, hasAddr, links, wire, up, sent, got, agreed>>

Break ==
    /\ up
    /\ up' = FALSE
    /\ wire' = [n \in Node |-> <<>>]
    /\ UNCHANGED <<sessions, dialling, history>>

-----------------------------------------------------------------------------
(* Stanzas and stream management elements, as in StreamManagement           *)

Travels(n, frames) == IF up /\ stream[Peer(n)].open THEN frames ELSE <<>>

SendStanza(n) ==
    LET id == sent[n] + 1
        e  == Counted(stream[n], id)
    IN  /\ stream[n].open
        /\ id <= MaxStanzas
        /\ sent' = [sent EXCEPT ![n] = id]
        /\ stream' = [stream EXCEPT ![n] = e]
        /\ wire' = [wire EXCEPT ![Peer(n)] =
                        @ \o Travels(n, WithRequest(e, F("stanza", id)))]
        /\ UNCHANGED <<closing, saved, dialling, up, got, agreed, dropped>>

ReceiveStanza(n) ==
    LET f == Head(wire[n])
        e == Received(stream[n])
    IN  /\ stream[n].open
        /\ wire[n] # <<>>
        /\ f.kind = "stanza"
        /\ stream' = [stream EXCEPT ![n] = e]
        /\ got' = [got EXCEPT ![n][f.n] = @ + 1]
        /\ wire' = [wire EXCEPT ![n] = Tail(@),
                                ![Peer(n)] = @ \o Travels(n, OnStanza(e))]
        /\ UNCHANGED <<closing, saved, dialling, up, sent, agreed, dropped>>

HandleSmElement(n) ==
    LET f == Head(wire[n])
        e == AfterSm(stream[n], f)
    IN  /\ stream[n].open
        /\ wire[n] # <<>>
        /\ f.kind # "stanza"
        /\ stream' = [stream EXCEPT ![n] = e]
        /\ agreed' = [agreed EXCEPT ![n] =
                        IF f.kind \in {"enabled", "resumed"} THEN f.kind ELSE @]
        /\ wire' = [wire EXCEPT ![n] = Tail(@),
                                ![Peer(n)] = @ \o Travels(n, SmReply(e, f))]
        /\ UNCHANGED <<closing, saved, dialling, up, sent, got, dropped>>

Next ==
    \/ \E n \in Node : \/ Dial(n) \/ Reconnect(n)
                       \/ StreamClosed(n) \/ ReplacedStreamClosed(n)
                       \/ SendStanza(n) \/ ReceiveStanza(n) \/ HandleSmElement(n)
    \/ Break

Spec == Init /\ [][Next]_vars
Fairness ==
    \A n \in Node : WF_vars(ReceiveStanza(n)) /\ WF_vars(HandleSmElement(n))
FairSpec == Spec /\ Fairness

-----------------------------------------------------------------------------
(* Properties *)

Undelivered(n) == {id \in 1..sent[n] : got[Peer(n)][id] = 0}

Kept(n) == Queued(stream[n].unacked) \union QueuedIn(saved[n])
             \union UNION {Queued(closing[n][i].unacked) : i \in DOMAIN closing[n]}

\* A stanza that did not arrive is still queued on a stream or in a session,
\* unless its whole queue was thrown away when a stream closed: no count that
\* is exchanged before or after a resumption makes a node forget it.
LostOnlyWithItsSession ==
    \A n \in Node : Undelivered(n) \subseteq Kept(n) \union dropped[n]

\* What a resumed stream carries over reaches the peer, unless that stream is
\* lost or replaced as well.
ResumedIntact(n) == agreed[n] = "resumed" /\ up /\ \A m \in Node : stream[m].open

ResentIsDelivered ==
    \A n \in Node : \A id \in Ids :
        (ResumedIntact(n) /\ id \in Queued(stream[n].unacked))
            ~> (got[Peer(n)][id] > 0 \/ ~ResumedIntact(n))

\* (Reliability manager: "Stores Stream Management session details for a peer
\* to allow resumption after disconnect.")  A stream whose session was agreed,
\* anew or by resumption, leaves it behind when it closes.
AgreedSessionIsSaved ==
    [][\A n \in Node :
        (stream[n].open /\ ~stream'[n].open /\ agreed[n] # "no") => saved'[n] # {}]_vars
=============================================================================
