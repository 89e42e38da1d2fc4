----------------------------- MODULE PeerStreams -----------------------------
(***************************************************************************)
(* The streams one XmppNode keeps to one peer (src/core/xmpp-node.ts):     *)
(* getOrCreateStream, registerStream, the 'close' handler and the          *)
(* reconnection timer.  Dialling awaits the network, so any number of      *)
(* calls, redials and inbound streams may overlap.  What travels on a      *)
(* stream is the subject of StreamManagement.  The maps of the source are  *)
(* keyed by peer and only close() of the node touches two keys; it awaits  *)
(* the streams one after the other and stops nothing that is under way.    *)
(***************************************************************************)
EXTENDS Naturals

CONSTANTS
    Calls,        \* concurrent callers of getOrCreateStream
    Streams,      \* identities of XmppStream objects, used again once closed
    None,         \* no stream
    MaxAttempts,  \* attempts beyond which the delay no longer grows
    MaxRedials    \* bound: reconnection dials in flight at once

ASSUME PeerStreamsAssumption ==
    None \notin Streams /\ MaxAttempts \in Nat /\ MaxRedials \in Nat

VARIABLES
    table,      \* streams.get(peer)
    state,      \* "open"; "closing": close() was called, its event is due
    dialling,   \* the calls that await findPeer or dialProtocol
    hasAddr,    \* peerAddrs.has(peer)
    timer,      \* reconnectTimers.has(peer)
    attempts,   \* reconnectAttempts.get(peer) ?? 0
    redials,    \* dials begun by the timer that have not settled
    closing,    \* close() of the node: "no", "streams" while it awaits, "done"
    visiting,   \* the stream whose close() it awaits
    passed,     \* its loop over the map has been past the peer's entry
    straggler   \* history: a dial or a stream came in after close() had begun

vars == <<table, state, dialling, hasAddr, timer, attempts, redials,
          closing, visiting, passed, straggler>>

TypeOK ==
    /\ table \in Streams \union {None}
    /\ state \in [Streams -> {"unused", "open", "closing"}]
    /\ dialling \subseteq Calls
    /\ hasAddr \in BOOLEAN /\ timer \in BOOLEAN
    /\ attempts \in 0..MaxAttempts
    /\ redials \in 0..MaxRedials
    /\ closing \in {"no", "streams", "done"}
    /\ visiting \in Streams \union {None}
    /\ passed \in BOOLEAN /\ straggler \in BOOLEAN

\* The node has just started.
Init ==
    /\ table = None
    /\ state = [s \in Streams |-> "unused"]
    /\ dialling = {}
    /\ hasAddr = FALSE /\ timer = FALSE
    /\ attempts = 0
    /\ redials = 0
    /\ closing = "no" /\ visiting = None
    /\ passed = FALSE /\ straggler = FALSE

\* History: what settles after close() has begun.
Straggles == straggler' = (straggler \/ closing # "no")

-----------------------------------------------------------------------------
(* Plausible slips in the operators below *)

\* Shutting down leaves the timers to the event loop.
CloseNodeKeepsTimers ==
    /\ closing = "no"
    /\ closing' = "streams"
    /\ hasAddr' = FALSE /\ timer' = timer /\ attempts' = 0
    /\ visiting' = table /\ passed' = (table # None)
    /\ state' = [s \in Streams |-> IF s = table THEN "closing" ELSE state[s]]
    /\ UNCHANGED <<table, dialling, redials, straggler>>

RegisterLeavesOld(s, due, tried) ==
    /\ table' = s
    /\ state' = [state EXCEPT ![s] = "open"]
    /\ timer' = due
    /\ attempts' = tried

\* The handler looks for a stream before it has removed the entry.
ClosedLooksTooEarly(s) ==
    /\ state' = [state EXCEPT ![s] = "unused"]
    /\ passed' = (passed /\ table # s)
    /\ table' = IF table = s THEN None ELSE table
    /\ timer' = (timer \/ (hasAddr /\ table = None))
    /\ attempts' = IF hasAddr /\ attempts < MaxAttempts THEN attempts + 1 ELSE attempts

RedialGivesUp ==
    /\ redials > 0
    /\ redials' = redials - 1
    /\ attempts' = 0
    /\ Straggles
    /\ UNCHANGED <<table, state, dialling, hasAddr, timer, closing, visiting, passed>>

-----------------------------------------------------------------------------

\* An identity may be used again when the node has let go of it.
Unused(s) == state[s] = "unused" /\ s # visiting

\* scheduleReconnect: a timer that is pending already is replaced.
Tried == IF attempts < MaxAttempts THEN attempts + 1 ELSE attempts

\* registerStream(s), due and tried being the timer and the attempts the caller
\* leaves: a stream that is registered already is closed and its reconnection
\* cancelled.
Register(s, due, tried) ==
    LET replaces == table # None
    IN  /\ table' = s
        /\ state' = [r \in Streams |-> CASE r = s -> "open"
                                         [] r = table -> "closing"
                                         [] OTHER -> state[r]]
        /\ timer' = (due /\ ~replaces)
        /\ attempts' = IF replaces THEN 0 ELSE tried

\* The 'close' event of s: the entry goes only if it is still s, but a
\* reconnection is scheduled whichever stream it was.
Closed(s) ==
    /\ state' = [state EXCEPT ![s] = "unused"]
    /\ passed' = (passed /\ table # s)
    /\ table' = IF table = s THEN None ELSE table
    /\ timer' = (timer \/ hasAddr)
    /\ attempts' = IF hasAddr THEN Tried ELSE attempts

-----------------------------------------------------------------------------
(* Actions *)

\* getOrCreateStream finds no stream; what it awaits may settle much later.
\* (A call that finds a stream returns it and changes nothing.)
StartDial(c) ==
    /\ table = None
    /\ c \notin dialling
    /\ dialling' = dialling \union {c}
    /\ UNCHANGED <<table, state, hasAddr, timer, attempts, redials,
                   closing, visiting, passed, straggler>>

\* It does not look again whether a stream was registered meanwhile.
DialSucceeds(c, s) ==
    /\ c \in dialling
    /\ Unused(s)
    /\ dialling' = dialling \ {c}
    /\ hasAddr' = TRUE
    /\ Register(s, timer, attempts)
    /\ Straggles
    /\ UNCHANGED <<redials, closing, visiting, passed>>

\* No route to the peer, no address, or the dial fails: the call throws.
DialFails(c) ==
    /\ c \in dialling
    /\ dialling' = dialling \ {c}
    /\ UNCHANGED <<table, state, hasAddr, timer, attempts, redials,
                   closing, visiting, passed, straggler>>

\* The protocol handler: the peer has opened a stream to this node.
Inbound(s) ==
    /\ Unused(s)
    /\ Register(s, timer, attempts)
    /\ Straggles
    /\ UNCHANGED <<dialling, hasAddr, redials, closing, visiting, passed>>

\* The inbound data of an open stream ends: its event is emitted at once.
RemoteEnds(s) ==
    /\ state[s] = "open"
    /\ Closed(s)
    /\ UNCHANGED <<dialling, hasAddr, redials, closing, visiting, straggler>>

\* close() of a replaced stream has drained it: its event is emitted.
CloseCompletes(s) ==
    /\ state[s] = "closing"
    /\ Closed(s)
    /\ UNCHANGED <<dialling, hasAddr, redials, closing, visiting, straggler>>

\* The timer fires and dials.
TimerFires ==
    /\ timer /\ hasAddr
    /\ redials < MaxRedials
    /\ timer' = FALSE
    /\ redials' = redials + 1
    /\ UNCHANGED <<table, state, dialling, hasAddr, attempts, closing,
                   visiting, passed, straggler>>

\* After close() has emptied peerAddrs a timer finds no address.
TimerGivesUp ==
    /\ timer /\ ~hasAddr
    /\ timer' = FALSE
    /\ attempts' = 0
    /\ UNCHANGED <<table, state, dialling, hasAddr, redials, closing,
                   visiting, passed, straggler>>

RedialSucceeds(s) ==
    /\ redials > 0
    /\ Unused(s)
    /\ redials' = redials - 1
    /\ Register(s, timer, 0)
    /\ Straggles
    /\ UNCHANGED <<dialling, hasAddr, closing, visiting, passed>>

RedialFails ==
    /\ redials > 0
    /\ redials' = redials - 1
    /\ timer' = TRUE
    /\ attempts' = Tried
    /\ Straggles
    /\ UNCHANGED <<table, state, dialling, hasAddr, closing, visiting, passed>>

\* close() of the node forgets the addresses and the timers and begins to close
\* the streams of its map.
CloseNode ==
    /\ closing = "no"
    /\ closing' = "streams"
    /\ hasAddr' = FALSE /\ timer' = FALSE /\ attempts' = 0
    /\ visiting' = table /\ passed' = (table # None)
    /\ state' = [s \in Streams |-> IF s = table THEN "closing" ELSE state[s]]
    /\ UNCHANGED <<table, dialling, redials, straggler>>

\* The loop goes on with an entry made since the last one was deleted; an entry
\* put in the place of the one it awaited is cleared without being closed.
CloseNext ==
    /\ closing = "streams"
    /\ visiting # None => state[visiting] = "unused"
    /\ IF table # None /\ ~passed
       THEN /\ visiting' = table /\ passed' = TRUE
            /\ state' = [state EXCEPT ![table] = "closing"]
            /\ UNCHANGED <<table, closing>>
       ELSE /\ visiting' = None /\ passed' = FALSE
            /\ table' = None /\ closing' = "done"
            /\ UNCHANGED state
    /\ UNCHANGED <<dialling, hasAddr, timer, attempts, redials, straggler>>

Next ==
    \/ \E c \in Calls : \/ StartDial(c)
                        \/ DialFails(c)
                        \/ \E s \in Streams : DialSucceeds(c, s)
    \/ \E s \in Streams : \/ Inbound(s)
                          \/ RemoteEnds(s)
                          \/ CloseCompletes(s)
                          \/ RedialSucceeds(s)
    \/ TimerFires \/ TimerGivesUp
    \/ RedialFails
    \/ CloseNode \/ CloseNext

Spec == Init /\ [][Next]_vars

\* A pending timer fires.  Nothing says when or how a dial settles.
FairSpec == Spec /\ WF_vars(TimerFires)

-----------------------------------------------------------------------------
(* Properties *)

\* However dials, redials and inbound streams overlap, the registered stream
\* is open and no other stream is left open unseen (registerStream closes what
\* it replaces; the close handler removes only its own entry), until close().
OnlyRegisteredIsOpen ==
    closing = "no" => \A s \in Streams : state[s] = "open" <=> table = s

\* A peer that was dialled once and has no stream is being redialled: replacing
\* a stream, which cancels the timer, never leaves the peer without both.
LostPeerIsRedialled ==
    (closing = "no" /\ hasAddr /\ table = None) => (timer \/ redials > 0)

\* The registered stream is not lost to the event of another one: the entry
\* disappears only in the step in which the stream itself ends, or when close()
\* clears the map.
EntryGoesWithItsStream ==
    [][(table # None /\ table' = None) =>
          (state'[table] = "unused" \/ closing' = "done")]_vars

\* A timer is not put off forever: each one leads to a dial, however often
\* events reschedule it.
RedialIsTried ==
    (hasAddr /\ table = None) ~> (redials > 0 \/ table # None \/ closing # "no")

\* close() leaves the peer neither a stream nor a timer, unless a dial settled
\* or an inbound stream arrived while it awaited the others: such a stream is
\* open in nobody's map, or begins a new life of the closed node.
ClosedNodeIsQuiet ==
    (closing = "done" /\ ~straggler) =>
        table = None /\ ~timer /\ \A s \in Streams : state[s] # "open"
=============================================================================
