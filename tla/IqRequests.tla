------------------------------ MODULE IqRequests ------------------------------
(***************************************************************************)
(* What a node sends to one peer over the streams of PeerStreams: IQ        *)
(* requests with their table pendingIq and their timers (sendIqRequest and  *)
(* handleIqStanza, src/core/xmpp-router.ts), messages that fall back to the *)
(* peer's mailbox (sendOrBufferStanza, src/core/xmpp-node.ts), the answers   *)
(* the node owes the peer, and the list of connected peers that the browser *)
(* runtime keeps from the node's events (src/bridge/browser-runtime.ts).    *)
(***************************************************************************)
EXTENDS PeerStreams

CONSTANTS
    Messages,   \* the calls that send a message; the others send a request
    Asks        \* requests of the peer that this node has to answer

ASSUME IqAssumption == Messages \subseteq Calls

VARIABLES
    call,       \* progress of each call
    via,        \* the stream that getOrCreateStream returned to it
    entry,      \* calls with an entry in pendingIq
    armed,      \* calls whose time-out is pending
    asked,      \* requests that may have reached the peer
    inactive,   \* isPeerInactive(peer)
    ask,        \* progress of each request of the peer
    shown       \* activeConnections.has(peer)

iqVars == <<call, via, entry, armed, asked, inactive, ask, shown>>
allIqVars == <<vars, iqVars>>

Waiting == {"dialling", "ready", "pending", "mailing"}
Settled == {"answered", "rejected", "handed"}

IqTypeOK ==
    /\ TypeOK
    /\ call \in [Calls -> {"idle"} \cup Waiting \cup Settled]
    /\ via \in [Calls -> Streams \cup {None}]
    /\ entry \subseteq Calls /\ armed \subseteq Calls /\ asked \subseteq Calls
    /\ inactive \in BOOLEAN
    /\ ask \in [Asks -> {"none", "working", "answered", "unanswered"}]
    /\ shown \in BOOLEAN

IqInit ==
    /\ Init
    /\ call = [c \in Calls |-> "idle"]
    /\ via = [c \in Calls |-> None]
    /\ entry = {} /\ armed = {} /\ asked = {}
    /\ inactive = FALSE
    /\ ask = [q \in Asks |-> "none"]
    /\ shown = FALSE

\* No call still holds on to the identity of a stream that is gone.
Fresh(s) == \A c \in Calls : call[c] = "ready" => via[c] # s

-----------------------------------------------------------------------------
(* Slips *)

SendRequestUntimed(c) ==
    /\ c \notin Messages /\ call[c] = "ready"
    /\ entry' = entry \cup {c}
    /\ IF state[via[c]] = "open"
       THEN call' = [call EXCEPT ![c] = "pending"] /\ asked' = asked \cup {c}
            /\ UNCHANGED armed
       ELSE call' = [call EXCEPT ![c] = "rejected"] /\ armed' = armed \cup {c}
            /\ UNCHANGED asked
    /\ via' = [via EXCEPT ![c] = None]
    /\ UNCHANGED <<vars, inactive, ask, shown>>

TimesOutKeepingEntry(c) ==
    /\ c \in armed
    /\ armed' = armed \ {c}
    /\ call' = [call EXCEPT ![c] = IF @ = "pending" THEN "rejected" ELSE @]
    /\ UNCHANGED <<vars, via, entry, asked, inactive, ask, shown>>

CloseEventUnseen(s) ==
    /\ RemoteEnds(s) \/ CloseCompletes(s)
    /\ UNCHANGED iqVars

-----------------------------------------------------------------------------
(* Getting a stream *)

\* A call takes the registered stream, or dials; a message to a peer that said
\* it is inactive goes to the mailbox without a dial.
Begin(c) ==
    /\ call[c] = "idle"
    /\ \/ /\ c \in Messages /\ inactive
          /\ call' = [call EXCEPT ![c] = "mailing"]
          /\ UNCHANGED <<vars, via>>
       \/ /\ ~(c \in Messages /\ inactive) /\ table # None
          /\ call' = [call EXCEPT ![c] = "ready"]
          /\ via' = [via EXCEPT ![c] = table]
          /\ UNCHANGED vars
       \/ /\ ~(c \in Messages /\ inactive) /\ StartDial(c)
          /\ call' = [call EXCEPT ![c] = "dialling"]
          /\ UNCHANGED via
    /\ UNCHANGED <<entry, armed, asked, inactive, ask, shown>>

\* The continuation of the call runs in a later microtask, after other dials
\* that settled in the same turn have registered their streams.
Dialled(c, s) ==
    /\ call[c] = "dialling" /\ Fresh(s)
    /\ DialSucceeds(c, s)
    /\ call' = [call EXCEPT ![c] = "ready"]
    /\ via' = [via EXCEPT ![c] = s]
    /\ shown' = TRUE
    /\ UNCHANGED <<entry, armed, asked, inactive, ask>>

NotDialled(c) ==
    /\ call[c] = "dialling" /\ DialFails(c)
    /\ call' = [call EXCEPT ![c] = IF c \in Messages THEN "mailing" ELSE "rejected"]
    /\ UNCHANGED <<via, entry, armed, asked, inactive, ask, shown>>

-----------------------------------------------------------------------------
(* Requests *)

\* sendIqRequest: the entry and the timer are set first.  On a stream that was
\* closed meanwhile send() throws: the call fails, entry and timer stay.
SendRequest(c) ==
    /\ c \notin Messages /\ call[c] = "ready"
    /\ entry' = entry \cup {c} /\ armed' = armed \cup {c}
    /\ IF state[via[c]] = "open"
       THEN call' = [call EXCEPT ![c] = "pending"] /\ asked' = asked \cup {c}
       ELSE call' = [call EXCEPT ![c] = "rejected"] /\ UNCHANGED asked
    /\ via' = [via EXCEPT ![c] = None]
    /\ UNCHANGED <<vars, inactive, ask, shown>>

\* An answer, a result or an error, comes in on any stream that still reads, late, or once more;
\* handleIqStanza ignores it when the entry is gone.
AnswerArrives(c) ==
    /\ c \in asked
    /\ \E s \in Streams : state[s] # "unused"
    /\ entry' = entry \ {c}
    /\ armed' = IF c \in entry THEN armed \ {c} ELSE armed
    /\ call' = [call EXCEPT ![c] = IF c \in entry THEN "answered" ELSE @]
    /\ UNCHANGED <<vars, via, asked, inactive, ask, shown>>

TimesOut(c) ==
    /\ c \in armed
    /\ entry' = entry \ {c} /\ armed' = armed \ {c}
    /\ call' = [call EXCEPT ![c] = IF @ = "pending" THEN "rejected" ELSE @]
    /\ UNCHANGED <<vars, via, asked, inactive, ask, shown>>

\* close() of the node rejects what is pending before it closes the streams.
ShutDown ==
    /\ CloseNode
    /\ entry' = {} /\ armed' = armed \ entry
    /\ call' = [c \in Calls |-> IF c \in entry /\ call[c] = "pending"
                                THEN "rejected" ELSE call[c]]
    /\ UNCHANGED <<via, asked, inactive, ask, shown>>

-----------------------------------------------------------------------------
(* Messages *)

\* sendOrBufferStanza: when send() throws, the mailbox is tried as well.
SendMessage(c) ==
    /\ c \in Messages /\ call[c] = "ready"
    /\ call' = [call EXCEPT ![c] = IF state[via[c]] = "open" THEN "handed" ELSE "mailing"]
    /\ via' = [via EXCEPT ![c] = None]
    /\ UNCHANGED <<vars, entry, armed, asked, inactive, ask, shown>>

\* The write to the DHT came back; if it failed as well the call throws.
Mailed(c) ==
    /\ call[c] = "mailing"
    /\ \E end \in {"handed", "rejected"} : call' = [call EXCEPT ![c] = end]
    /\ UNCHANGED <<vars, via, entry, armed, asked, inactive, ask, shown>>

\* handleStanza, <active/> or <inactive/>.
PeerSaysState(state2) ==
    /\ \E s \in Streams : state[s] # "unused"
    /\ inactive # state2
    /\ inactive' = state2
    /\ UNCHANGED <<vars, call, via, entry, armed, asked, ask, shown>>

-----------------------------------------------------------------------------
(* Requests of the peer *)

\* handleIqStanza, get or set: what it awaits may be another peer or a write.
AskArrives(q) ==
    /\ ask[q] = "none"
    /\ \E s \in Streams : state[s] # "unused"
    /\ ask' = [ask EXCEPT ![q] = "working"]
    /\ UNCHANGED <<vars, call, via, entry, armed, asked, inactive, shown>>

\* sendIqResult or sendIqError: on the stream registered by now, or nowhere.
AskAnswered(q) ==
    /\ ask[q] = "working"
    /\ ask' = [ask EXCEPT ![q] = IF table # None /\ state[table] = "open"
                                 THEN "answered" ELSE "unanswered"]
    /\ UNCHANGED <<vars, call, via, entry, armed, asked, inactive, shown>>

\* What the handler awaits throws: an 'error' event, and no answer at all.
AskFails(q) ==
    /\ ask[q] = "working"
    /\ ask' = [ask EXCEPT ![q] = "unanswered"]
    /\ UNCHANGED <<vars, call, via, entry, armed, asked, inactive, shown>>

-----------------------------------------------------------------------------
(* The streams and the events the runtime listens to *)

\* 'stream' is emitted when a stream has been registered.
StreamEvent(s) ==
    /\ Fresh(s)
    /\ Inbound(s) \/ RedialSucceeds(s)
    /\ shown' = TRUE
    /\ UNCHANGED <<call, via, entry, armed, asked, inactive, ask>>

\* 'stream-closed' is emitted whichever stream of the peer it was.
CloseEvent(s) ==
    /\ RemoteEnds(s) \/ CloseCompletes(s)
    /\ shown' = FALSE
    /\ UNCHANGED <<call, via, entry, armed, asked, inactive, ask>>

TimerEvent ==
    /\ TimerFires \/ TimerGivesUp \/ RedialFails \/ CloseNext
    /\ UNCHANGED iqVars

IqNext ==
    \/ \E c \in Calls :
          \/ Begin(c) \/ NotDialled(c) \/ SendRequest(c) \/ SendMessage(c)
          \/ Mailed(c) \/ TimesOut(c) \/ AnswerArrives(c)
          \/ \E s \in Streams : Dialled(c, s)
    \/ \E s \in Streams : StreamEvent(s) \/ CloseEvent(s)
    \/ \E q \in Asks : AskArrives(q) \/ AskAnswered(q) \/ AskFails(q)
    \/ \E b \in BOOLEAN : PeerSaysState(b)
    \/ ShutDown \/ TimerEvent

IqSpec == IqInit /\ [][IqNext]_allIqVars

\* Timers fire, microtasks run and writes to the DHT come back; nothing is
\* assumed of dials, of the peer or of the streams.
IqFairness ==
    /\ WF_allIqVars(TimerFires /\ UNCHANGED iqVars)
    /\ \A c \in Calls :
          /\ WF_allIqVars(SendRequest(c) \/ SendMessage(c))
          /\ WF_allIqVars(Mailed(c))
          /\ WF_allIqVars(TimesOut(c))

IqFairSpec == IqSpec /\ IqFairness

-----------------------------------------------------------------------------
(* Properties *)

\* Nobody waits for an answer without a time-out, and the table keeps nothing
\* that no timer will take out, whichever of answer, time-out, failing send and
\* close() comes first.
PendingIsTimed ==
    /\ {c \in Calls : call[c] = "pending"} \subseteq entry
    /\ entry = armed
    /\ \A c \in entry : call[c] \in {"pending", "rejected"}

\* A call that has got its stream settles: with an answer, by its time-out, by
\* close(), in the mailbox or with an error.
CallsSettle ==
    \A c \in Calls : call[c] \in {"ready", "pending", "mailing"} ~> call[c] \in Settled

\* The runtime lists only peers that have a stream.  (Not the converse: the
\* end of a replaced stream takes the peer off the list.)
ShownHasStream == closing # "done" => (shown => table # None)
=============================================================================
