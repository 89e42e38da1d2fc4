-------------------------------- MODULE Outbox --------------------------------
(***************************************************************************)
(* The outbox of one account: the direct messages that could not be sent,  *)
(* kept in localStorage and sent again by an effect of the user interface  *)
(* (ui/src/lib/message-queue.ts and ui/src/app/Root.tsx; messages enter it *)
(* in ui/src/bridge/chat/controller.ts).  Several tabs of the browser may  *)
(* share the storage; each has an effect and an activeFlushes of its own.  *)
(* Whatever runs between two awaits is one step.                           *)
(*                                                                         *)
(* The account stays the same.  The lengths of the retry delays and what a *)
(* message says are left out; the queue is a set of messages, whose order  *)
(* matters only to the order in which one flush sends them.                *)
(***************************************************************************)
EXTENDS Naturals

CONSTANTS
    Tabs,        \* the tabs that share the storage
    Messages,    \* bound: the direct messages the user writes
    MaxFaults    \* bound: closings and failed saves in each tab

ASSUME OutboxAssumption == MaxFaults \in Nat

VARIABLES
    outbox,     \* the stored queue
    written,    \* the messages the user has sent off
    accepted,   \* those that enqueueMessage has stored
    ready,      \* ready[t]: the bridge is there and the effect is mounted
    timer,      \* timer[t]: retryTimer is pending
    flush,      \* flush[t]: the flush that activeFlushes records, if any
    sent,       \* sent[t][m]: how often t was told that m has been sent
    faults      \* faults[t]: closings and failed saves of t

vars == <<outbox, written, accepted, ready, timer, flush, sent, faults>>

\* A flush goes through its copy of the queue; mounted says that the effect
\* that began it is still there and waits for it.
NoFlush == [active |-> FALSE, mounted |-> FALSE, todo |-> {}, processed |-> {}, failed |-> {}]
Begun(q) == [NoFlush EXCEPT !.active = TRUE, !.mounted = TRUE,
                            !.todo = q, !.processed = q]

Flush == [active : BOOLEAN, mounted : BOOLEAN, todo : SUBSET Messages,
          processed : SUBSET Messages, failed : SUBSET Messages]

TypeOK ==
    /\ outbox \subseteq accepted /\ accepted \subseteq written
    /\ written \subseteq Messages
    /\ ready \in [Tabs -> BOOLEAN] /\ timer \in [Tabs -> BOOLEAN]
    /\ flush \in [Tabs -> Flush]
    /\ \A t \in Tabs : /\ flush[t].todo \subseteq flush[t].processed
                       /\ flush[t].failed \subseteq flush[t].processed
                       /\ flush[t].processed \subseteq accepted
                       /\ flush[t].active \/ flush[t].processed = {}
                       /\ flush[t].mounted => ready[t]
                       /\ timer[t] => (ready[t] /\ ~flush[t].mounted)
    /\ sent \in [Tabs -> [Messages -> Nat]]
    /\ faults \in [Tabs -> 0..MaxFaults]

Init ==
    /\ outbox = {} /\ written = {} /\ accepted = {}
    /\ ready = [t \in Tabs |-> FALSE] /\ timer = [t \in Tabs |-> FALSE]
    /\ flush = [t \in Tabs |-> NoFlush]
    /\ sent = [t \in Tabs |-> [m \in Messages |-> 0]]
    /\ faults = [t \in Tabs |-> 0]

\* The rest of the queue after a flush: what it did not take up, and what it
\* failed to send.
Remains(q, f) == {m \in q : m \notin f.processed \/ m \in f.failed}

-----------------------------------------------------------------------------
(* Plausible slips in the operators below *)

\* The flush saves what remains of its own copy, not of the latest queue.
FlushEndsWithItsCopy(t) ==
    /\ flush[t].active /\ flush[t].todo = {}
    /\ outbox' = flush[t].failed
    /\ timer' = [timer EXCEPT ![t] = @ \/ (flush[t].mounted /\ outbox' # {})]
    /\ flush' = [flush EXCEPT ![t] = NoFlush]
    /\ UNCHANGED <<written, accepted, ready, sent, faults>>

\* Nothing is planned for what could not be sent.
FlushEndsForGood(t) ==
    /\ flush[t].active /\ flush[t].todo = {}
    /\ outbox' = Remains(outbox, flush[t])
    /\ flush' = [flush EXCEPT ![t] = NoFlush]
    /\ UNCHANGED <<written, accepted, ready, timer, sent, faults>>

\* A flush begins whether or not one is recorded in activeFlushes.
FlushPendingAgain(t) ==
    /\ flush' = [flush EXCEPT ![t] = IF outbox = {} THEN @ ELSE Begun(outbox)]
    /\ timer' = [timer EXCEPT ![t] = FALSE]

-----------------------------------------------------------------------------
(* The effect of Root.tsx *)

\* flushPending, by an effect that has no timer left: it waits for its own
\* flush; one left by an earlier effect makes flushOutbox return at once.
FlushPending(t) ==
    LET busy == flush[t].active
        todo == outbox # {}
    IN  /\ flush' = [flush EXCEPT ![t] = IF busy \/ ~todo THEN @ ELSE Begun(outbox)]
        /\ timer' = [timer EXCEPT ![t] = busy /\ ~flush[t].mounted /\ todo]

\* The bridge has started: the effect is mounted and flushes.
Mount(t) ==
    /\ ~ready[t]
    /\ ready' = [ready EXCEPT ![t] = TRUE]
    /\ FlushPending(t)
    /\ UNCHANGED <<outbox, written, accepted, sent, faults>>

\* The connection to the server is up again: the delay is cut short.
ServerConnected(t) ==
    /\ ready[t]
    /\ FlushPending(t)
    /\ UNCHANGED <<outbox, written, accepted, ready, sent, faults>>

TimerFires(t) ==
    /\ timer[t]
    /\ FlushPending(t)
    /\ UNCHANGED <<outbox, written, accepted, ready, sent, faults>>

\* The bridge goes away or is replaced; a flush goes on in the background.
Unmount(t) ==
    /\ ready[t]
    /\ ready' = [ready EXCEPT ![t] = FALSE]
    /\ timer' = [timer EXCEPT ![t] = FALSE]
    /\ flush' = [flush EXCEPT ![t].mounted = FALSE]
    /\ UNCHANGED <<outbox, written, accepted, sent, faults>>

-----------------------------------------------------------------------------
(* flushOutbox *)

\* sendFn settles for a message of the copy.
SendNext(t) ==
    \E m \in flush[t].todo :
        /\ \/ /\ sent' = [sent EXCEPT ![t][m] = @ + 1]
              /\ flush' = [flush EXCEPT ![t].todo = @ \ {m}]
           \/ /\ flush' = [flush EXCEPT ![t].todo = @ \ {m}, ![t].failed = @ \union {m}]
              /\ UNCHANGED sent
        /\ UNCHANGED <<outbox, written, accepted, ready, timer, faults>>

\* The copy is through: what was sent leaves the latest queue, and the effect
\* that waits plans the next attempt if anything is left.
FlushEnds(t) ==
    /\ flush[t].active /\ flush[t].todo = {}
    /\ \/ /\ outbox' = Remains(outbox, flush[t])
          /\ UNCHANGED faults
       \/ /\ faults[t] < MaxFaults      \* the storage refuses the save
          /\ faults' = [faults EXCEPT ![t] = @ + 1]
          /\ UNCHANGED outbox
    /\ timer' = [timer EXCEPT ![t] = @ \/ (flush[t].mounted /\ outbox' # {})]
    /\ flush' = [flush EXCEPT ![t] = NoFlush]
    /\ UNCHANGED <<written, accepted, ready, sent>>

-----------------------------------------------------------------------------
(* sendMessageOnce, for a direct message that may be queued *)

\* Without a bridge, or when the send is rejected, the message is queued; the
\* storage may refuse it.  Nothing else happens.
Send(t, m) ==
    /\ m \notin written
    /\ written' = written \union {m}
    /\ \/ /\ ready[t]
          /\ sent' = [sent EXCEPT ![t][m] = @ + 1]
          /\ UNCHANGED <<outbox, accepted>>
       \/ /\ outbox' = outbox \union {m}
          /\ accepted' = accepted \union {m}
          /\ UNCHANGED sent
       \/ UNCHANGED <<outbox, accepted, sent>>
    /\ UNCHANGED <<ready, timer, flush, faults>>

\* The tab is closed, and may be opened again: only the storage survives.
CloseTab(t) ==
    /\ faults[t] < MaxFaults
    /\ faults' = [faults EXCEPT ![t] = @ + 1]
    /\ ready' = [ready EXCEPT ![t] = FALSE]
    /\ timer' = [timer EXCEPT ![t] = FALSE]
    /\ flush' = [flush EXCEPT ![t] = NoFlush]
    /\ UNCHANGED <<outbox, written, accepted, sent>>

Next ==
    \E t \in Tabs : \/ Mount(t) \/ ServerConnected(t) \/ TimerFires(t) \/ Unmount(t)
                    \/ SendNext(t) \/ FlushEnds(t)
                    \/ CloseTab(t)
                    \/ \E m \in Messages : Send(t, m)

Spec == Init /\ [][Next]_vars

\* Timers fire and the send function settles.  Nothing says that a send
\* succeeds, or that the server connection is ever lost and found again.
Fairness == \A t \in Tabs : WF_vars(TimerFires(t)) /\ WF_vars(SendNext(t))
                                                   /\ WF_vars(FlushEnds(t))

FairSpec == Spec /\ Fairness

-----------------------------------------------------------------------------
(* Properties *)

\* Whatever is queued, flushed and closed in several tabs at a time, a message
\* that was accepted is either still stored or has been sent.
AcceptedIsKeptOrSent ==
    \A m \in accepted : m \in outbox \/ \E t \in Tabs : sent[t][m] > 0

\* A tab sends a message again only if it was closed, or could not save the
\* queue, after it had sent it: an effect never repeats what the flush of an
\* earlier effect is about to remove.
SentOncePerTab == \A t \in Tabs : \A m \in Messages : sent[t][m] <= 1 + faults[t]

\* The inductive invariant behind both: a flush accounts for each message of
\* its copy, and what a tab may still send it has not sent since its last fault.
Accounted(t) ==
    \A m \in flush[t].processed :
        m \in flush[t].todo \/ m \in flush[t].failed \/ sent[t][m] > 0

MaySend(t, m) ==
    \/ m \in flush[t].todo \/ m \in flush[t].failed
    \/ (m \in outbox /\ m \notin flush[t].processed)
    \/ m \notin written

NotYetSent(t) == \A m \in Messages : MaySend(t, m) => sent[t][m] <= faults[t]

IInv ==
    /\ TypeOK /\ AcceptedIsKeptOrSent /\ SentOncePerTab
    /\ \A t \in Tabs : /\ Accounted(t) /\ NotYetSent(t)
                       /\ flush[t].todo \intersect flush[t].failed = {}

\* A message that a flush failed to send is tried again, as long as the bridge
\* stays, also when the effect was mounted anew during that flush.
FailedIsTriedAgain ==
    \A t \in Tabs : \A m \in Messages :
        (m \in flush[t].failed) ~> (m \notin outbox \/ m \in flush[t].todo \/ ~ready[t])

\* (sendMessageOnce: "Message queued. It will retry automatically.", said when a
\* send failed although the server is connected.)  A queued message is tried
\* again as long as the bridge stays.
QueuedIsTried ==
    \A t \in Tabs : \A m \in Messages :
        (m \in outbox) ~> (m \notin outbox \/ m \in flush[t].todo \/ ~ready[t])
=============================================================================
