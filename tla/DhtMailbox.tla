------------------------------ MODULE DhtMailbox ------------------------------
(***************************************************************************)
(* The offline mailbox of one node: a single DHT record that every sender  *)
(* reads, extends and writes back, and that its owner drains               *)
(* (bufferStanzaToDht and flushDhtMailbox, src/core/xmpp-dht.ts).          *)
(* mailboxLocks serialises the operations of one process; nothing          *)
(* serialises two processes, and the last put wins.                        *)
(*                                                                         *)
(* A read or a put that rejects may have been carried out or not.  The     *)
(* record of the model is always well formed.  collectExpiredDhtEntries    *)
(* is exported but started nowhere, so no collector takes part.            *)
(***************************************************************************)
EXTENDS Naturals, Sequences

CONSTANTS
    Senders,     \* the processes that send to the owner
    MaxStanzas,  \* bound: stanzas each of them buffers
    MaxFlushes   \* bound: flushes the owner starts

ASSUME DhtMailboxAssumption == MaxStanzas \in Nat /\ MaxFlushes \in Nat

Stanza == Senders \X (1..MaxStanzas)
Content(q) == {q[i] : i \in DOMAIN q}

VARIABLES
    mailbox,   \* the data of the DHT record, oldest stanza first
    expired,   \* its expiresAt has passed
    waiting,   \* waiting[s]: the calls of s behind its lock, oldest first
    put,       \* put[s]: the queue s is about to write, a set of at most one
    issued,    \* issued[s]: calls made by s
    outcome,   \* outcome[m]: what the call for m came to
    flush,     \* the owner's flush: its stage and its copy of the queue
    asked,     \* asked: flushes behind the owner's lock
    flushes,   \* flushes started so far
    handled    \* handled[m]: how often m was handled by the owner

senders == <<waiting, put, issued, outcome>>
owner   == <<flush, asked, flushes, handled>>
vars    == <<mailbox, expired, senders, owner>>

Idle == [stage |-> "idle", queue |-> <<>>]

TypeOK ==
    /\ mailbox \in Seq(Stanza) /\ expired \in BOOLEAN
    /\ waiting \in [Senders -> Seq(Stanza)]
    /\ \A s \in Senders : put[s] = {} \/ \E q \in put[s] : put[s] = {q} /\ q \in Seq(Stanza)
    /\ issued \in [Senders -> 0..MaxStanzas]
    /\ outcome \in [Stanza -> {"none", "stored", "failed"}]
    /\ flush.stage \in {"idle", "handle", "put"} /\ flush.queue \in Seq(Stanza)
    /\ asked \in Nat /\ flushes \in 0..MaxFlushes
    /\ handled \in [Stanza -> Nat]

\* No record is in the DHT yet, which every reader takes for an empty queue.
Init ==
    /\ mailbox = <<>> /\ expired = FALSE
    /\ waiting = [s \in Senders |-> <<>>]
    /\ put = [s \in Senders |-> {}]
    /\ issued = [s \in Senders |-> 0]
    /\ outcome = [m \in Stanza |-> "none"]
    /\ flush = Idle
    /\ asked = 0 /\ flushes = 0
    /\ handled = [m \in Stanza |-> 0]

\* What a get of the record returns.
Read == IF expired THEN <<>> ELSE mailbox

\* A put of q renews the expiry; the DHT keeps the last one.
Write(q) == mailbox' = q /\ expired' = FALSE

-----------------------------------------------------------------------------
(* Plausible slips in the actions below *)

BufferForgetsOld(s) ==
    /\ waiting[s] # <<>> /\ put[s] = {}
    /\ put' = [put EXCEPT ![s] = {<<Head(waiting[s])>>}]
    /\ UNCHANGED <<mailbox, expired, waiting, issued, outcome, owner>>

HandleRemovesFirst ==
    /\ flush.stage = "handle"
    /\ flush' = [flush EXCEPT !.stage = "put"]
    /\ handled' = [handled EXCEPT ![Head(flush.queue)] = @ + 1]
    /\ Write(<<>>)
    /\ UNCHANGED <<senders, asked, flushes>>

ThrowRequeues ==
    /\ flush.stage = "handle"
    /\ flush' = Idle
    /\ Write(Append(mailbox, Head(flush.queue)))
    /\ UNCHANGED <<senders, asked, flushes, handled>>

FlushReadsUnlocked ==
    /\ flush = Idle
    /\ asked' = asked - 1
    /\ flushes' = flushes + 1
    /\ flush' = IF Read = <<>> THEN Idle ELSE [stage |-> "handle", queue |-> Read]
    /\ UNCHANGED <<mailbox, expired, senders, handled>>

\* A stanza that throws is tried again behind the others, in the same flush.
ThrowGoesLast ==
    /\ flush.stage = "handle"
    /\ flush' = [flush EXCEPT !.queue = Append(Tail(@), Head(@))]
    /\ UNCHANGED <<mailbox, expired, senders, asked, flushes, handled>>

-----------------------------------------------------------------------------
(* bufferStanzaToDht *)

Settle(s, result) ==
    /\ outcome' = [outcome EXCEPT ![Head(waiting[s])] = result]
    /\ waiting' = [waiting EXCEPT ![s] = Tail(@)]
    /\ put' = [put EXCEPT ![s] = {}]

\* The call takes its place behind the earlier calls of this process.
Buffer(s) ==
    LET m == <<s, issued[s] + 1>>
    IN  /\ issued[s] < MaxStanzas
        /\ issued' = [issued EXCEPT ![s] = @ + 1]
        /\ waiting' = [waiting EXCEPT ![s] = Append(@, m)]
        /\ UNCHANGED <<mailbox, expired, put, outcome, owner>>

\* Its turn: it reads the record and adds its stanza to what it has read.
BufferReads(s) ==
    /\ waiting[s] # <<>> /\ put[s] = {}
    /\ put' = [put EXCEPT ![s] = {Append(Read, Head(waiting[s]))}]
    /\ UNCHANGED <<mailbox, expired, waiting, issued, outcome, owner>>

BufferReadFails(s) ==
    /\ waiting[s] # <<>> /\ put[s] = {}
    /\ Settle(s, "failed")
    /\ UNCHANGED <<mailbox, expired, issued, owner>>

BufferPuts(s) ==
    \E q \in put[s] :
        /\ Write(q)
        /\ Settle(s, "stored")
        /\ UNCHANGED <<issued, owner>>

BufferPutFails(s) ==
    \E q \in put[s] :
        /\ Write(q) \/ UNCHANGED <<mailbox, expired>>
        /\ Settle(s, "failed")
        /\ UNCHANGED <<issued, owner>>

-----------------------------------------------------------------------------
(* flushDhtMailbox, called on 'peer:connect', on start and on becoming active *)

AskFlush ==
    /\ flushes + asked < MaxFlushes
    /\ asked' = asked + 1
    /\ UNCHANGED <<mailbox, expired, senders, flush, flushes, handled>>

\* Nothing to do ends the flush.
FlushReads ==
    /\ asked > 0 /\ flush = Idle
    /\ asked' = asked - 1
    /\ flushes' = flushes + 1
    /\ flush' = IF Read = <<>> THEN Idle ELSE [stage |-> "handle", queue |-> Read]
    /\ UNCHANGED <<mailbox, expired, senders, handled>>

FlushReadFails ==
    /\ asked > 0 /\ flush = Idle
    /\ asked' = asked - 1
    /\ flushes' = flushes + 1
    /\ UNCHANGED <<mailbox, expired, senders, flush, handled>>

\* handleStanza completes for the first stanza of the copy.
Handle ==
    /\ flush.stage = "handle"
    /\ flush' = [flush EXCEPT !.stage = "put"]
    /\ handled' = [handled EXCEPT ![Head(flush.queue)] = @ + 1]
    /\ UNCHANGED <<mailbox, expired, senders, asked, flushes>>

\* handleStanza throws: the flush is over, the record is left as it is.
HandleThrows ==
    /\ flush.stage = "handle"
    /\ flush' = Idle
    /\ UNCHANGED <<mailbox, expired, senders, asked, flushes, handled>>

\* The rest of the copy is written over whatever the record holds by now.
FlushPuts ==
    LET rest == Tail(flush.queue)
    IN  /\ flush.stage = "put"
        /\ Write(rest)
        /\ flush' = IF rest = <<>> THEN Idle ELSE [stage |-> "handle", queue |-> rest]
        /\ UNCHANGED <<senders, asked, flushes, handled>>

FlushPutFails ==
    /\ flush.stage = "put"
    /\ Write(Tail(flush.queue)) \/ UNCHANGED <<mailbox, expired>>
    /\ flush' = Idle
    /\ UNCHANGED <<senders, asked, flushes, handled>>

\* The owner's process ends and starts again: its lock and its copy are gone.
Restart ==
    /\ flush # Idle \/ asked > 0
    /\ flush' = Idle
    /\ asked' = 0
    /\ UNCHANGED <<mailbox, expired, senders, flushes, handled>>

\* Seven days without a put.  No single operation lasts that long.
Expire ==
    /\ mailbox # <<>> /\ ~expired
    /\ flush = Idle /\ \A s \in Senders : put[s] = {}
    /\ expired' = TRUE
    /\ UNCHANGED <<mailbox, senders, owner>>

Next ==
    \/ \E s \in Senders : \/ Buffer(s)
                          \/ BufferReads(s) \/ BufferReadFails(s)
                          \/ BufferPuts(s)  \/ BufferPutFails(s)
    \/ AskFlush \/ FlushReads \/ FlushReadFails
    \/ Handle \/ HandleThrows \/ FlushPuts \/ FlushPutFails
    \/ Restart
    \/ Expire

Spec == Init /\ [][Next]_vars

\* Every DHT operation and every handler settles, one way or the other.
Fairness == WF_vars(Handle \/ HandleThrows \/ FlushPuts \/ FlushPutFails)

FairSpec == Spec /\ Fairness

-----------------------------------------------------------------------------
(* Properties *)

\* (flushDhtMailbox: "Remove each stanza only after its handler has completed.
\* If processing fails or the tab closes, the current stanza and tail remain
\* queued.")  What a flush has still to handle is in the record all the while.
TailStaysQueued ==
    LET open == IF flush.stage = "put" THEN Tail(flush.queue) ELSE flush.queue
    IN  Content(open) \subseteq Content(mailbox)

\* However reads and puts overlap, the record never holds a stanza twice: a
\* redelivery comes from a flush that is repeated, not from the record.
HeldOnce == \A i, j \in DOMAIN mailbox : mailbox[i] = mailbox[j] => i = j

\* A stanza that was not handled leaves the record in one way only: a flush
\* that read the record before the stanza was stored writes it back.
OnlyAnOlderFlushLoses ==
    [][\A m \in Content(mailbox) \ Content(mailbox') :
         \/ handled[m] > 0
         \/ expired
         \/ flush.stage = "put" /\ m \notin Content(flush.queue)]_vars

\* A flush comes to its end, however often it fails or the record grows.
FlushEnds == []<>(flush.stage = "idle")
=============================================================================
