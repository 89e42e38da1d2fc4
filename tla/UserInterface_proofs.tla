------------------------ MODULE UserInterface_proofs -------------------------
(*****************************************************************************)
(* Proofs about the two parts of UserInterface: the outbox, for every set of *)
(* tabs and messages, and the start and stop of the node, for any number of  *)
(* runs, nodes, acts of the user and failures.                               *)
(*****************************************************************************)
EXTENDS UserInterface, FiniteSetTheorems, TLAPS

-----------------------------------------------------------------------------
(* The outbox *)

\* The fields of the flush of a tab.
LEMMA FlushFields ==
    ASSUME TypeOK, NEW t \in Tabs
    PROVE  /\ flush[t] \in Flush
           /\ flush[t].todo \subseteq Messages /\ flush[t].failed \subseteq Messages
           /\ flush[t].processed \subseteq Messages
           /\ flush[t].todo \subseteq flush[t].processed
           /\ flush[t].failed \subseteq flush[t].processed
           /\ flush[t].processed \subseteq accepted
           /\ flush[t].active \/ flush[t].processed = {}
BY DEF TypeOK, Flush

\* The invariant holds before anything is written.
LEMMA InitIInv == Init => IInv
<1> SUFFICES ASSUME Init PROVE IInv
  OBVIOUS
<1>1. TypeOK
  BY OutboxAssumption DEF Init, TypeOK, NoFlush, Flush
<1>2. AcceptedIsKeptOrSent /\ SentOncePerTab
  BY OutboxAssumption DEF Init, AcceptedIsKeptOrSent, SentOncePerTab
<1>3. ASSUME NEW t \in Tabs
      PROVE  Accounted(t) /\ NotYetSent(t) /\ flush[t].todo \intersect flush[t].failed = {}
  BY OutboxAssumption DEF Init, NoFlush, Accounted, NotYetSent
<1> QED BY <1>1, <1>2, <1>3 DEF IInv

\* flushPending leaves the flush that goes on, or begins one on the queue.
LEMMA FlushPendingStep ==
    ASSUME IInv, NEW t \in Tabs, FlushPending(t),
           UNCHANGED <<outbox, written, accepted, sent, faults>>,
           ready' \in [Tabs -> BOOLEAN], ready'[t],
           \A u \in Tabs \ {t} : ready'[u] = ready[u]
    PROVE  IInv'
<1> USE DEF IInv
<1>1. flush' \in [Tabs -> Flush] /\ timer' \in [Tabs -> BOOLEAN]
  <2>1. outbox \subseteq Messages
    BY DEF TypeOK
  <2>2. Begun(outbox) \in Flush
    BY <2>1 DEF Begun, NoFlush, Flush
  <2>3. flush' \in [Tabs -> Flush]
    BY <2>2 DEF FlushPending, TypeOK
  <2>4. (flush[t].active /\ ~flush[t].mounted /\ outbox # {}) \in BOOLEAN
    OBVIOUS
  <2>5. timer' \in [Tabs -> BOOLEAN]
    BY <2>4, Zenon DEF FlushPending, TypeOK
  <2> QED BY <2>3, <2>5
<1>2. /\ \/ flush'[t] = flush[t]
         \/ ~flush[t].active /\ outbox # {} /\ flush'[t] = Begun(outbox)
      /\ timer'[t] <=> (flush[t].active /\ ~flush[t].mounted /\ outbox # {})
      /\ \A u \in Tabs \ {t} : flush'[u] = flush[u] /\ timer'[u] = timer[u]
  BY Zenon DEF FlushPending, TypeOK
<1>3. /\ Begun(outbox).todo = outbox /\ Begun(outbox).processed = outbox
      /\ Begun(outbox).failed = {} /\ Begun(outbox).active /\ Begun(outbox).mounted
  BY DEF Begun, NoFlush
<1>5. TypeOK'
  <2>1. ASSUME NEW u \in Tabs
        PROVE  /\ flush'[u].todo \subseteq flush'[u].processed
               /\ flush'[u].failed \subseteq flush'[u].processed
               /\ flush'[u].processed \subseteq accepted
               /\ flush'[u].active \/ flush'[u].processed = {}
               /\ flush'[u].mounted => ready'[u]
               /\ timer'[u] => (ready'[u] /\ ~flush'[u].mounted)
    <3>1. CASE u # t
      BY <3>1, <1>2 DEF TypeOK
    <3>2. CASE u = t /\ flush'[t] = flush[t]
      BY <3>2, <1>2 DEF TypeOK
    <3>3. CASE u = t /\ ~flush[t].active /\ flush'[t] = Begun(outbox)
      BY <3>3, <1>2, <1>3 DEF TypeOK
    <3> QED BY <3>1, <3>2, <3>3, <1>2
  <2> QED BY <2>1, <1>1 DEF TypeOK
<1>6. AcceptedIsKeptOrSent' /\ SentOncePerTab'
  BY DEF AcceptedIsKeptOrSent, SentOncePerTab
<1>7. ASSUME NEW u \in Tabs
      PROVE  (Accounted(u) /\ NotYetSent(u) /\ flush[u].todo \intersect flush[u].failed = {})'
  <2>1. CASE flush'[u] = flush[u]
    BY <2>1 DEF Accounted, NotYetSent, MaySend
  <2>2. CASE u = t /\ ~flush[t].active /\ flush'[t] = Begun(outbox)
    <3>1. flush[t].processed = {}
      BY <2>2, FlushFields
    <3>2. \A m \in Messages : m \in outbox => sent[t][m] <= faults[t]
      BY <3>1 DEF NotYetSent, MaySend
    <3>3. NotYetSent(t)'
      BY <3>2, <2>2, <1>3 DEF NotYetSent, MaySend
    <3> QED BY <3>3, <2>2, <1>3 DEF Accounted
  <2> QED BY <2>1, <2>2, <1>2
<1> QED BY <1>5, <1>6, <1>7

\* A tab that loses its effect, or is closed, keeps what it was told is sent.
LEMMA UnmountStep ==
    ASSUME IInv, NEW t \in Tabs, Unmount(t)
    PROVE  IInv'
<1> USE DEF IInv
<1>1. /\ flush' \in [Tabs -> Flush] /\ timer' \in [Tabs -> BOOLEAN]
      /\ ready' \in [Tabs -> BOOLEAN]
  <2>1. [flush[t] EXCEPT !.mounted = FALSE] \in Flush
    BY FlushFields DEF Flush
  <2>2. flush' = [flush EXCEPT ![t] = [flush[t] EXCEPT !.mounted = FALSE]]
    BY DEF Unmount
  <2>3. flush' \in [Tabs -> Flush]
    BY <2>1, <2>2 DEF TypeOK
  <2>4. timer' \in [Tabs -> BOOLEAN] /\ ready' \in [Tabs -> BOOLEAN]
    BY Zenon DEF Unmount, TypeOK
  <2> QED BY <2>3, <2>4
<1>2. /\ flush'[t] = [flush[t] EXCEPT !.mounted = FALSE]
      /\ ~timer'[t] /\ ~ready'[t]
      /\ \A u \in Tabs \ {t} : /\ flush'[u] = flush[u] /\ timer'[u] = timer[u]
                               /\ ready'[u] = ready[u]
  BY DEF Unmount, TypeOK
<1>3. \A u \in Tabs : /\ flush'[u].todo = flush[u].todo
                      /\ flush'[u].processed = flush[u].processed
                      /\ flush'[u].failed = flush[u].failed
                      /\ flush'[u].active = flush[u].active
  BY <1>2, FlushFields DEF Flush
<1>4. ~flush'[t].mounted
  BY <1>2, FlushFields DEF Flush
<1>5. TypeOK'
  BY <1>1, <1>2, <1>3, <1>4 DEF Unmount, TypeOK
<1>6. AcceptedIsKeptOrSent' /\ SentOncePerTab'
  BY DEF Unmount, AcceptedIsKeptOrSent, SentOncePerTab
<1>7. ASSUME NEW u \in Tabs
      PROVE  (Accounted(u) /\ NotYetSent(u) /\ flush[u].todo \intersect flush[u].failed = {})'
  BY <1>3 DEF Unmount, Accounted, NotYetSent, MaySend
<1> QED BY <1>5, <1>6, <1>7

\* A send that settles moves its message out of what is still to do.
LEMMA SendNextStep ==
    ASSUME IInv, NEW t \in Tabs, SendNext(t)
    PROVE  IInv'
<1> USE DEF IInv
<1>1. PICK m \in flush[t].todo :
        /\ \/ /\ sent' = [sent EXCEPT ![t][m] = @ + 1]
              /\ flush' = [flush EXCEPT ![t].todo = @ \ {m}]
           \/ /\ flush' = [flush EXCEPT ![t].todo = @ \ {m}, ![t].failed = @ \union {m}]
              /\ UNCHANGED sent
        /\ UNCHANGED <<outbox, written, accepted, ready, timer, faults>>
  BY DEF SendNext
<1>2. m \in Messages /\ m \in flush[t].processed /\ m \notin flush[t].failed
  BY FlushFields
<1>3. flush[t].active
  BY FlushFields
<1>4. sent[t][m] <= faults[t] /\ sent[t][m] \in Nat /\ faults[t] \in Nat
  BY <1>2, OutboxAssumption DEF NotYetSent, MaySend, TypeOK
<1>5. CASE /\ sent' = [sent EXCEPT ![t][m] = @ + 1]
           /\ flush' = [flush EXCEPT ![t].todo = @ \ {m}]
  <2>1. /\ flush' \in [Tabs -> Flush]
        /\ flush'[t].todo = flush[t].todo \ {m} /\ flush'[t].failed = flush[t].failed
        /\ flush'[t].processed = flush[t].processed
        /\ flush'[t].active = flush[t].active /\ flush'[t].mounted = flush[t].mounted
        /\ \A u \in Tabs \ {t} : flush'[u] = flush[u]
    <3>1. [flush[t] EXCEPT !.todo = @ \ {m}] \in Flush
      BY FlushFields DEF Flush
    <3>2. flush' = [flush EXCEPT ![t] = [flush[t] EXCEPT !.todo = @ \ {m}]]
      BY <1>5
    <3> QED BY <3>1, <3>2, FlushFields DEF TypeOK, Flush
  <2>2. /\ sent' \in [Tabs -> [Messages -> Nat]]
        /\ sent'[t][m] = sent[t][m] + 1
        /\ \A u \in Tabs : \A n \in Messages : (u # t \/ n # m) => sent'[u][n] = sent[u][n]
    BY <1>5, <1>2 DEF TypeOK
  <2>3. TypeOK'
    <3>1. ASSUME NEW u \in Tabs
          PROVE  /\ flush'[u].todo \subseteq flush'[u].processed
                 /\ flush'[u].failed \subseteq flush'[u].processed
                 /\ flush'[u].processed \subseteq accepted
                 /\ flush'[u].active \/ flush'[u].processed = {}
                 /\ flush'[u].mounted => ready[u]
                 /\ timer[u] => (ready[u] /\ ~flush'[u].mounted)
      BY <2>1, <1>3 DEF TypeOK
    <3> QED BY <3>1, <2>1, <2>2, <1>1 DEF TypeOK
  <2>4. AcceptedIsKeptOrSent'
    <3> SUFFICES ASSUME NEW n \in accepted
                 PROVE  n \in outbox \/ \E u \in Tabs : sent'[u][n] > 0
      BY <1>1 DEF AcceptedIsKeptOrSent
    <3>1. n \in Messages
      BY DEF TypeOK
    <3>2. CASE n = m
      BY <3>2, <2>2, <1>4
    <3>3. CASE n # m
      BY <3>1, <3>3, <2>2 DEF AcceptedIsKeptOrSent
    <3> QED BY <3>2, <3>3
  <2>5. SentOncePerTab'
    BY <2>2, <1>1, <1>4 DEF SentOncePerTab, TypeOK
  <2>6. ASSUME NEW u \in Tabs
        PROVE  (Accounted(u) /\ NotYetSent(u) /\ flush[u].todo \intersect flush[u].failed = {})'
    <3>1. CASE u # t
      BY <3>1, <2>1, <2>2, <1>1, FlushFields DEF Accounted, NotYetSent, MaySend
    <3>2. CASE u = t
      <4>1. Accounted(t)'
        BY <2>1, <2>2, <1>2, <1>4, FlushFields DEF Accounted
      <4>2. ~MaySend(t, m)'
        BY <2>1, <1>1, <1>2, FlushFields DEF MaySend, TypeOK
      <4>3. NotYetSent(t)'
        BY <4>2, <2>1, <2>2, <1>1 DEF NotYetSent, MaySend
      <4> QED BY <3>2, <4>1, <4>3, <2>1
    <3> QED BY <3>1, <3>2
  <2> QED BY <2>3, <2>4, <2>5, <2>6
<1>6. CASE /\ flush' = [flush EXCEPT ![t].todo = @ \ {m}, ![t].failed = @ \union {m}]
           /\ UNCHANGED sent
  <2>1. /\ flush' \in [Tabs -> Flush]
        /\ flush'[t].todo = flush[t].todo \ {m}
        /\ flush'[t].failed = flush[t].failed \union {m}
        /\ flush'[t].processed = flush[t].processed
        /\ flush'[t].active = flush[t].active /\ flush'[t].mounted = flush[t].mounted
        /\ \A u \in Tabs \ {t} : flush'[u] = flush[u]
    <3>1. [flush[t] EXCEPT !.todo = @ \ {m}, !.failed = @ \union {m}] \in Flush
      BY <1>2, FlushFields DEF Flush
    <3>2. flush' = [flush EXCEPT ![t] = [flush[t] EXCEPT !.todo = @ \ {m}, !.failed = @ \union {m}]]
      BY <1>6
    <3> QED BY <3>1, <3>2, FlushFields DEF TypeOK, Flush
  <2>3. TypeOK'
    BY <2>1, <1>1, <1>2, <1>3, <1>6 DEF TypeOK
  <2>4. AcceptedIsKeptOrSent' /\ SentOncePerTab'
    BY <1>1, <1>6 DEF AcceptedIsKeptOrSent, SentOncePerTab
  <2>6. ASSUME NEW u \in Tabs
        PROVE  (Accounted(u) /\ NotYetSent(u) /\ flush[u].todo \intersect flush[u].failed = {})'
    <3>1. CASE u # t
      BY <3>1, <2>1, <1>1, <1>6 DEF Accounted, NotYetSent, MaySend
    <3>2. CASE u = t
      <4>1. Accounted(t)'
        BY <2>1, <1>6 DEF Accounted
      <4>2. NotYetSent(t)'
        BY <2>1, <1>1, <1>6 DEF NotYetSent, MaySend
      <4> QED BY <3>2, <4>1, <4>2, <2>1
    <3> QED BY <3>1, <3>2
  <2> QED BY <2>3, <2>4, <2>6
<1> QED BY <1>1, <1>5, <1>6

\* At the end of a flush only what it has sent leaves the queue.
LEMMA FlushEndsStep ==
    ASSUME IInv, NEW t \in Tabs, FlushEnds(t)
    PROVE  IInv'
<1> USE DEF IInv
<1>1. /\ flush[t].active /\ flush[t].todo = {}
      /\ UNCHANGED <<written, accepted, ready, sent>>
  BY DEF FlushEnds
<1>2. /\ NoFlush \in Flush
      /\ NoFlush.todo = {} /\ NoFlush.processed = {} /\ NoFlush.failed = {}
      /\ ~NoFlush.mounted /\ ~NoFlush.active
  BY DEF NoFlush, Flush
<1>3. /\ flush' \in [Tabs -> Flush] /\ flush'[t] = NoFlush
      /\ \A u \in Tabs \ {t} : flush'[u] = flush[u]
  BY <1>2 DEF FlushEnds, TypeOK
<1>4. /\ timer' \in [Tabs -> BOOLEAN]
      /\ timer'[t] => (timer[t] \/ flush[t].mounted)
      /\ \A u \in Tabs \ {t} : timer'[u] = timer[u]
  <2>1. (timer[t] \/ (flush[t].mounted /\ outbox' # {})) \in BOOLEAN
    OBVIOUS
  <2> QED BY <2>1, Zenon DEF FlushEnds, TypeOK
<1>5. /\ faults' \in [Tabs -> 0..MaxFaults]
      /\ \A u \in Tabs : faults[u] <= faults'[u]
      /\ faults'[t] = faults[t] => outbox' = Remains(outbox, flush[t])
      /\ faults'[t] = faults[t] \/ faults'[t] = faults[t] + 1
  <2>1. faults \in [Tabs -> 0..MaxFaults] /\ MaxFaults \in Nat
    BY OutboxAssumption DEF TypeOK
  <2>2. CASE faults' = faults /\ outbox' = Remains(outbox, flush[t])
    BY <2>1, <2>2
  <2>3. CASE faults[t] < MaxFaults /\ faults' = [faults EXCEPT ![t] = @ + 1]
    BY <2>1, <2>3
  <2> QED BY <2>2, <2>3 DEF FlushEnds
<1>6. /\ outbox' \subseteq outbox
      /\ \A m \in outbox \ outbox' : m \in flush[t].processed /\ m \notin flush[t].failed
  BY DEF FlushEnds, Remains
<1>7. TypeOK'
  <2>1. ASSUME NEW u \in Tabs
        PROVE  /\ flush'[u].todo \subseteq flush'[u].processed
               /\ flush'[u].failed \subseteq flush'[u].processed
               /\ flush'[u].processed \subseteq accepted
               /\ flush'[u].active \/ flush'[u].processed = {}
               /\ flush'[u].mounted => ready[u]
               /\ timer'[u] => (ready[u] /\ ~flush'[u].mounted)
    BY <1>2, <1>3, <1>4 DEF TypeOK
  <2> QED BY <2>1, <1>1, <1>3, <1>4, <1>5, <1>6 DEF TypeOK
<1>8. AcceptedIsKeptOrSent'
  <2> SUFFICES ASSUME NEW m \in accepted
               PROVE  m \in outbox' \/ \E u \in Tabs : sent[u][m] > 0
    BY <1>1 DEF AcceptedIsKeptOrSent
  <2>1. CASE m \in outbox \ outbox'
    BY <2>1, <1>1, <1>6 DEF Accounted
  <2> QED BY <2>1 DEF AcceptedIsKeptOrSent
<1>9. SentOncePerTab'
  <2> SUFFICES ASSUME NEW u \in Tabs, NEW m \in Messages PROVE sent[u][m] <= 1 + faults'[u]
    BY <1>1 DEF SentOncePerTab
  <2>1. sent[u][m] <= 1 + faults[u] /\ faults[u] <= faults'[u]
    BY <1>5 DEF SentOncePerTab
  <2>2. sent[u][m] \in Nat /\ faults[u] \in Nat /\ faults'[u] \in Nat
    BY <1>5, OutboxAssumption DEF TypeOK
  <2> QED BY <2>1, <2>2
<1>10. ASSUME NEW u \in Tabs
       PROVE  (Accounted(u) /\ NotYetSent(u) /\ flush[u].todo \intersect flush[u].failed = {})'
  <2>1. Accounted(u)' /\ flush'[u].todo \intersect flush'[u].failed = {}
    BY <1>1, <1>2, <1>3 DEF Accounted
  <2>2. ASSUME NEW m \in Messages, MaySend(u, m)'
        PROVE  sent[u][m] <= faults'[u]
    <3>1. /\ sent[u][m] \in Nat /\ faults[u] \in Nat /\ faults'[u] \in Nat
          /\ faults[u] <= faults'[u]
      BY <1>5, OutboxAssumption DEF TypeOK
    <3>2. CASE MaySend(u, m)
      <4>1. sent[u][m] <= faults[u]
        BY <3>2 DEF NotYetSent
      <4> QED BY <4>1, <3>1
    <3>3. CASE ~MaySend(u, m)
      <4>1. u = t
        BY <2>2, <3>3, <1>1, <1>3, <1>6 DEF MaySend
      <4>2. m \in outbox' /\ m \in flush[t].processed /\ m \notin flush[t].failed
        BY <2>2, <3>3, <4>1, <1>1, <1>2, <1>3, <1>6 DEF MaySend
      <4>3. faults'[t] # faults[t]
        BY <4>2, <1>5 DEF Remains
      <4>4. sent[t][m] <= 1 + faults[t] /\ faults'[t] = faults[t] + 1
        BY <4>3, <1>5 DEF SentOncePerTab
      <4> QED BY <4>1, <4>4, <3>1
    <3> QED BY <3>2, <3>3
  <2> QED BY <2>1, <2>2, <1>1 DEF NotYetSent
<1> QED BY <1>7, <1>8, <1>9, <1>10

\* A new message is sent once, queued, or neither.
LEMMA SendStep ==
    ASSUME IInv, NEW t \in Tabs, NEW m \in Messages, Send(t, m)
    PROVE  IInv'
<1> USE DEF IInv
<1>1. /\ m \notin written /\ written' = written \union {m}
      /\ UNCHANGED <<ready, timer, flush, faults>>
  BY DEF Send
<1>2. \A u \in Tabs : m \notin flush[u].processed /\ m \notin flush[u].todo
                      /\ m \notin flush[u].failed /\ m \notin outbox
  BY <1>1, FlushFields DEF TypeOK
<1>3. \A u \in Tabs : sent[u][m] <= faults[u] /\ sent[u][m] \in Nat /\ faults[u] \in Nat
  BY <1>1, OutboxAssumption DEF NotYetSent, MaySend, TypeOK
<1>4. CASE sent' = [sent EXCEPT ![t][m] = @ + 1] /\ UNCHANGED <<outbox, accepted>>
  <2>1. /\ sent' \in [Tabs -> [Messages -> Nat]]
        /\ sent'[t][m] = sent[t][m] + 1
        /\ \A u \in Tabs : \A n \in Messages : (u # t \/ n # m) => sent'[u][n] = sent[u][n]
    BY <1>4 DEF TypeOK
  <2>2. TypeOK'
    BY <2>1, <1>1, <1>4 DEF TypeOK
  <2>3. AcceptedIsKeptOrSent'
    BY <2>1, <1>1, <1>4 DEF AcceptedIsKeptOrSent, TypeOK
  <2>4. SentOncePerTab'
    BY <2>1, <1>1, <1>3 DEF SentOncePerTab
  <2>5. ASSUME NEW u \in Tabs
        PROVE  (Accounted(u) /\ NotYetSent(u) /\ flush[u].todo \intersect flush[u].failed = {})'
    <3>1. Accounted(u)'
      BY <2>1, <1>1, <1>2, FlushFields DEF Accounted
    <3>2. ASSUME NEW n \in Messages, MaySend(u, n)'
          PROVE  n # m /\ MaySend(u, n)
      BY <3>2, <1>1, <1>2, <1>4 DEF MaySend
    <3>3. NotYetSent(u)'
      BY <3>2, <2>1, <1>1 DEF NotYetSent
    <3> QED BY <3>1, <3>3, <1>1
  <2> QED BY <2>2, <2>3, <2>4, <2>5
<1>5. CASE /\ outbox' = outbox \union {m} /\ accepted' = accepted \union {m}
           /\ UNCHANGED sent
  <2>2. TypeOK'
    BY <1>1, <1>5 DEF TypeOK
  <2>3. AcceptedIsKeptOrSent' /\ SentOncePerTab'
    BY <1>1, <1>5 DEF AcceptedIsKeptOrSent, SentOncePerTab
  <2>4. ASSUME NEW u \in Tabs
        PROVE  (Accounted(u) /\ NotYetSent(u) /\ flush[u].todo \intersect flush[u].failed = {})'
    BY <1>1, <1>3, <1>5 DEF Accounted, NotYetSent, MaySend
  <2> QED BY <2>2, <2>3, <2>4
<1>6. CASE UNCHANGED <<outbox, accepted, sent>>
  <2>2. TypeOK'
    BY <1>1, <1>6 DEF TypeOK
  <2>3. AcceptedIsKeptOrSent' /\ SentOncePerTab'
    BY <1>1, <1>6 DEF AcceptedIsKeptOrSent, SentOncePerTab
  <2>4. ASSUME NEW u \in Tabs
        PROVE  (Accounted(u) /\ NotYetSent(u) /\ flush[u].todo \intersect flush[u].failed = {})'
    BY <1>1, <1>6 DEF Accounted, NotYetSent, MaySend
  <2> QED BY <2>2, <2>3, <2>4
<1> QED BY <1>4, <1>5, <1>6 DEF Send

\* What a tab has sent when it is closed is forgiven by its fault.
LEMMA CloseTabStep ==
    ASSUME IInv, NEW t \in Tabs, CloseTab(t)
    PROVE  IInv'
<1> USE DEF IInv
<1>1. /\ NoFlush \in Flush
      /\ NoFlush.todo = {} /\ NoFlush.processed = {} /\ NoFlush.failed = {}
      /\ ~NoFlush.mounted /\ ~NoFlush.active
  BY DEF NoFlush, Flush
<1>2. UNCHANGED <<outbox, written, accepted, sent>>
  BY DEF CloseTab
<1>3. /\ flush' \in [Tabs -> Flush] /\ flush'[t] = NoFlush
      /\ \A u \in Tabs \ {t} : flush'[u] = flush[u]
  BY <1>1 DEF CloseTab, TypeOK
<1>4. /\ timer' \in [Tabs -> BOOLEAN] /\ ready' \in [Tabs -> BOOLEAN]
      /\ ~timer'[t] /\ ~ready'[t]
      /\ \A u \in Tabs \ {t} : timer'[u] = timer[u] /\ ready'[u] = ready[u]
  BY Zenon DEF CloseTab, TypeOK
<1>5. /\ faults' \in [Tabs -> 0..MaxFaults] /\ faults'[t] = faults[t] + 1
      /\ \A u \in Tabs \ {t} : faults'[u] = faults[u]
  BY OutboxAssumption DEF CloseTab, TypeOK
<1>6. \A u \in Tabs : /\ faults[u] \in Nat /\ faults'[u] \in Nat
                      /\ \A m \in Messages : sent[u][m] \in Nat
  BY <1>5, OutboxAssumption DEF TypeOK
<1>7. TypeOK'
  <2>1. ASSUME NEW u \in Tabs
        PROVE  /\ flush'[u].todo \subseteq flush'[u].processed
               /\ flush'[u].failed \subseteq flush'[u].processed
               /\ flush'[u].processed \subseteq accepted
               /\ flush'[u].active \/ flush'[u].processed = {}
               /\ flush'[u].mounted => ready'[u]
               /\ timer'[u] => (ready'[u] /\ ~flush'[u].mounted)
    BY <1>1, <1>3, <1>4 DEF TypeOK
  <2> QED BY <2>1, <1>2, <1>3, <1>4, <1>5 DEF TypeOK
<1>8. AcceptedIsKeptOrSent'
  BY <1>2 DEF AcceptedIsKeptOrSent
<1>9. SentOncePerTab'
  BY <1>2, <1>5, <1>6 DEF SentOncePerTab
<1>10. ASSUME NEW u \in Tabs
       PROVE  (Accounted(u) /\ NotYetSent(u) /\ flush[u].todo \intersect flush[u].failed = {})'
  <2>1. CASE u = t
    <3>1. \A m \in Messages : sent[t][m] <= faults'[t]
      BY <1>5, <1>6 DEF SentOncePerTab
    <3> QED BY <2>1, <3>1, <1>1, <1>2, <1>3 DEF Accounted, NotYetSent
  <2>2. CASE u # t
    BY <2>2, <1>2, <1>3, <1>5 DEF Accounted, NotYetSent, MaySend
  <2> QED BY <2>1, <2>2
<1> QED BY <1>7, <1>8, <1>9, <1>10

\* No step of any tab disturbs the invariant.
LEMMA NextIInv == IInv /\ [Next]_vars => IInv'
<1> SUFFICES ASSUME IInv, [Next]_vars PROVE IInv'
  OBVIOUS
<1>1. ASSUME NEW t \in Tabs, Mount(t)
      PROVE  IInv'
  <2>1. /\ ready' \in [Tabs -> BOOLEAN] /\ ready'[t]
        /\ \A u \in Tabs \ {t} : ready'[u] = ready[u]
    BY <1>1 DEF Mount, IInv, TypeOK
  <2> QED BY <1>1, <2>1, FlushPendingStep DEF Mount
<1>2. ASSUME NEW t \in Tabs, ServerConnected(t) \/ TimerFires(t)
      PROVE  IInv'
  <2>1. ready' = ready /\ ready \in [Tabs -> BOOLEAN] /\ ready[t]
    BY <1>2 DEF ServerConnected, TimerFires, IInv, TypeOK
  <2> QED BY <1>2, <2>1, FlushPendingStep DEF ServerConnected, TimerFires
<1>3. ASSUME NEW t \in Tabs, Unmount(t) \/ SendNext(t) \/ FlushEnds(t) \/ CloseTab(t)
      PROVE  IInv'
  BY <1>3, UnmountStep, SendNextStep, FlushEndsStep, CloseTabStep
<1>4. ASSUME NEW t \in Tabs, NEW m \in Messages, Send(t, m)
      PROVE  IInv'
  BY <1>4, SendStep
<1>5. CASE UNCHANGED vars
  BY <1>5 DEF vars, IInv, TypeOK, AcceptedIsKeptOrSent, SentOncePerTab, Accounted,
              NotYetSent, MaySend
<1> QED BY <1>1, <1>2, <1>3, <1>4, <1>5 DEF Next

\* The flushes, the stored queue and what was sent agree, in every tab.
THEOREM InductiveInvariant == Spec => []IInv
  BY InitIInv, NextIInv, PTL DEF Spec

\* A message that enqueueMessage has stored is still stored or was sent,
\* however many tabs flush, are closed, or fail to save.
THEOREM NoMessageIsLost == Spec => []AcceptedIsKeptOrSent
<1>1. IInv => AcceptedIsKeptOrSent
  BY DEF IInv
<1> QED BY <1>1, InductiveInvariant, PTL

\* A tab repeats a message at most once for each time it was closed or could
\* not save the queue.
THEOREM NoNeedlessRepeat == Spec => []SentOncePerTab
<1>1. IInv => SentOncePerTab
  BY DEF IInv
<1> QED BY <1>1, InductiveInvariant, PTL

-----------------------------------------------------------------------------
(* Start and stop of the node *)

\* Whatever exists is in the window, or starts while none is; a node that is
\* neither was left behind while it stopped.
SoleNode ==
    /\ \A n, k \in Nodes : Running(n) /\ Running(k) => n = k
    /\ bridge # NoNode => peer[bridge].state \in {"up", "stopping"}
    /\ \A n \in Nodes : peer[n].state = "up" => bridge = n
    /\ \A n \in Nodes : peer[n].state = "starting" => bridge = NoNode
    /\ ~outrun => \A n \in Nodes : peer[n].state = "stopping" => bridge = n
    /\ route = "app" <=> completed

\* One call stops the network of a node, and the node is in the window as long
\* as that call is under way, unless another one has returned before.
OneStopper ==
    /\ \A x \in stops : x.pc = "stopping" => peer[x.node].state = "stopping"
    /\ \A x, y \in stops : (x.pc = "stopping" /\ y.pc = "stopping" /\ x.node = y.node) => x = y
    /\ (bridge # NoNode /\ peer[bridge].state = "stopping") =>
          \E x \in stops : x.node = bridge /\ x.pc = "stopping"
    /\ \A n \in Nodes : peer[n].state = "starting" => \A x \in stops : x.node # n

Starting(s) == starter[s].pc \in {"asking", "waiting"}

\* As long as nothing has overlapped: before the user is set up only pages start a
\* node, and afterwards one run of the effect at a time, while there is none.
OneStarts ==
    /\ InFlight \subseteq IF completed THEN Runs ELSE Pages
    /\ \A s \in InFlight : starter[s].pc = "waiting" =>
          starter[s].node \in Nodes /\ peer[starter[s].node].state = "starting"
    /\ \A n \in Nodes : peer[n].state = "starting" => \E s \in Starters :
          starter[s].pc = "waiting" /\ starter[s].node = n
    /\ \A s \in Pages : starter[s].pc # "stopping"
    /\ \A s \in InFlight \cap Runs :
          /\ starter[s].active /\ \A t \in InFlight : t = s
          /\ starter[s].pc = "stopping" => starter[s].again
          /\ Starting(s) => bridge = NoNode /\ stops = {}

\* ... one stops, the node in the window, and leaves something that starts the next.
OneStops ==
    \A x \in stops :
        /\ x.node = bridge /\ \A y \in stops : y = x
        /\ x.pc = "closing" => peer[x.node].state = "up"
        /\ x.by \notin Pages
        /\ x.by \in Runs => starter[x.by].pc = "stopping"
        /\ x.by = "signOut" => completed /\ InFlight = {}
        /\ (x.by = "phone" /\ completed) => due \/ ~foreground

\* ... a user who is set up has a node, or will have one, or sees the error.
WillHaveNode ==
    completed => bridge # NoNode \/ bridgeError \/ due \/ InFlight # {} \/ ~foreground

\* The node that starts or is in the window.
Current(n) == peer[n].state = "starting" \/ bridge = n

\* ... the node that starts or is in the window is of the account signed in,
OfThisAccount ==
    /\ \A n \in Nodes : Current(n) => peer[n].account = account
    /\ \A s \in Starters : Starting(s) => starter[s].account = account

\* ... and has the newest configuration, unless it is about to be replaced.
OfThisConfig ==
    /\ \A n \in Nodes : Current(n) =>
          peer[n].config <= config /\ (~completed => peer[n].config = config \/ pending)
    /\ \A s \in Starters : Starting(s) =>
          starter[s].config <= config /\ (~completed => starter[s].config = config \/ pending)
    /\ \A s \in Runs : starter[s].pc = "waiting" =>
          starter[s].config <= peer[starter[s].node].config
    /\ (completed /\ bridge # NoNode) =>
          peer[bridge].config = config \/ stops # {} \/ (pending /\ due)

\* What holds as long as nothing has overlapped.
Orderly == OneStarts /\ OneStops /\ WillHaveNode /\ OfThisAccount /\ OfThisConfig

\* Each change and each sign-out, also one under way, was an act of the user.
WithinActs ==
    /\ config <= shellActs /\ account <= shellActs
    /\ \A x \in stops : x.by = "signOut" =>
          account < shellActs /\ \A y \in stops : y.by = "signOut" => y = x

ShellIInv == ShellTypeOK /\ WithinActs /\ SoleNode /\ OneStopper /\ (~crossed => Orderly)

\* An act of the user counts within the bound, and stops a node that exists.
LEMMA ActCounts == ASSUME ShellTypeOK, ShellAct PROVE shellActs' \in 0..ShellMaxActs
BY ShellAssumption DEF ShellTypeOK, ShellAct

(* The number of failures stays within its bound. *)
LEMMA FailCounts ==
    ASSUME ShellTypeOK, shellFails < ShellMaxFails, shellFails' = shellFails + 1
    PROVE  shellFails' \in 0..ShellMaxFails
BY ShellAssumption DEF ShellTypeOK

StopRecords == [node : Nodes, by : Starters \cup {"settings", "phone", "signOut"},
                nr : 0..ShellMaxActs, pc : {"closing", "stopping"}]

(* A stopping of a node has its type, its node and whoever asked for it. *)
LEMMA StopTyped ==
    ASSUME ShellTypeOK, NEW n \in Nodes,
           NEW who \in Starters \cup {"settings", "phone", "signOut"}
    PROVE  /\ Stop(n, who) \in StopRecords
           /\ Stop(n, who).node = n /\ Stop(n, who).by = who /\ Stop(n, who).pc = "closing"
BY DEF ShellTypeOK, Stop, StopRecords

\* Another call on the node in the window does not stop its network yet.
LEMMA StopperKept ==
    ASSUME OneStopper, SoleNode, ShellTypeOK, UNCHANGED <<peer, bridge>>,
           NEW y, bridge # NoNode => y.node = bridge /\ y.pc = "closing",
           stops' = stops \/ (bridge # NoNode /\ stops' = stops \cup {y})
    PROVE  OneStopper'
<1>1. CASE stops' = stops
  BY <1>1 DEF OneStopper
<1>2. CASE bridge # NoNode /\ stops' = stops \cup {y}
  <2>1. \A n \in Nodes : peer[n].state = "starting" => n # bridge
    BY <1>2 DEF SoleNode
  <2> QED BY <1>2, <2>1 DEF OneStopper
<1> QED BY <1>1, <1>2

(* A node in the window that no call stops is up. *)
LEMMA UpWhenUnstopped ==
    ASSUME SoleNode, OneStopper, bridge # NoNode, stops = {} PROVE peer[bridge].state = "up"
BY DEF SoleNode, OneStopper

\* Only a run of the effect is called as one.
LEMMA NotARun ==
    /\ "settings" \notin Starters /\ "phone" \notin Starters /\ "signOut" \notin Starters
    /\ \A s \in Starters : s \notin Runs <=> s \in Pages
BY ShellAssumption DEF Starters, Pages

(* Retry after a failure keeps the invariant. *)
LEMMA RetryStep == ASSUME ShellIInv, Retry PROVE ShellIInv'
<1>1. ShellTypeOK'
  BY ActCounts DEF ShellIInv, ShellTypeOK, Retry
<1>2. WithinActs' /\ SoleNode' /\ OneStopper'
  BY ShellAssumption
     DEF ShellIInv, WithinActs, SoleNode, Running, OneStopper, Retry, ShellAct, ShellTypeOK
<1>3. ASSUME ~crossed' PROVE Orderly'
  BY <1>3 DEF ShellIInv, Orderly, OneStarts, OneStops, WillHaveNode, OfThisAccount,
              OfThisConfig, Current, InFlight, Starting, Retry
<1> QED BY <1>1, <1>2, <1>3 DEF ShellIInv, Orderly

(* The resume of a phone keeps the invariant. *)
LEMMA ResumeStep == ASSUME ShellIInv, Resume PROVE ShellIInv'
<1>1. ShellTypeOK'
  BY DEF ShellIInv, ShellTypeOK, Resume
<1>2. WithinActs' /\ SoleNode' /\ OneStopper'
  BY DEF ShellIInv, WithinActs, SoleNode, Running, OneStopper, Resume
<1>3. ASSUME ~crossed' PROVE Orderly'
  BY <1>3 DEF ShellIInv, Orderly, OneStarts, OneStops, WillHaveNode, OfThisAccount,
              OfThisConfig, Current, InFlight, Starting, Resume
<1> QED BY <1>1, <1>2, <1>3 DEF ShellIInv, Orderly

\* The phone stops the node only when no one else does, or is noticed.
LEMMA BackgroundStep == ASSUME ShellIInv, Background PROVE ShellIInv'
<1> DEFINE x == Stop(bridge, "phone")
<1>0. ShellTypeOK /\ SoleNode /\ OneStopper
  BY DEF ShellIInv
<1>1. bridge # NoNode =>
        x \in StopRecords /\ x.node = bridge /\ x.by = "phone" /\ x.pc = "closing"
  BY <1>0, StopTyped DEF ShellTypeOK
<1> HIDE DEF x
<1>2. stops' = stops \/ (bridge # NoNode /\ stops' = stops \cup {x})
  BY DEF Background, x
<1>3. ShellTypeOK'
  <2>1. stops' \subseteq StopRecords
    BY <1>0, <1>1, <1>2 DEF ShellTypeOK, StopRecords
  <2> QED BY <1>0, <2>1, ActCounts DEF ShellTypeOK, StopRecords, Background
<1>4. WithinActs' /\ SoleNode' /\ OneStopper'
  <2>1. config' = config /\ account' = account /\ shellActs' = shellActs + 1
    BY DEF Background, ShellAct
  <2>2. WithinActs'
    BY <1>0, <1>1, <1>2, <2>1, ShellAssumption DEF ShellIInv, WithinActs, ShellTypeOK
  <2>3. UNCHANGED <<peer, bridge, route, completed, outrun>>
    BY DEF Background
  <2>4. OneStopper'
    BY <1>0, <1>1, <1>2, <2>3, StopperKept
  <2> QED BY <1>0, <2>2, <2>3, <2>4 DEF SoleNode, Running
<1>5. ASSUME ~crossed' PROVE Orderly'
  <2>1. Orderly
    BY <1>5 DEF Background, ShellIInv, Orderly
  <2>2. stops' = stops \/ (bridge # NoNode /\ stops = {} /\ stops' = {x})
    BY <1>2, <1>5 DEF Background
  <2>3. OneStarts'
    BY <1>5, <2>1, <2>2 DEF Orderly, OneStarts, InFlight, Starting, Background
  <2>4. OneStops'
    <3>1. UNCHANGED <<bridge, peer, starter, completed, due>> /\ foreground' = FALSE
      BY DEF Background
    <3>2. CASE stops' = stops
      BY <2>1, <3>1, <3>2 DEF Orderly, OneStops, InFlight
    <3>3. CASE bridge # NoNode /\ stops = {} /\ stops' = {x}
      <4>1. peer[bridge].state = "up"
        BY <1>0, <3>3, UpWhenUnstopped
      <4> QED BY <1>1, <3>1, <3>3, <4>1, NotARun DEF OneStops, InFlight, Starters, Pages
    <3> QED BY <2>2, <3>2, <3>3
  <2>5. WillHaveNode'
    BY <2>1 DEF Orderly, WillHaveNode, InFlight, Background
  <2>6. OfThisAccount' /\ OfThisConfig'
    BY <2>1, <2>2 DEF Orderly, OfThisAccount, OfThisConfig, Current, Starting, Background
  <2> QED BY <2>3, <2>4, <2>5, <2>6 DEF Orderly
<1> QED BY <1>3, <1>4, <1>5 DEF ShellIInv, Orderly

\* A change of the configuration stops the node that has the old one.
LEMMA ChangeConfigStep == ASSUME ShellIInv, ChangeConfig PROVE ShellIInv'
<1> DEFINE x == Stop(bridge, "settings")
<1>0. ShellTypeOK /\ SoleNode /\ OneStopper /\ WithinActs
  BY DEF ShellIInv
<1>1. bridge # NoNode =>
        x \in StopRecords /\ x.node = bridge /\ x.by = "settings" /\ x.pc = "closing"
  BY <1>0, StopTyped DEF ShellTypeOK
<1> HIDE DEF x
<1>2. \/ stops' = stops /\ ~(bridge # NoNode /\ completed)
      \/ bridge # NoNode /\ completed /\ stops' = stops \cup {x}
           /\ crossed' = (crossed \/ stops # {})
  BY <1>0 DEF ChangeConfig, SoleNode, x
<1>3. config' = config + 1 /\ shellActs' = shellActs + 1 /\ account' = account
  BY DEF ChangeConfig, ShellAct
<1>4. ShellTypeOK' /\ WithinActs'
  <2>1. stops' \subseteq StopRecords
    BY <1>0, <1>1, <1>2 DEF ShellTypeOK, StopRecords
  <2>2. shellActs' \in 0..ShellMaxActs /\ config' \in 0..ShellMaxActs
    BY <1>0, <1>3, ActCounts, ShellAssumption DEF ShellTypeOK, WithinActs, ChangeConfig
  <2>3. WithinActs'
    BY <1>0, <1>1, <1>2, <1>3, ShellAssumption DEF WithinActs, ShellTypeOK
  <2> QED BY <1>0, <2>1, <2>2, <2>3 DEF ShellTypeOK, StopRecords, ChangeConfig
<1>5. SoleNode' /\ OneStopper'
  <2>1. UNCHANGED <<peer, bridge, route, completed, outrun>>
    BY DEF ChangeConfig
  <2>2. OneStopper'
    BY <1>0, <1>1, <1>2, <2>1, StopperKept
  <2> QED BY <1>0, <2>1, <2>2 DEF SoleNode, Running
<1>6. ASSUME ~crossed' PROVE Orderly'
  <2>1. Orderly
    BY <1>6 DEF ChangeConfig, ShellIInv, Orderly
  <2>2. \/ stops' = stops /\ (bridge = NoNode \/ ~completed)
        \/ bridge # NoNode /\ completed /\ stops = {} /\ stops' = {x}
    BY <1>2, <1>6
  <2>3. OneStarts'
    BY <2>1, <2>2 DEF Orderly, OneStarts, InFlight, Starting, ChangeConfig
  <2>4. OneStops'
    <3>1. UNCHANGED <<bridge, peer, starter, completed, due, foreground>>
      BY DEF ChangeConfig
    <3>2. CASE stops' = stops
      BY <2>1, <3>1, <3>2 DEF Orderly, OneStops, InFlight
    <3>3. CASE bridge # NoNode /\ stops = {} /\ stops' = {x}
      <4>1. peer[bridge].state = "up"
        BY <1>0, <3>3, UpWhenUnstopped
      <4> QED BY <1>1, <3>1, <3>3, <4>1, NotARun DEF OneStops, InFlight, Starters, Pages
    <3> QED BY <2>2, <3>2, <3>3
  <2>5. WillHaveNode' /\ OfThisAccount'
    BY <2>1 DEF Orderly, WillHaveNode, OfThisAccount, Current, InFlight, Starting, ChangeConfig
  <2>6. OfThisConfig'
    <3>1. UNCHANGED <<peer, starter, completed, bridge>> /\ (~completed => pending')
      BY <1>0 DEF ChangeConfig, SoleNode, ShellTypeOK
    <3>2. \A n \in Nodes : peer[n].config \in Nat
      BY <1>0, ShellAssumption DEF ShellTypeOK
    <3>3. \A s \in Starters : starter[s].config \in Nat
      BY <1>0, ShellAssumption DEF ShellTypeOK
    <3>4. config \in Nat
      BY <1>0, ShellAssumption DEF ShellTypeOK
    <3> QED BY <1>3, <2>1, <2>2, <3>1, <3>2, <3>3, <3>4
            DEF Orderly, OfThisConfig, Current, Starting, Starters
  <2> QED BY <2>3, <2>4, <2>5, <2>6 DEF Orderly
<1> QED BY <1>4, <1>5, <1>6 DEF ShellIInv

\* With no node in the window and nothing in flight the account may change.
LEMMA NoNodeIsLeft ==
    ASSUME SoleNode, OneStarts, ShellTypeOK, bridge = NoNode, InFlight = {}, NEW n \in Nodes
    PROVE  ~Running(n) /\ ~Current(n)
<1>1. n # NoNode
  BY ShellAssumption DEF ShellTypeOK, NoNode
<1>2. peer[n].state # "up"
  BY <1>1 DEF SoleNode
<1>3. peer[n].state # "starting"
  BY DEF OneStarts, InFlight
<1> QED BY <1>1, <1>2, <1>3 DEF Running, Current

\* Signing out waits for nothing if there is no node, and stops it otherwise.
LEMMA SignOutStep == ASSUME ShellIInv, SignOut PROVE ShellIInv'
<1> DEFINE x == Stop(bridge, "signOut")
<1>0. ShellTypeOK /\ SoleNode /\ OneStopper /\ WithinActs
  BY DEF ShellIInv
<1>1. bridge # NoNode =>
        x \in StopRecords /\ x.node = bridge /\ x.by = "signOut" /\ x.pc = "closing"
  BY <1>0, StopTyped DEF ShellTypeOK
<1>2. \/ bridge = NoNode /\ SignedOut /\ stops' = stops
      \/ bridge # NoNode /\ stops' = stops \cup {x}
           /\ UNCHANGED <<account, completed, route, due>>
  BY DEF SignOut
<1> HIDE DEF x
<1>3. /\ shellActs' = shellActs + 1 /\ completed /\ \A y \in stops : y.by # "signOut"
      /\ UNCHANGED <<config, pending, bridge, peer, starter, bridgeError, foreground, outrun,
                     shellFails>>
      /\ crossed' = (crossed \/ stops # {} \/ InFlight # {})
  BY <1>0 DEF SignOut, ShellAct, SoleNode
<1>4. ShellTypeOK' /\ WithinActs'
  <2>1. stops' \subseteq StopRecords
    BY <1>0, <1>1, <1>2 DEF ShellTypeOK, StopRecords
  <2>2. shellActs' \in 0..ShellMaxActs
    BY <1>0, ActCounts DEF SignOut
  <2>5. /\ config \in Nat /\ account \in Nat /\ shellActs \in Nat /\ ShellMaxActs \in Nat
        /\ config <= shellActs /\ account <= shellActs
    BY <1>0, ShellAssumption DEF ShellTypeOK, WithinActs
  <2>6. account' = account \/ (account' = account + 1 /\ bridge = NoNode /\ stops' = stops)
    BY <1>2 DEF SignedOut
  <2>3. account' \in 0..ShellMaxActs
    <3>1. account' = account \/ account' = account + 1
      BY <2>6
    <3>2. shellActs' = shellActs + 1
      BY <1>3
    <3> QED BY <2>2, <2>5, <3>1, <3>2
  <2>4. WithinActs'
    <3>1. CASE bridge = NoNode /\ stops' = stops
      BY <1>3, <2>5, <2>6, <3>1 DEF WithinActs
    <3>2. CASE bridge # NoNode /\ stops' = stops \cup {x} /\ account' = account
      BY <1>1, <1>3, <2>5, <3>2 DEF WithinActs
    <3> QED BY <1>2, <3>1, <3>2
  <2> QED BY <1>0, <1>2, <1>3, <2>1, <2>2, <2>3, <2>4 DEF ShellTypeOK, StopRecords, SignedOut
<1>5. SoleNode' /\ OneStopper'
  <2>1. SoleNode'
    BY <1>0, <1>2, <1>3 DEF SoleNode, Running, SignedOut
  <2>2. OneStopper'
    BY <1>0, <1>1, <1>2, <1>3, StopperKept
  <2> QED BY <2>1, <2>2
<1>6. ASSUME ~crossed' PROVE Orderly'
  <2>1. Orderly /\ stops = {} /\ InFlight = {}
    BY <1>3, <1>6 DEF ShellIInv, Orderly
  <2>2. \A s \in Starters : starter[s].pc = "idle" /\ starter'[s].pc = "idle"
    BY <1>3, <2>1 DEF InFlight
  <2>3. InFlight' = {}
    BY <2>2 DEF InFlight
  <2>4. Runs \subseteq Starters /\ Pages \subseteq Starters
    BY DEF Starters
  <2>5. CASE bridge = NoNode /\ SignedOut /\ stops' = stops
    <3>1. \A n \in Nodes : ~Running(n) /\ ~Current(n)
      BY <1>0, <2>1, <2>5, NoNodeIsLeft DEF Orderly
    <3>2. \A n \in Nodes : ~Running(n)' /\ ~Current(n)'
      BY <1>3, <3>1 DEF Running, Current
    <3>3. completed' = FALSE
      BY <2>5 DEF SignedOut
    <3>4. OneStarts' /\ OneStops'
      BY <2>1, <2>2, <2>3, <2>4, <2>5, <3>2, <3>3 DEF OneStarts, OneStops, Running, Starting
    <3>5. WillHaveNode' /\ OfThisAccount' /\ OfThisConfig'
      BY <2>2, <2>4, <3>2, <3>3 DEF WillHaveNode, OfThisAccount, OfThisConfig, Starting
    <3> QED BY <3>4, <3>5 DEF Orderly
  <2>6. CASE bridge # NoNode /\ stops' = {x} /\ UNCHANGED <<account, completed, route, due>>
    <3>1. OneStarts'
      BY <1>3, <2>1, <2>2, <2>3, <2>4, <2>6 DEF Orderly, OneStarts, InFlight, Starting
    <3>2. OneStops'
      <4>1. peer[bridge].state = "up"
        BY <1>0, <2>1, <2>6, UpWhenUnstopped
      <4> QED BY <1>1, <1>3, <2>3, <2>6, <4>1, NotARun DEF OneStops, Starters, Pages
    <3>3. WillHaveNode' /\ OfThisAccount' /\ OfThisConfig'
      BY <1>3, <2>1, <2>2, <2>4, <2>6
         DEF Orderly, WillHaveNode, OfThisAccount, OfThisConfig, Current, Starting
    <3> QED BY <3>1, <3>2, <3>3 DEF Orderly
  <2> QED BY <1>2, <2>1, <2>5, <2>6
<1> QED BY <1>4, <1>5, <1>6 DEF ShellIInv

\* A start that fails leaves no node, and an active run shows it.
LEMMA NodeFailsStep == ASSUME ShellIInv, NEW n \in Nodes, NodeFails(n) PROVE ShellIInv'
<1>0. ShellTypeOK /\ SoleNode /\ OneStopper /\ WithinActs
  BY DEF ShellIInv
<1>1. /\ peer[n].state = "starting"
      /\ \/ peer' = [peer EXCEPT ![n] = NoPeer] /\ UNCHANGED outrun
         \/ peer' = [peer EXCEPT ![n].state = "stopping"] /\ outrun' = TRUE
      /\ starter' = [s \in Starters |-> IF s \in Awaiting(n) THEN Resting ELSE starter[s]]
      /\ bridgeError' = (bridgeError \/ \E s \in Awaiting(n) \cap Runs : starter[s].active)
      /\ UNCHANGED <<route, completed, config, account, pending, due, bridge, stops,
                     foreground, crossed, shellActs>>
  BY DEF NodeFails
<1>2. ShellTypeOK'
  <2>1. peer' \in [Nodes -> [state : PeerStates,
                             config : 0..ShellMaxActs, account : 0..ShellMaxActs]]
    BY <1>0, <1>1, ShellAssumption DEF ShellTypeOK, NoPeer, PeerStates
  <2>2. starter' \in [Starters -> [pc : {"idle", "asking", "waiting", "stopping"},
                                   node : Nodes \cup {NoNode}, active : BOOLEAN,
                                   again : BOOLEAN, config : 0..ShellMaxActs,
                                   account : 0..ShellMaxActs]]
    BY <1>0, <1>1, ShellAssumption DEF ShellTypeOK, Resting
  <2>3. shellFails' \in 0..ShellMaxFails
    BY <1>0, FailCounts DEF NodeFails
  <2>4. bridgeError' \in BOOLEAN
    BY <1>1
  <2> QED BY <1>0, <1>1, <2>1, <2>2, <2>3, <2>4 DEF ShellTypeOK
<1>3. WithinActs'
  BY <1>0, <1>1 DEF WithinActs
<1>4. /\ \A k \in Nodes : ~Running(k)' /\ ~Current(k)'
      /\ bridge = NoNode /\ bridge' = NoNode
      /\ \A k \in Nodes \ {n} : peer'[k] = peer[k]
  <2>1. \A k \in Nodes \ {n} : ~Running(k) /\ peer'[k] = peer[k]
    BY <1>0, <1>1 DEF SoleNode, Running, ShellTypeOK
  <2>2. bridge = NoNode
    BY <1>0, <1>1 DEF SoleNode
  <2>3. peer'[n].state \in {"none", "stopping"}
    BY <1>0, <1>1 DEF ShellTypeOK, NoPeer
  <2>4. \A k \in Nodes : k # NoNode
    BY ShellAssumption DEF NoNode
  <2> QED BY <1>1, <2>1, <2>2, <2>3, <2>4 DEF Running, Current
<1>5. SoleNode' /\ OneStopper'
  <2>1. peer'[n].state = "stopping" => outrun'
    BY <1>0, <1>1 DEF ShellTypeOK, NoPeer
  <2>2. SoleNode'
    BY <1>0, <1>1, <1>4, <2>1 DEF SoleNode, Running
  <2>3. \A x \in stops : x.node # n /\ x.node \in Nodes
    BY <1>0, <1>1 DEF OneStopper, ShellTypeOK
  <2>4. OneStopper'
    BY <1>0, <1>1, <1>4, <2>3 DEF OneStopper, Running
  <2> QED BY <2>2, <2>4
<1>6. ASSUME ~crossed' PROVE Orderly'
  <2>1. Orderly
    BY <1>1, <1>6 DEF ShellIInv
  <2>2. ASSUME NEW s \in Starters
        PROVE  \/ s \in Awaiting(n) /\ starter[s].pc = "waiting" /\ starter'[s].pc = "idle"
               \/ s \notin Awaiting(n) /\ starter[s].pc # "waiting" /\ starter'[s] = starter[s]
    <3>1. starter[s].pc = "waiting" => starter[s].node = n
      BY <1>0, <1>1, <2>1 DEF Orderly, OneStarts, InFlight, SoleNode, Running
    <3> QED BY <1>1, <3>1 DEF Awaiting, Resting
  <2>3. Runs \subseteq Starters /\ Pages \subseteq Starters
    BY DEF Starters
  <2>4. OneStarts'
    <3>1. InFlight' \subseteq InFlight /\ \A s \in InFlight' : starter'[s] = starter[s]
      BY <2>2 DEF InFlight
    <3>2. \A s \in Starters : starter'[s].pc # "waiting"
      BY <2>2
    <3>3. \A s \in Pages : starter'[s].pc # "stopping"
      BY <2>1, <2>2, <2>3 DEF Orderly, OneStarts
    <3>4. \A s \in InFlight' \cap Runs :
            /\ starter'[s].active /\ \A t \in InFlight' : t = s
            /\ starter'[s].pc = "stopping" => starter'[s].again
            /\ Starting(s)' => bridge' = NoNode /\ stops' = {}
      BY <1>1, <2>1, <3>1 DEF Orderly, OneStarts, Starting
    <3>5. InFlight' \subseteq IF completed' THEN Runs ELSE Pages
      BY <1>1, <2>1, <3>1 DEF Orderly, OneStarts
    <3>6. InFlight' \subseteq Starters
      BY DEF InFlight
    <3> QED BY <1>4, <3>2, <3>3, <3>4, <3>5, <3>6 DEF OneStarts, Running
  <2>5. OneStops'
    <3>1. stops = {}
      BY <1>0, <1>4, <2>1, ShellAssumption DEF Orderly, OneStops, ShellTypeOK, NoNode
    <3> QED BY <1>1, <3>1 DEF OneStops
  <2>6. WillHaveNode'
    <3>1. PICK s \in Starters : s \in Awaiting(n) /\ starter[s].pc = "waiting"
      BY <1>1, <2>1 DEF Orderly, OneStarts, Awaiting
    <3>2. completed => s \in Runs /\ starter[s].active
      BY <2>1, <3>1 DEF Orderly, OneStarts, InFlight
    <3> QED BY <1>1, <3>1, <3>2 DEF WillHaveNode
  <2>7. OfThisAccount'
    BY <1>1, <1>4, <2>1, <2>2 DEF Orderly, OfThisAccount, Starting
  <2>8. OfThisConfig'
    BY <1>1, <1>4, <2>1, <2>2, <2>3 DEF Orderly, OfThisConfig, Starting
  <2> QED BY <2>4, <2>5, <2>6, <2>7, <2>8 DEF Orderly
<1> QED BY <1>2, <1>3, <1>5, <1>6 DEF ShellIInv

-----------------------------------------------------------------------------

\* What the return of a call leaves, whether or not it failed.
LEMMA ReturnsTyped ==
    ASSUME ShellTypeOK, NEW x \in stops, Stopped(x) \/ HalfStopped(x)
    PROVE  /\ x \in StopRecords /\ stops' = stops \ {x} /\ stops' \subseteq StopRecords
           /\ bridge' = IF bridge = x.node THEN NoNode ELSE bridge
           /\ bridge' \in Nodes \cup {NoNode} /\ bridge \in Nodes \cup {NoNode}
           /\ peer' \in [Nodes -> [state : PeerStates, config : 0..ShellMaxActs,
                                   account : 0..ShellMaxActs]]
           /\ starter' \in [Starters -> [pc : {"idle", "asking", "waiting", "stopping"},
                                         node : Nodes \cup {NoNode}, active : BOOLEAN,
                                         again : BOOLEAN, config : 0..ShellMaxActs,
                                         account : 0..ShellMaxActs]]
           /\ \A k \in Nodes : k # x.node => peer'[k] = peer[k]
           /\ x.pc = "closing" => peer'[x.node] = peer[x.node] /\ peer[x.node].state # "up"
           /\ x.pc = "stopping" => (peer'[x.node].state = "none"
                               \/ (peer'[x.node] = peer[x.node] /\ outrun'))
           /\ outrun => outrun'
           /\ (x.pc = "closing" /\ peer[x.node].state = "stopping") => outrun'
           /\ \A s \in Starters : IF s = x.by /\ s \in Runs THEN starter'[s] = Resting
                                                            ELSE starter'[s] = starter[s]
<1>1. Returns(x) /\ stops' = stops \ {x} /\ x \in StopRecords /\ stops' \subseteq StopRecords
  BY DEF ShellTypeOK, StopRecords, Stopped, HalfStopped, Returns
<1>2. /\ x.node \in Nodes /\ x.by \in Starters \cup {"settings", "phone", "signOut"}
      /\ x.pc \in {"closing", "stopping"}
  BY <1>1 DEF StopRecords
<1>3. /\ bridge' = IF bridge = x.node THEN NoNode ELSE bridge
      /\ bridge' \in Nodes \cup {NoNode} /\ bridge \in Nodes \cup {NoNode}
  BY <1>1 DEF ShellTypeOK, Returns, Unregistered
<1>4. NoPeer \in [state : PeerStates, config : 0..ShellMaxActs,
                  account : 0..ShellMaxActs] /\ NoPeer.state = "none"
  BY ShellAssumption DEF NoPeer, PeerStates
<1>5. Resting \in [pc : {"idle", "asking", "waiting", "stopping"}, node : Nodes \cup {NoNode},
                   active : BOOLEAN, again : BOOLEAN, config : 0..ShellMaxActs,
                   account : 0..ShellMaxActs]
  BY ShellAssumption DEF Resting
<1>6. \/ /\ x.pc = "stopping" /\ peer' = [peer EXCEPT ![x.node] = NoPeer]
         /\ outrun' = outrun
      \/ /\ x.pc = "stopping" /\ peer' = peer /\ outrun' = TRUE
      \/ /\ x.pc = "closing" /\ peer[x.node].state # "up" /\ peer' = peer
         /\ outrun' = (outrun \/ peer[x.node].state = "stopping")
  BY DEF Stopped, HalfStopped
<1>7. starter' = IF x.by \in Runs THEN [starter EXCEPT ![x.by] = Resting] ELSE starter
  BY <1>1 DEF Returns
<1>8. peer' \in [Nodes -> [state : PeerStates, config : 0..ShellMaxActs,
                           account : 0..ShellMaxActs]]
  BY <1>2, <1>4, <1>6 DEF ShellTypeOK
<1>9. /\ \A k \in Nodes : k # x.node => peer'[k] = peer[k]
      /\ x.pc = "closing" => peer'[x.node] = peer[x.node] /\ peer[x.node].state # "up"
      /\ x.pc = "stopping" => (peer'[x.node].state = "none"
                               \/ (peer'[x.node] = peer[x.node] /\ outrun'))
      /\ outrun => outrun'
      /\ (x.pc = "closing" /\ peer[x.node].state = "stopping") => outrun'
  <2>1. CASE x.pc = "stopping" /\ peer' = [peer EXCEPT ![x.node] = NoPeer] /\ outrun' = outrun
    <3>1. DOMAIN peer = Nodes
      BY DEF ShellTypeOK
    <3>2. peer'[x.node] = NoPeer /\ \A k \in Nodes : k # x.node => peer'[k] = peer[k]
      <4>1. peer'[x.node] = NoPeer
        BY <1>2, <2>1, <3>1
      <4>2. ASSUME NEW k \in Nodes, k # x.node PROVE peer'[k] = peer[k]
        BY <2>1, <3>1, <4>2
      <4> QED BY <4>1, <4>2
    <3>3. peer'[x.node].state = "none"
      BY <1>4, <3>2
    <3>4. outrun => outrun'
      BY <2>1
    <3>5. x.pc # "closing"
      BY <2>1
    <3> QED BY <3>2, <3>3, <3>4, <3>5
  <2>2. CASE x.pc = "stopping" /\ peer' = peer /\ outrun' = TRUE
    BY <2>2
  <2>3. CASE /\ x.pc = "closing" /\ peer[x.node].state # "up" /\ peer' = peer
             /\ outrun' = (outrun \/ peer[x.node].state = "stopping")
    BY <2>3
  <2> QED BY <1>6, <2>1, <2>2, <2>3
<1>10. /\ starter' \in [Starters -> [pc : {"idle", "asking", "waiting", "stopping"},
                                      node : Nodes \cup {NoNode}, active : BOOLEAN,
                                      again : BOOLEAN, config : 0..ShellMaxActs,
                                      account : 0..ShellMaxActs]]
       /\ \A s \in Starters : IF s = x.by /\ s \in Runs THEN starter'[s] = Resting
                                                         ELSE starter'[s] = starter[s]
  BY <1>5, <1>7 DEF ShellTypeOK, Starters
<1> QED BY <1>1, <1>3, <1>8, <1>9, <1>10

\* As long as nothing has overlapped, the call was the only one, on the node in
\* the window, and has stopped its network or failed to.
LEMMA ReturnsOrderly ==
    ASSUME ShellTypeOK, SoleNode, OneStopper, Orderly, NEW x \in stops,
           Stopped(x) \/ HalfStopped(x)
    PROVE  /\ stops' = {} /\ bridge' = NoNode /\ x.node = bridge
           /\ \A k \in Nodes : ~Running(k)' /\ ~Current(k)'
           /\ \A s \in Starters : starter[s].pc # "waiting"
           /\ x.by \in Runs => /\ starter[x.by].active /\ starter[x.by].again
                               /\ \A t \in InFlight : t = x.by
           /\ x.by \notin Pages
           /\ x.by = "signOut" => completed /\ InFlight = {}
           /\ (x.by = "phone" /\ completed) => due \/ ~foreground
<1>1. /\ x.node = bridge /\ \A y \in stops : y = x
      /\ x.pc = "closing" => peer[x.node].state = "up"
      /\ x.by \notin Pages
      /\ x.by \in Runs => starter[x.by].pc = "stopping"
      /\ x.by = "signOut" => completed /\ InFlight = {}
      /\ (x.by = "phone" /\ completed) => due \/ ~foreground
  BY DEF Orderly, OneStops
<1>2. x.node \in Nodes /\ x.pc \in {"closing", "stopping"} /\ \A k \in Nodes : k # NoNode
  BY ShellAssumption DEF ShellTypeOK, NoNode
<1>3. x.pc = "stopping" /\ peer[x.node].state = "stopping"
  BY <1>1, <1>2, ReturnsTyped DEF OneStopper
<1>4. \A k \in Nodes : ~Running(k)
  BY <1>1, <1>2, <1>3 DEF SoleNode, Running
<1>5. stops' = {} /\ bridge' = NoNode
  BY <1>1, ReturnsTyped
<1>6. \A k \in Nodes : ~Running(k)' /\ ~Current(k)'
  BY <1>2, <1>3, <1>4, <1>5, ReturnsTyped DEF Running, Current
<1>7. \A s \in Starters : starter[s].pc # "waiting"
  BY <1>4 DEF Orderly, OneStarts, InFlight, Running
<1>8. x.by \in Runs => /\ starter[x.by].active /\ starter[x.by].again
                       /\ \A t \in InFlight : t = x.by
  BY <1>1 DEF Orderly, OneStarts, InFlight, Starters
<1> QED BY <1>1, <1>5, <1>6, <1>7, <1>8

(* When a call returns, there is still no second node that runs. *)
LEMMA ReturnsSole ==
    ASSUME ShellTypeOK, SoleNode, OneStopper, NEW x \in stops, Stopped(x) \/ HalfStopped(x),
           route' = "app" <=> completed'
    PROVE  SoleNode' /\ OneStopper'
<1>1. /\ \A k \in Nodes : k # x.node => peer'[k] = peer[k]
      /\ x.pc = "closing" => peer'[x.node] = peer[x.node] /\ peer[x.node].state # "up"
      /\ x.pc = "stopping" => (peer'[x.node].state = "none"
                               \/ (peer'[x.node] = peer[x.node] /\ outrun'))
      /\ outrun => outrun'
      /\ (x.pc = "closing" /\ peer[x.node].state = "stopping") => outrun'
      /\ bridge' = IF bridge = x.node THEN NoNode ELSE bridge
      /\ bridge' \in Nodes \cup {NoNode} /\ bridge \in Nodes \cup {NoNode}
      /\ stops' = stops \ {x}
  BY ReturnsTyped
<1>2. /\ x.node \in Nodes /\ x.pc \in {"closing", "stopping"}
      /\ \A k \in Nodes : k # NoNode
      /\ \A y \in stops : y.node \in Nodes
  BY ShellAssumption DEF ShellTypeOK, NoNode
<1>3. x.pc = "stopping" => peer[x.node].state = "stopping"
  BY DEF OneStopper
<1>4. peer'[x.node].state # "up" /\ (peer'[x.node].state = "stopping" => outrun')
  BY <1>1, <1>2, <1>3
<1>5. \A k \in Nodes : Running(k)' => Running(k)
  BY <1>1, <1>2 DEF Running
<1>6. SoleNode'
  <2>1. \A n, k \in Nodes : Running(n)' /\ Running(k)' => n = k
    BY <1>5 DEF SoleNode
  <2>2. bridge' # NoNode => bridge' = bridge /\ bridge # x.node /\ bridge \in Nodes
    BY <1>1
  <2>3. bridge' # NoNode => peer'[bridge'].state \in {"up", "stopping"}
    BY <1>1, <2>2 DEF SoleNode
  <2>4. ASSUME NEW n \in Nodes, peer'[n].state = "up" PROVE bridge' = n
    BY <1>1, <1>4, <2>4 DEF SoleNode
  <2>5. ASSUME NEW n \in Nodes, peer'[n].state = "starting" PROVE bridge' = NoNode
    BY <1>1, <1>2, <2>5 DEF SoleNode
  <2>6. ASSUME ~outrun', NEW n \in Nodes, peer'[n].state = "stopping" PROVE bridge' = n
    BY <1>1, <1>4, <2>6 DEF SoleNode
  <2> QED BY <2>1, <2>3, <2>4, <2>5, <2>6 DEF SoleNode
<1>7. OneStopper'
  <2>1. ASSUME NEW y \in stops', y.pc = "stopping" PROVE peer'[y.node].state = "stopping"
    <3>1. y \in stops /\ y # x /\ peer[y.node].state = "stopping" /\ y.node \in Nodes
      BY <1>1, <1>2, <2>1 DEF OneStopper
    <3>2. x.pc = "stopping" => y.node # x.node
      BY <2>1, <3>1 DEF OneStopper
    <3> QED BY <1>1, <1>2, <3>1, <3>2
  <2>2. \A y, z \in stops' :
           (y.pc = "stopping" /\ z.pc = "stopping" /\ y.node = z.node) => y = z
    BY <1>1 DEF OneStopper
  <2>3. ASSUME bridge' # NoNode, peer'[bridge'].state = "stopping"
        PROVE  \E y \in stops' : y.node = bridge' /\ y.pc = "stopping"
    <3>1. bridge' = bridge /\ bridge # x.node /\ peer[bridge].state = "stopping"
      BY <1>1, <2>3
    <3>2. PICK y \in stops : y.node = bridge /\ y.pc = "stopping"
      BY <2>3, <3>1 DEF OneStopper
    <3> QED BY <1>1, <3>1, <3>2
  <2>4. ASSUME NEW n \in Nodes, peer'[n].state = "starting" PROVE \A y \in stops' : y.node # n
    BY <1>1, <1>2, <2>4 DEF OneStopper
  <2> QED BY <2>1, <2>2, <2>3, <2>4 DEF OneStopper
<1> QED BY <1>6, <1>7

(* The network of a node is stopped, by one of the calls on it. *)
LEMMA NetworkStopsStep ==
    ASSUME ShellIInv, NEW x \in stops, NetworkStops(x) PROVE ShellIInv'
<1> DEFINE y == [x EXCEPT !.pc = "stopping"]
<1>0. ShellTypeOK /\ SoleNode /\ OneStopper /\ WithinActs
  BY DEF ShellIInv
<1>1. /\ x.pc = "closing" /\ peer[x.node].state = "up"
      /\ peer' = [peer EXCEPT ![x.node].state = "stopping"]
      /\ stops' = (stops \ {x}) \cup {y}
      /\ UNCHANGED <<route, completed, config, account, pending, due, bridge, starter,
                     bridgeError, foreground, crossed, outrun, shellActs, shellFails>>
  BY DEF NetworkStops
<1>2. /\ x \in StopRecords /\ x.node \in Nodes
      /\ y \in StopRecords /\ y.node = x.node /\ y.by = x.by /\ y.pc = "stopping"
      /\ stops \subseteq StopRecords
  BY <1>0 DEF ShellTypeOK, StopRecords
<1> HIDE DEF y
<1>3. /\ peer' \in [Nodes -> [state : PeerStates, config : 0..ShellMaxActs,
                              account : 0..ShellMaxActs]]
      /\ peer'[x.node].state = "stopping"
      /\ peer'[x.node].config = peer[x.node].config
      /\ peer'[x.node].account = peer[x.node].account
      /\ \A k \in Nodes \ {x.node} : peer'[k] = peer[k]
  BY <1>0, <1>1, <1>2 DEF ShellTypeOK, PeerStates
<1>4. ShellTypeOK'
  <2>1. stops' \subseteq StopRecords
    BY <1>1, <1>2
  <2> QED BY <1>0, <1>1, <1>3, <2>1 DEF ShellTypeOK, StopRecords
<1>5. WithinActs'
  BY <1>0, <1>1, <1>2 DEF WithinActs
<1>6. bridge = x.node /\ bridge # NoNode
  BY <1>0, <1>1, <1>2, ShellAssumption DEF SoleNode, NoNode
<1>7. SoleNode'
  BY <1>0, <1>1, <1>2, <1>3, <1>6 DEF SoleNode, Running
<1>8. OneStopper'
  <2>1. \A z \in stops : z.pc = "stopping" => z.node # x.node /\ z.node \in Nodes
    BY <1>0, <1>1, <1>2 DEF OneStopper, StopRecords
  <2>2. \A z \in stops' : z = y \/ z \in stops
    BY <1>1
  <2>3. \A z \in stops' : z.pc = "stopping" => peer'[z.node].state = "stopping"
    BY <1>0, <1>2, <1>3, <2>1, <2>2 DEF OneStopper
  <2>4. \A z, w \in stops' :
           (z.pc = "stopping" /\ w.pc = "stopping" /\ z.node = w.node) => z = w
    BY <1>0, <1>2, <2>1, <2>2 DEF OneStopper
  <2>5. y \in stops' /\ y.node = bridge' /\ y.pc = "stopping"
    BY <1>1, <1>2, <1>6
  <2>6. ASSUME NEW n \in Nodes, peer'[n].state = "starting" PROVE \A z \in stops' : z.node # n
    BY <1>0, <1>2, <1>3, <2>2, <2>6 DEF OneStopper
  <2> QED BY <2>3, <2>4, <2>5, <2>6 DEF OneStopper
<1>9. ASSUME ~crossed' PROVE Orderly'
  <2>1. Orderly
    BY <1>1, <1>9 DEF ShellIInv
  <2>2. InFlight' = InFlight /\ \A s \in Starters : Starting(s)' <=> Starting(s)
    BY <1>1 DEF InFlight, Starting
  <2>3. \A k \in Nodes : peer'[k].state = "starting" <=> peer[k].state = "starting"
    BY <1>1, <1>3
  <2>4. stops = {x} /\ stops' = {y}
    BY <1>1, <2>1 DEF Orderly, OneStops
  <2>5. OneStarts'
    <3>1. ~completed => \A s \in InFlight : s \in Pages
      BY <2>1 DEF Orderly, OneStarts
    <3>2. \A s \in InFlight \cap Runs : ~Starting(s)
      BY <1>6, <2>1 DEF Orderly, OneStarts
    <3>3. \A s \in InFlight : starter[s].pc = "waiting" =>
             starter[s].node \in Nodes /\ peer'[starter[s].node].state = "starting"
      BY <2>1, <2>3 DEF Orderly, OneStarts
    <3>4. \A n \in Nodes : peer'[n].state = "starting" => \E s \in Starters :
             starter[s].pc = "waiting" /\ starter[s].node = n
      BY <2>1, <2>3 DEF Orderly, OneStarts
    <3>5. /\ InFlight \subseteq IF completed THEN Runs ELSE Pages
          /\ \A s \in Pages : starter[s].pc # "stopping"
          /\ \A s \in InFlight \cap Runs :
                /\ starter[s].active /\ \A t \in InFlight : t = s
                /\ starter[s].pc = "stopping" => starter[s].again
      BY <2>1 DEF Orderly, OneStarts
    <3>6. \A s \in InFlight \cap Runs : ~Starting(s)'
      BY <2>2, <3>2 DEF InFlight
    <3>7. UNCHANGED <<starter, completed>>
      BY <1>1
    <3> QED BY <2>2, <3>3, <3>4, <3>5, <3>6, <3>7 DEF OneStarts
  <2>6. OneStops'
    BY <1>1, <1>2, <2>1, <2>2, <2>4 DEF Orderly, OneStops
  <2>7. WillHaveNode'
    BY <1>1, <2>1, <2>2 DEF Orderly, WillHaveNode
  <2>8. \A k \in Nodes : /\ Current(k)' <=> Current(k)
                        /\ peer'[k].config = peer[k].config
                        /\ peer'[k].account = peer[k].account
    BY <1>1, <1>3, <2>3 DEF Current
  <2>9. OfThisAccount'
    BY <1>1, <2>1, <2>2, <2>8 DEF Orderly, OfThisAccount
  <2>10. OfThisConfig'
    <3>1. \A s \in Runs : starter[s].pc # "waiting"
      BY <1>6, <2>1 DEF Orderly, OneStarts, Starting, InFlight, Starters
    <3>2. bridge \in Nodes
      BY <1>2, <1>6
    <3> QED BY <1>1, <2>1, <2>2, <2>4, <2>8, <3>1, <3>2 DEF Orderly, OfThisConfig
  <2> QED BY <2>5, <2>6, <2>7, <2>9, <2>10 DEF Orderly
<1> QED BY <1>4, <1>5, <1>7, <1>8, <1>9 DEF ShellIInv

\* A stop ends: whoever asked for it starts the next node, or has no use for one.
LEMMA StopStep ==
    ASSUME ShellIInv, NEW x \in stops, StopEnds(x) \/ StopFails(x)
    PROVE  ShellIInv'
<1>0. ShellTypeOK /\ SoleNode /\ OneStopper /\ WithinActs
  BY DEF ShellIInv
<1>1. (Stopped(x) \/ HalfStopped(x)) /\ UNCHANGED <<config, pending, foreground, shellActs>>
  BY DEF StopEnds, StopFails
<1>2. \/ /\ x.by = "signOut" /\ SignedOut /\ UNCHANGED <<bridgeError, crossed, shellFails>>
      \/ /\ UNCHANGED <<account, completed, route>>
         /\ due => due'
         /\ bridgeError => bridgeError'
         /\ crossed => crossed'
         /\ (x.by = "signOut") => crossed'
         /\ (x.by = "settings" \/ (x.by \in Runs /\ starter[x.by].again
                                    /\ starter[x.by].active)) => (due' \/ bridgeError')
         /\ due' \in BOOLEAN /\ bridgeError' \in BOOLEAN /\ crossed' \in BOOLEAN
  <2>1. CASE StopEnds(x)
    BY <1>0, <2>1 DEF StopEnds, ShellTypeOK
  <2>2. CASE StopFails(x)
    BY <1>0, <2>2 DEF StopFails, ShellTypeOK
  <2> QED BY <2>1, <2>2
<1>3. x \in StopRecords /\ stops' = stops \ {x}
  BY <1>0, <1>1, ReturnsTyped
<1>4. WithinActs' /\ account' \in 0..ShellMaxActs
  <2>1. /\ config \in Nat /\ account \in Nat /\ shellActs \in 0..ShellMaxActs
        /\ ShellMaxActs \in Nat
    BY <1>0, ShellAssumption DEF ShellTypeOK
  <2>2. CASE x.by = "signOut" /\ account' = account + 1
    BY <1>0, <1>1, <1>3, <2>1, <2>2 DEF WithinActs
  <2>3. CASE account' = account
    BY <1>0, <1>1, <1>3, <2>1, <2>3 DEF WithinActs
  <2> QED BY <1>2, <2>2, <2>3 DEF SignedOut
<1>5. ShellTypeOK'
  <2>1. /\ stops' \subseteq StopRecords
        /\ bridge' \in Nodes \cup {NoNode}
        /\ peer' \in [Nodes -> [state : PeerStates,
                                config : 0..ShellMaxActs, account : 0..ShellMaxActs]]
        /\ starter' \in [Starters -> [pc : {"idle", "asking", "waiting", "stopping"},
                                      node : Nodes \cup {NoNode}, active : BOOLEAN,
                                      again : BOOLEAN, config : 0..ShellMaxActs,
                                      account : 0..ShellMaxActs]]
    BY <1>0, <1>1, ReturnsTyped
  <2>2. shellFails' \in 0..ShellMaxFails
    BY <1>0, FailCounts DEF StopEnds, StopFails, ShellTypeOK
  <2>3. /\ route' \in {"onboarding", "app"} /\ completed' \in BOOLEAN /\ due' \in BOOLEAN
        /\ bridgeError' \in BOOLEAN /\ crossed' \in BOOLEAN
    BY <1>0, <1>2 DEF ShellTypeOK, SignedOut
  <2>4. outrun' \in BOOLEAN
    BY <1>0, <1>1 DEF ShellTypeOK, Stopped, HalfStopped
  <2> QED BY <1>0, <1>1, <1>4, <2>1, <2>2, <2>3, <2>4 DEF ShellTypeOK, StopRecords
<1>6. SoleNode' /\ OneStopper'
  <2>1. route' = "app" <=> completed'
    BY <1>0, <1>2 DEF SoleNode, SignedOut
  <2> QED BY <1>0, <1>1, <2>1, ReturnsSole
<1>7. ASSUME ~crossed' PROVE Orderly'
  <2>1. Orderly
    BY <1>2, <1>7 DEF ShellIInv
  <2>2. /\ stops' = {} /\ bridge' = NoNode /\ x.node = bridge
        /\ \A k \in Nodes : ~Running(k)' /\ ~Current(k)'
        /\ \A s \in Starters : starter[s].pc # "waiting"
        /\ x.by \in Runs => /\ starter[x.by].active /\ starter[x.by].again
                            /\ \A t \in InFlight : t = x.by
        /\ x.by \notin Pages
        /\ x.by = "signOut" => completed /\ InFlight = {}
        /\ (x.by = "phone" /\ completed) => due \/ ~foreground
    BY <1>0, <1>1, <2>1, ReturnsOrderly
  <2>3. \A s \in Starters : IF s = x.by /\ s \in Runs THEN starter'[s] = Resting
                                                      ELSE starter'[s] = starter[s]
    BY <1>0, <1>1, ReturnsTyped
  <2>4. InFlight' \subseteq InFlight /\ \A s \in InFlight' : starter'[s] = starter[s]
    BY <2>3 DEF InFlight, Resting
  <2>5. \A s \in Starters : starter'[s].pc # "waiting"
    BY <2>2, <2>3 DEF Resting
  <2>6. /\ (x.by = "signOut") => (SignedOut /\ InFlight' = {})
        /\ (x.by # "signOut") => UNCHANGED <<account, completed>>
    BY <1>2, <1>7, <2>2, <2>4
  <2>7. OneStarts'
    <3>1. InFlight' \subseteq IF completed' THEN Runs ELSE Pages
      BY <2>1, <2>4, <2>6 DEF Orderly, OneStarts
    <3>2. \A s \in Pages : starter'[s].pc # "stopping"
      BY <2>1, <2>2, <2>3 DEF Orderly, OneStarts, Starters
    <3>3. \A s \in InFlight' \cap Runs :
            /\ starter'[s].active /\ \A t \in InFlight' : t = s
            /\ starter'[s].pc = "stopping" => starter'[s].again
      BY <2>1, <2>4 DEF Orderly, OneStarts
    <3>4. \A s \in InFlight' : s \in Starters
      BY DEF InFlight
    <3> QED BY <2>2, <2>5, <3>1, <3>2, <3>3, <3>4 DEF OneStarts, Running
  <2>8. OneStops'
    BY <2>2 DEF OneStops
  <2>9. WillHaveNode'
    <3>1. CASE x.by = "signOut"
      BY <3>1, <2>6 DEF WillHaveNode, SignedOut
    <3>2. CASE x.by = "phone"
      BY <1>1, <1>2, <2>2, <3>2 DEF WillHaveNode
    <3>3. CASE x.by = "settings" \/ x.by \in Runs
      BY <1>2, <2>2, <2>6, <3>3, NotARun DEF WillHaveNode, Starters
    <3>4. x.by \in Starters \cup {"settings", "phone", "signOut"}
      BY <1>3 DEF StopRecords
    <3> QED BY <2>2, <3>1, <3>2, <3>3, <3>4 DEF Starters
  <2>10. \A s \in Starters : Starting(s)' => /\ Starting(s) /\ starter'[s] = starter[s]
                                             /\ x.by # "signOut"
    BY <2>3, <2>4, <2>6 DEF Starting, InFlight, Resting
  <2>11. OfThisAccount'
    BY <2>1, <2>2, <2>6, <2>10 DEF Orderly, OfThisAccount
  <2>12. OfThisConfig'
    BY <1>1, <2>1, <2>2, <2>5, <2>6, <2>10 DEF Orderly, OfThisConfig, Starters
  <2> QED BY <2>7, <2>8, <2>9, <2>11, <2>12 DEF Orderly
<1> QED BY <1>4, <1>5, <1>6, <1>7 DEF ShellIInv

-----------------------------------------------------------------------------

StarterRecords == [pc : {"idle", "asking", "waiting", "stopping"},
                   node : Nodes \cup {NoNode}, active : BOOLEAN, again : BOOLEAN,
                   config : 0..ShellMaxActs, account : 0..ShellMaxActs]

\* What the cleanup and the beginning of a run write.
LEMMA StarterValues ==
    ASSUME ShellTypeOK
    PROVE  /\ Resting \in StarterRecords /\ Resting.pc = "idle"
           /\ Asking \in StarterRecords /\ Asking.pc = "asking" /\ Asking.active
           /\ Asking.config = config /\ Asking.account = account
           /\ Inactive \in [Starters -> StarterRecords]
           /\ \A s \in Starters : /\ Inactive[s].pc = starter[s].pc
                                  /\ s \in Pages => Inactive[s] = starter[s]
<1>1. Resting \in StarterRecords /\ Resting.pc = "idle"
  BY ShellAssumption DEF Resting, StarterRecords
<1>2. /\ Asking \in StarterRecords /\ Asking.pc = "asking" /\ Asking.active
      /\ Asking.config = config /\ Asking.account = account
  BY <1>1 DEF Asking, StarterRecords, ShellTypeOK
<1>3. starter \in [Starters -> StarterRecords]
  BY DEF ShellTypeOK, StarterRecords
<1>4. Inactive \in [Starters -> StarterRecords]
  BY <1>3 DEF Inactive, StarterRecords
<1>5. \A s \in Starters : /\ Inactive[s].pc = starter[s].pc
                          /\ s \in Pages => Inactive[s] = starter[s]
  BY <1>3, NotARun DEF Inactive, StarterRecords
<1> QED BY <1>1, <1>2, <1>4, <1>5

\* The effect has nothing to do.
LEMMA EffectRests ==
    ASSUME ShellIInv, RunEffect, starter' = Inactive,
           UNCHANGED <<pending, stops, bridgeError>>,
           route = "onboarding" \/ ~completed \/ (bridge # NoNode /\ ~pending)
    PROVE  ShellIInv'
<1>0. ShellTypeOK /\ SoleNode /\ OneStopper /\ WithinActs
  BY DEF ShellIInv
<1>1. /\ due' = FALSE
      /\ crossed' = (crossed \/ (completed /\ (stops # {} \/ InFlight # {})))
      /\ UNCHANGED <<route, completed, config, account, bridge, peer, foreground, outrun,
                     shellActs, shellFails, pending, stops, bridgeError>>
      /\ ~completed \/ (bridge # NoNode /\ ~pending)
  BY <1>0 DEF RunEffect, SoleNode
<1>2. /\ starter' \in [Starters -> StarterRecords]
      /\ \A s \in Starters : /\ starter'[s].pc = starter[s].pc
                             /\ s \in Pages => starter'[s] = starter[s]
  BY <1>0, StarterValues
<1>3. ShellTypeOK' /\ WithinActs' /\ SoleNode' /\ OneStopper'
  <2>1. ShellTypeOK'
    BY <1>0, <1>1, <1>2 DEF ShellTypeOK, StarterRecords
  <2>2. WithinActs'
    BY <1>0, <1>1 DEF WithinActs
  <2>3. SoleNode' /\ OneStopper'
    BY <1>0, <1>1 DEF SoleNode, Running, OneStopper
  <2> QED BY <2>1, <2>2, <2>3
<1>4. ASSUME ~crossed' PROVE Orderly'
  <2>1. Orderly /\ (completed => stops = {} /\ InFlight = {})
    BY <1>1, <1>4 DEF ShellIInv
  <2>2. InFlight' = InFlight
    BY <1>2 DEF InFlight
  <2>3. \A s \in InFlight : s \in Starters /\ starter'[s] = starter[s]
    BY <1>2, <2>1, NotARun DEF InFlight, Orderly, OneStarts
  <2>4. \A s \in Starters : Starting(s)' <=> Starting(s)
    BY <1>2 DEF Starting
  <2>5. \A s \in Starters : (Starting(s) \/ starter[s].pc # "idle") => starter'[s] = starter[s]
    BY <2>3 DEF Starting, InFlight
  <2>6. OneStarts'
    BY <1>1, <1>2, <2>1, <2>2, <2>3, <2>4, <2>5 DEF Orderly, OneStarts, Starters
  <2>7. OneStops'
    BY <1>1, <1>2, <2>1, <2>2 DEF Orderly, OneStops, Starters
  <2>8. WillHaveNode'
    BY <1>1 DEF WillHaveNode
  <2>9. OfThisAccount' /\ OfThisConfig'
    BY <1>1, <1>2, <2>1, <2>4, <2>5 DEF Orderly, OfThisAccount, OfThisConfig, Current, Starters
  <2> QED BY <2>6, <2>7, <2>8, <2>9 DEF Orderly
<1> QED BY <1>3, <1>4 DEF ShellIInv

\* A run of the effect replaces the node, or starts one.
LEMMA EffectRuns ==
    ASSUME ShellIInv, RunEffect, route = "app", completed, NEW r \in Runs \ InFlight,
           NEW v \in StarterRecords, starter' = [Inactive EXCEPT ![r] = v],
           v.active, v.pc = "stopping" => v.again, pending' = FALSE,
           \/ /\ bridge # NoNode /\ v.pc = "stopping" /\ stops' = stops \cup {Stop(bridge, r)}
              /\ bridgeError' = bridgeError
           \/ /\ bridge = NoNode /\ v.pc = "asking" /\ stops' = stops
              /\ v.config = config /\ v.account = account /\ bridgeError' = FALSE
    PROVE  ShellIInv'
<1> DEFINE x == Stop(bridge, r)
<1>0. ShellTypeOK /\ SoleNode /\ OneStopper /\ WithinActs
  BY DEF ShellIInv
<1>1. /\ due' = FALSE /\ crossed' = (crossed \/ stops # {} \/ InFlight # {})
      /\ UNCHANGED <<route, completed, config, account, bridge, peer, foreground, outrun,
                     shellActs, shellFails>>
  BY DEF RunEffect
<1>2. r \in Starters /\ r \in Runs /\ r \notin Pages
  BY NotARun DEF Starters
<1>3. bridge # NoNode =>
        x \in StopRecords /\ x.node = bridge /\ x.by = r /\ x.pc = "closing"
  BY <1>0, <1>2, StopTyped DEF ShellTypeOK
<1>4. \/ bridge # NoNode /\ v.pc = "stopping" /\ stops' = stops \cup {x}
      \/ /\ bridge = NoNode /\ v.pc = "asking" /\ stops' = stops
         /\ v.config = config /\ v.account = account
  OBVIOUS
<1> HIDE DEF x
<1>5. /\ starter' \in [Starters -> StarterRecords] /\ starter'[r] = v
      /\ \A s \in Starters \ {r} : starter'[s].pc = starter[s].pc
  BY <1>0, <1>2, StarterValues
<1>6. ShellTypeOK' /\ SoleNode' /\ OneStopper'
  <2>1. stops' \subseteq StopRecords
    BY <1>0, <1>3, <1>4 DEF ShellTypeOK, StopRecords
  <2>2. bridgeError' \in BOOLEAN
    BY <1>0 DEF ShellTypeOK
  <2>3. ShellTypeOK'
    BY <1>0, <1>1, <1>5, <2>1, <2>2 DEF ShellTypeOK, StarterRecords, StopRecords
  <2>4. SoleNode'
    BY <1>0, <1>1 DEF SoleNode, Running
  <2>5. OneStopper'
    BY <1>0, <1>1, <1>3, <1>4, StopperKept
  <2> QED BY <2>3, <2>4, <2>5
<1>7. WithinActs'
  BY <1>0, <1>1, <1>2, <1>3, <1>4, NotARun DEF WithinActs
<1>8. ASSUME ~crossed' PROVE Orderly'
  <2>1. Orderly /\ stops = {} /\ InFlight = {}
    BY <1>1, <1>8 DEF ShellIInv
  <2>2. \A s \in Starters \ {r} : starter'[s].pc = "idle"
    BY <1>5, <2>1 DEF InFlight
  <2>3. InFlight' = {r}
    BY <1>2, <1>4, <1>5, <2>2 DEF InFlight
  <2>4. OneStarts'
    <3>1. \A n \in Nodes : peer'[n].state # "starting"
      BY <1>1, <2>1 DEF Orderly, OneStarts, InFlight
    <3>2. \A s \in Starters : starter'[s].pc # "waiting"
      BY <1>4, <1>5, <2>2
    <3>3. \A s \in Pages : starter'[s].pc # "stopping"
      BY <1>2, <2>2 DEF Starters
    <3> QED BY <1>1, <1>2, <1>4, <1>5, <2>1, <2>3, <3>1, <3>2, <3>3 DEF OneStarts, Starting
  <2>5. OneStops'
    <3>1. r # "signOut" /\ r # "phone"
      BY <1>2, NotARun
    <3>2. bridge # NoNode => peer[bridge].state = "up"
      BY <1>0, <2>1, UpWhenUnstopped
    <3> QED BY <1>1, <1>2, <1>3, <1>4, <1>5, <2>1, <3>1, <3>2 DEF OneStops
  <2>6. WillHaveNode'
    BY <2>3 DEF WillHaveNode
  <2>7. \A s \in Starters : Starting(s)' => s = r /\ v.config = config /\ v.account = account
                                              /\ v.pc = "asking" /\ bridge = NoNode
    BY <1>4, <1>5, <2>2 DEF Starting
  <2>8. OfThisAccount'
    BY <1>1, <1>5, <2>1, <2>7 DEF Orderly, OfThisAccount, Current
  <2>9. OfThisConfig'
    <3>1. config \in Nat
      BY <1>0, ShellAssumption DEF ShellTypeOK
    <3>2. \A s \in Starters : Starting(s)' => starter'[s].config <= config
      BY <1>5, <2>7, <3>1
    <3>3. \A s \in Starters : starter'[s].pc # "waiting"
      BY <1>4, <1>5, <2>2
    <3>4. bridge # NoNode => stops' # {}
      BY <1>4
    <3> QED BY <1>1, <2>1, <3>2, <3>3, <3>4 DEF Orderly, OfThisConfig, Current, Starters
  <2> QED BY <2>4, <2>5, <2>6, <2>8, <2>9 DEF Orderly
<1> QED BY <1>6, <1>7, <1>8 DEF ShellIInv

(* The start effect runs: it starts a node only where none is or will be. *)
LEMMA RunEffectStep == ASSUME ShellIInv, RunEffect PROVE ShellIInv'
<1> DEFINE rests == route = "onboarding" \/ ~completed \/ (bridge # NoNode /\ ~pending)
           stopping == [Resting EXCEPT !.pc = "stopping", !.active = TRUE, !.again = TRUE]
<1>0. ShellTypeOK
  BY DEF ShellIInv
<1>1. CASE rests
  BY <1>1, EffectRests DEF RunEffect
<1>2. CASE ~rests
  <2>1. route = "app" /\ completed /\ pending' = FALSE
    BY <1>0, <1>2 DEF RunEffect, ShellTypeOK
  <2>2. stopping \in StarterRecords /\ stopping.pc = "stopping" /\ stopping.active /\ stopping.again
    BY <1>0, StarterValues DEF StarterRecords
  <2>3. PICK r \in Runs \ InFlight :
            IF bridge # NoNode
            THEN /\ starter' = [Inactive EXCEPT ![r] = stopping]
                 /\ stops' = stops \cup {Stop(bridge, r)}
                 /\ UNCHANGED bridgeError
            ELSE /\ starter' = [Inactive EXCEPT ![r] = Asking]
                 /\ bridgeError' = FALSE
                 /\ UNCHANGED stops
    BY <1>2 DEF RunEffect
  <2> HIDE DEF stopping
  <2>4. CASE bridge # NoNode
    BY <2>1, <2>2, <2>3, <2>4, EffectRuns
  <2>5. CASE bridge = NoNode
    BY <1>0, <2>1, <2>3, <2>5, StarterValues, EffectRuns
  <2> QED BY <2>4, <2>5
<1> QED BY <1>1, <1>2

-----------------------------------------------------------------------------

\* A page goes on; a run of the effect stops the node if it is not wanted.
LEMMA AfterStartValue ==
    ASSUME ShellTypeOK, NEW s \in Starters
    PROVE  /\ AfterStart(s) \in StarterRecords
           /\ AfterStart(s).pc \in {"idle", "stopping"}
           /\ s \in Pages => AfterStart(s).pc = "idle"
           /\ (s \in Runs /\ starter[s].active /\ completed) =>
                 IF starter[s].config = config THEN AfterStart(s).pc = "idle"
                 ELSE /\ AfterStart(s).pc = "stopping"
                      /\ AfterStart(s).active /\ AfterStart(s).again
<1>1. starter[s] \in StarterRecords
  BY DEF ShellTypeOK, StarterRecords
<1>2. Resting \in StarterRecords /\ Resting.pc = "idle"
  BY StarterValues
<1> QED BY <1>1, <1>2, NotARun DEF AfterStart, StarterRecords

\* The node n is there for those in who: the one in the window, or one that is up.
LEMMA DeliveredStep ==
    ASSUME ShellIInv, NEW n \in Nodes, NEW who \in SUBSET Starters, Delivered(n, who),
           \/ peer[n].state = "starting" /\ peer' = [peer EXCEPT ![n].state = "up"]
           \/ bridge = n /\ peer' = peer,
           bridge' = n,
           UNCHANGED <<config, account, pending, bridgeError, foreground, outrun>>,
           shellFails' \in 0..ShellMaxFails,
           shellActs' = shellActs \/ (ShellAct /\ who # {}),
           (~crossed /\ Orderly) =>
               /\ completed => \E r \in Runs : who = {r} /\ starter[r].pc = "waiting"
                                                 /\ starter[r].node = n
               /\ ~completed => who \subseteq Pages
               /\ \A s \in Starters : starter[s].pc = "waiting" => s \in who
    PROVE  ShellIInv'
<1>0. ShellTypeOK /\ SoleNode /\ OneStopper /\ WithinActs
  BY DEF ShellIInv
<1>1. /\ starter' = [s \in Starters |-> IF s \in who THEN AfterStart(s) ELSE starter[s]]
      /\ stops' = stops \cup {Stop(n, s) : s \in {t \in who : AfterStart(t).pc = "stopping"}}
      /\ \/ "ready" \in who /\ route' = "app" /\ completed' = TRUE /\ due' = TRUE
         \/ "ready" \notin who /\ UNCHANGED <<route, completed, due>>
      /\ crossed' = (crossed \/ ("ready" \in who /\ ~(InFlight \subseteq who)))
  BY DEF Delivered
<1>2. /\ peer \in [Nodes -> [state : PeerStates, config : 0..ShellMaxActs,
                             account : 0..ShellMaxActs]]
      /\ starter \in [Starters -> StarterRecords]
  BY <1>0 DEF ShellTypeOK, StarterRecords
<1>3. /\ peer' \in [Nodes -> [state : PeerStates, config : 0..ShellMaxActs,
                              account : 0..ShellMaxActs]]
      /\ peer'[n].config = peer[n].config /\ peer'[n].account = peer[n].account
      /\ \A k \in Nodes \ {n} : peer'[k] = peer[k] /\ ~Running(k)
      /\ \/ peer[n].state = "starting" /\ bridge = NoNode /\ peer'[n].state = "up"
         \/ bridge = n /\ peer[n].state \in {"up", "stopping"} /\ peer'[n] = peer[n]
      /\ n # NoNode /\ Current(n)
  <2>1. n # NoNode
    BY ShellAssumption DEF NoNode
  <2>2. CASE peer[n].state = "starting" /\ peer' = [peer EXCEPT ![n].state = "up"]
    <3>1. /\ peer'[n] = [peer[n] EXCEPT !.state = "up"]
          /\ \A k \in Nodes \ {n} : peer'[k] = peer[k]
      BY <1>2, <2>2
    <3>2. \A k \in Nodes \ {n} : ~Running(k)
      BY <1>0, <2>2 DEF SoleNode, Running
    <3>3. bridge = NoNode
      BY <1>0, <2>2 DEF SoleNode
    <3>4. peer' \in [Nodes -> [state : PeerStates, config : 0..ShellMaxActs,
                              account : 0..ShellMaxActs]]
      BY <1>2, <2>2 DEF PeerStates
    <3> QED BY <1>2, <2>1, <2>2, <3>1, <3>2, <3>3, <3>4 DEF Current
  <2>3. CASE bridge = n /\ peer' = peer
    <3>1. peer[n].state \in {"up", "stopping"}
      BY <1>0, <2>1, <2>3 DEF SoleNode
    <3>2. \A k \in Nodes \ {n} : ~Running(k)
      BY <1>0, <2>1, <2>3 DEF SoleNode, Running
    <3> QED BY <1>2, <2>1, <2>3, <3>1, <3>2 DEF Current
  <2> QED BY <2>2, <2>3
<1>4. \A s \in Starters : /\ Stop(n, s) \in StopRecords /\ Stop(n, s).node = n
                         /\ Stop(n, s).by = s /\ Stop(n, s).pc = "closing"
  BY <1>0, StopTyped
<1>5. starter' \in [Starters -> StarterRecords]
  BY <1>0, <1>1, <1>2, AfterStartValue
<1>6. shellActs' \in 0..ShellMaxActs /\ shellActs <= shellActs'
  <2>1. CASE shellActs' = shellActs
    BY <1>0, <2>1, ShellAssumption DEF ShellTypeOK
  <2>2. CASE ShellAct
    <3>1. shellActs' \in 0..ShellMaxActs
      BY <1>0, <2>2, ActCounts
    <3>2. shellActs' = shellActs + 1 /\ shellActs \in Nat
      BY <1>0, <2>2, ShellAssumption DEF ShellTypeOK, ShellAct
    <3> QED BY <3>1, <3>2
  <2> QED BY <2>1, <2>2
<1>7. ShellTypeOK'
  <2>1. stops' \subseteq StopRecords
    BY <1>0, <1>1, <1>4 DEF ShellTypeOK, StopRecords
  <2>2. bridge' \in Nodes \cup {NoNode}
    OBVIOUS
  <2>3. /\ route' \in {"onboarding", "app"} /\ completed' \in BOOLEAN /\ due' \in BOOLEAN
        /\ crossed' \in BOOLEAN
    BY <1>0, <1>1 DEF ShellTypeOK
  <2> QED BY <1>0, <1>3, <1>5, <1>6, <2>1, <2>2, <2>3 DEF ShellTypeOK, StarterRecords, StopRecords
<1>8. WithinActs'
  <2>1. \A x \in stops' : x.by = "signOut" => x \in stops
    BY <1>1, <1>4, NotARun
  <2>2. shellActs \in Nat /\ shellActs' \in Nat /\ config \in Nat /\ account \in Nat
    BY <1>0, <1>6, ShellAssumption DEF ShellTypeOK
  <2> QED BY <1>0, <1>6, <2>1, <2>2 DEF WithinActs
<1>9. SoleNode' /\ OneStopper'
  <2>1. \A k \in Nodes : Running(k)' => k = n
    BY <1>3 DEF Running
  <2>2. \A k \in Nodes \ {n} : bridge # k
    BY <1>3, ShellAssumption DEF NoNode
  <2>3. \A k \in Nodes \ {n} : peer[k].state = "stopping" => outrun
    BY <1>0, <2>2 DEF SoleNode
  <2>4. peer'[n].state \in {"up", "stopping"}
    BY <1>3
  <2>5. SoleNode'
    BY <1>0, <1>1, <1>3, <2>1, <2>3, <2>4 DEF SoleNode, Running
  <2>6. \A x \in stops' : x \in stops \/ (x.node = n /\ x.pc = "closing")
    BY <1>1, <1>4
  <2>7. \A x \in stops : x.node \in Nodes
    BY <1>0 DEF ShellTypeOK
  <2>8. \A x \in stops : x.pc = "stopping" => peer'[x.node].state = "stopping"
    BY <1>0, <1>3, <2>7 DEF OneStopper
  <2>9. peer'[n].state = "stopping" => \E x \in stops : x.node = n /\ x.pc = "stopping"
    BY <1>0, <1>3 DEF OneStopper
  <2>10. \A k \in Nodes : peer'[k].state # "starting"
    BY <1>3 DEF Running
  <2>11. OneStopper'
    BY <1>0, <1>1, <2>6, <2>8, <2>9, <2>10 DEF OneStopper
  <2> QED BY <2>5, <2>11
<1>10. ASSUME ~crossed' PROVE Orderly'
  <2>1. Orderly /\ ~crossed
    BY <1>1, <1>10 DEF ShellIInv
  <2>2. /\ completed => \E r \in Runs : who = {r} /\ starter[r].pc = "waiting"
                                                 /\ starter[r].node = n
        /\ ~completed => who \subseteq Pages
        /\ \A s \in Starters : starter[s].pc = "waiting" => s \in who
    BY <2>1
  <2>3. \A s \in Starters : starter'[s].pc # "waiting"
    BY <1>0, <1>1, <2>2, AfterStartValue
  <2>4. Runs \subseteq Starters /\ Pages \subseteq Starters /\ "ready" \in Pages
    BY DEF Starters, Pages
  <2>8. \A k \in Nodes : (Current(k)' => k = n) /\ peer'[k].state # "starting"
    BY <1>3 DEF Current, Running
  <2>5. CASE completed
    <3>1. PICK r \in Runs : who = {r} /\ starter[r].pc = "waiting" /\ starter[r].node = n
      BY <2>2, <2>5
    <3>2. /\ starter[r].active /\ InFlight = {r} /\ bridge = NoNode /\ stops = {}
      BY <2>1, <2>4, <3>1 DEF Orderly, OneStarts, InFlight, Starting
    <3>3. r \in Starters /\ r \notin Pages /\ UNCHANGED <<completed, due>>
      BY <1>1, <2>4, <3>1, NotARun
    <3>4. \A s \in Starters \ {r} : starter'[s] = starter[s] /\ starter[s].pc = "idle"
      BY <1>1, <3>1, <3>2 DEF InFlight
    <3>5. starter'[r] = AfterStart(r)
      BY <1>1, <3>1, <3>3
    <3>6. /\ starter[r].config <= peer[n].config /\ peer[n].config <= config
          /\ peer[n].config \in Nat /\ config \in Nat /\ starter[r].config \in Nat
          /\ peer[n].account = account
      BY <1>0, <1>3, <2>1, <3>1, <3>3, ShellAssumption
         DEF ShellTypeOK, Orderly, OfThisConfig, OfThisAccount
    <3>7. CASE starter[r].config = config
      <4>1. starter'[r].pc = "idle"
        BY <1>0, <2>5, <3>1, <3>2, <3>3, <3>5, <3>7, AfterStartValue
      <4>2. stops' = {}
        BY <1>1, <3>1, <3>2, <3>5, <4>1
      <4>3. \A s \in Starters : starter'[s].pc = "idle"
        BY <3>4, <4>1
      <4>4. OneStarts' /\ OneStops'
        <5>1. InFlight' = {}
          BY <4>3 DEF InFlight
        <5>2. \A k \in Nodes : peer'[k].state # "starting"
          BY <2>8
        <5> QED BY <2>4, <4>2, <4>3, <5>1, <5>2 DEF OneStarts, OneStops
      <4>5. WillHaveNode' /\ OfThisAccount'
        BY <1>3, <2>8, <3>6, <4>3 DEF WillHaveNode, OfThisAccount, Starting
      <4>6. peer[n].config = config
        BY <3>6, <3>7
      <4>7. OfThisConfig'
        BY <1>3, <2>4, <2>8, <4>3, <4>6, <3>6, <3>3 DEF OfThisConfig, Starting
      <4> QED BY <4>4, <4>5, <4>7 DEF Orderly
    <3>8. CASE starter[r].config # config
      <4>1. starter'[r].pc = "stopping" /\ starter'[r].active /\ starter'[r].again
        BY <1>0, <2>5, <3>1, <3>2, <3>3, <3>5, <3>8, AfterStartValue
      <4>2. stops' = {Stop(n, r)}
        BY <1>1, <3>1, <3>2, <3>5, <4>1
      <4>3. InFlight' = {r}
        BY <3>3, <3>4, <4>1 DEF InFlight
      <4>4. OneStarts'
        BY <2>3, <2>4, <2>5, <2>8, <3>3, <3>4, <4>1, <4>3 DEF OneStarts, Starting
      <4>5. OneStops'
        <5>1. r # "signOut" /\ r # "phone"
          BY <3>3, NotARun
        <5>2. peer'[n].state = "up"
          BY <1>3, <3>2
        <5> QED BY <1>4, <3>3, <4>1, <4>2, <5>1, <5>2 DEF OneStops
      <4>6. \A s \in Starters : ~Starting(s)'
        BY <3>4, <4>1 DEF Starting
      <4>7. WillHaveNode' /\ OfThisAccount'
        BY <1>3, <2>8, <3>6, <4>6, <4>3 DEF WillHaveNode, OfThisAccount
      <4>8. OfThisConfig'
        BY <1>3, <2>3, <2>4, <2>5, <2>8, <3>3, <3>6, <4>2, <4>6 DEF OfThisConfig
      <4> QED BY <4>4, <4>5, <4>7, <4>8 DEF Orderly
    <3> QED BY <3>7, <3>8
  <2>6. CASE ~completed
    <3>1. who \subseteq Pages /\ InFlight \subseteq Pages
      BY <2>1, <2>2, <2>6 DEF Orderly, OneStarts
    <3>2. \A s \in who : starter'[s].pc = "idle"
      BY <1>0, <1>1, <3>1, AfterStartValue
    <3>3. \A s \in Starters \ who : starter'[s] = starter[s]
      BY <1>1
    <3>4. stops' = stops
      BY <1>0, <1>1, <3>1, AfterStartValue
    <3>5. InFlight' = InFlight \ who
      BY <3>2, <3>3 DEF InFlight
    <3>6. completed' => "ready" \in who /\ InFlight' = {} /\ due'
      BY <1>1, <1>10, <2>6, <3>5
    <3>7. OneStarts'
      <4>1. \A s \in Pages : starter'[s].pc # "stopping"
        BY <2>1, <2>4, <3>2, <3>3 DEF Orderly, OneStarts
      <4>2. InFlight' \cap Runs = {}
        BY <2>4, <3>1, <3>5, NotARun
      <4>3. InFlight' \subseteq IF completed' THEN Runs ELSE Pages
        BY <3>1, <3>5, <3>6
      <4>4. InFlight' \subseteq Starters /\ \A k \in Nodes : peer'[k].state # "starting"
        BY <2>8 DEF InFlight
      <4> QED BY <2>3, <4>1, <4>2, <4>3, <4>4 DEF OneStarts
    <3>8. OneStops'
      <4>1. \A x \in stops : /\ x.node = bridge /\ x.node \in Nodes
                             /\ \A y \in stops : y = x
                             /\ x.by \notin Pages /\ x.by # "signOut"
                             /\ x.by \notin Runs
                             /\ x.pc = "closing" => peer[x.node].state = "up"
        <5>1. \A x \in stops : /\ x.node = bridge /\ \A y \in stops : y = x
                               /\ x.pc = "closing" => peer[x.node].state = "up"
                               /\ x.by \notin Pages /\ x.by # "signOut"
                               /\ x.by \in Runs => x.by \in InFlight
          BY <2>1, <2>4, <2>6 DEF Orderly, OneStops, InFlight
        <5>2. \A x \in stops : x.node \in Nodes
          BY <1>0 DEF ShellTypeOK
        <5> QED BY <3>1, <5>1, <5>2
      <4>2. \A x \in stops : bridge = n
        <5>1. \A k \in Nodes : k # NoNode
          BY ShellAssumption DEF NoNode
        <5> QED BY <1>3, <4>1, <5>1
      <4>3. \A x \in stops : x.node = n /\ (x.pc = "closing" => peer'[n].state = "up")
        BY <1>3, <4>1, <4>2
      <4> QED BY <3>4, <3>6, <4>1, <4>2, <4>3 DEF OneStops
    <3>9. WillHaveNode'
      BY <1>3 DEF WillHaveNode
    <3>10. \A s \in Starters : Starting(s)' => Starting(s) /\ starter'[s] = starter[s]
      BY <3>2, <3>3 DEF Starting
    <3>11. OfThisAccount'
      BY <1>3, <2>1, <2>8, <3>10 DEF Orderly, OfThisAccount
    <3>12. OfThisConfig'
      <4>1. peer[n].config <= config /\ (peer[n].config = config \/ pending)
        BY <1>3, <2>1, <2>6 DEF Orderly, OfThisConfig
      <4>2. \A s \in Starters : Starting(s)' =>
              starter'[s].config <= config /\ (starter'[s].config = config \/ pending)
        BY <2>1, <2>6, <3>10 DEF Orderly, OfThisConfig
      <4>3. (completed' /\ pending) => (pending' /\ due')
        BY <3>6
      <4> QED BY <1>3, <2>3, <2>4, <2>8, <4>1, <4>2, <4>3 DEF OfThisConfig
    <3> QED BY <3>7, <3>8, <3>9, <3>11, <3>12 DEF Orderly
  <2>7. completed \in BOOLEAN
    BY <1>0 DEF ShellTypeOK
  <2> QED BY <2>5, <2>6, <2>7
<1> QED BY <1>7, <1>8, <1>9, <1>10 DEF ShellIInv

\* The node comes up, for all who wait for it.
LEMMA NodeIsUpStep == ASSUME ShellIInv, NEW n \in Nodes, NodeIsUp(n) PROVE ShellIInv'
<1>0. ShellTypeOK /\ SoleNode
  BY DEF ShellIInv
<1>1. /\ Delivered(n, Awaiting(n)) /\ peer[n].state = "starting" /\ bridge' = n
      /\ peer' = [peer EXCEPT ![n].state = "up"]
      /\ UNCHANGED <<config, account, pending, bridgeError, foreground, outrun, shellActs,
                     shellFails>>
  BY DEF NodeIsUp
<1>2. Awaiting(n) \in SUBSET Starters
  BY DEF Awaiting
<1>3. ASSUME Orderly
      PROVE  /\ completed => \E r \in Runs : Awaiting(n) = {r} /\ starter[r].pc = "waiting"
                                                /\ starter[r].node = n
             /\ ~completed => Awaiting(n) \subseteq Pages
             /\ \A s \in Starters : starter[s].pc = "waiting" => s \in Awaiting(n)
  <2>1. \A s \in Starters : starter[s].pc = "waiting" => s \in Awaiting(n)
    BY <1>0, <1>1, <1>3 DEF Orderly, OneStarts, InFlight, SoleNode, Running, Awaiting
  <2>2. Awaiting(n) \subseteq InFlight
    BY DEF Awaiting, InFlight
  <2>3. PICK r \in Starters : starter[r].pc = "waiting" /\ starter[r].node = n
    BY <1>1, <1>3 DEF Orderly, OneStarts
  <2>4. completed => r \in Runs /\ \A t \in InFlight : t = r
    BY <1>3, <2>3 DEF Orderly, OneStarts, InFlight
  <2>5. r \in Awaiting(n)
    BY <2>3 DEF Awaiting
  <2>6. ~completed => Awaiting(n) \subseteq Pages
    BY <1>3, <2>2 DEF Orderly, OneStarts
  <2>7. completed => Awaiting(n) = {r}
    BY <2>2, <2>4, <2>5
  <2> QED BY <2>1, <2>3, <2>4, <2>6, <2>7
<1>4. shellFails' \in 0..ShellMaxFails
  BY <1>0, <1>1 DEF ShellTypeOK
<1> QED BY <1>1, <1>2, <1>3, <1>4, DeliveredStep

\* A page, or a run that asked for a node, is given the one in the window.
LEMMA GivenStep ==
    ASSUME ShellIInv, NEW s \in Starters, bridge # NoNode, Delivered(bridge, {s}),
           UNCHANGED <<peer, config, account, pending, bridge, bridgeError, foreground,
                       outrun, shellFails>>,
           shellActs' = shellActs \/ ShellAct,
           starter[s].pc = "asking" \/ (s \in Pages /\ ~completed)
    PROVE  ShellIInv'
<1>0. ShellTypeOK /\ SoleNode
  BY DEF ShellIInv
<1>1. bridge \in Nodes /\ peer' = peer
  BY <1>0 DEF ShellTypeOK
<1>3. ASSUME Orderly
      PROVE  /\ ~completed /\ s \in Pages
             /\ \A t \in Starters : starter[t].pc # "waiting"
  <2>1. ~completed /\ s \in Pages
    <3>1. CASE starter[s].pc = "asking"
      <4>1. s \in InFlight /\ s \notin Runs
        BY <1>3, <3>1 DEF Orderly, OneStarts, InFlight, Starting
      <4> QED BY <1>3, <4>1, NotARun DEF Orderly, OneStarts
    <3> QED BY <3>1
  <2>2. \A t \in Starters : starter[t].pc # "waiting"
    BY <1>0, <1>1, <1>3 DEF Orderly, OneStarts, InFlight, SoleNode
  <2> QED BY <2>1, <2>2
<1>4. shellFails' \in 0..ShellMaxFails /\ {s} \in SUBSET Starters /\ {s} # {} /\ bridge' = bridge
  BY <1>0 DEF ShellTypeOK
<1> QED BY <1>1, <1>3, <1>4, DeliveredStep

\* Someone who asks waits for the startup in flight.
LEMMA JoinStep ==
    ASSUME ShellIInv, NEW s \in Starters, NEW n \in Nodes, starter[s].pc = "asking",
           peer[n].state = "starting",
           starter' = [starter EXCEPT ![s].pc = "waiting", ![s].node = n],
           UNCHANGED <<route, completed, due, stops, crossed, config, account, pending, bridge,
                       bridgeError, foreground, outrun, shellActs, shellFails, peer>>
    PROVE  ShellIInv'
<1>0. ShellTypeOK /\ SoleNode /\ OneStopper /\ WithinActs
  BY DEF ShellIInv
<1>1. starter \in [Starters -> StarterRecords]
  BY <1>0 DEF ShellTypeOK, StarterRecords
<1>2. /\ starter' \in [Starters -> StarterRecords]
      /\ starter'[s].pc = "waiting" /\ starter'[s].node = n
      /\ starter'[s].active = starter[s].active /\ starter'[s].again = starter[s].again
      /\ starter'[s].config = starter[s].config /\ starter'[s].account = starter[s].account
      /\ \A t \in Starters \ {s} : starter'[t] = starter[t]
  BY <1>1 DEF StarterRecords
<1>3. ShellTypeOK' /\ SoleNode' /\ OneStopper' /\ WithinActs'
  <2>1. ShellTypeOK' /\ WithinActs'
    BY <1>0, <1>2 DEF ShellTypeOK, StarterRecords, WithinActs
  <2>2. SoleNode' /\ OneStopper'
    BY <1>0 DEF SoleNode, Running, OneStopper
  <2> QED BY <2>1, <2>2
<1>4. ASSUME ~crossed' PROVE Orderly'
  <2>1. Orderly
    BY <1>4 DEF ShellIInv
  <2>2. s \notin Runs
    BY <2>1 DEF Orderly, OneStarts, InFlight, Starting
  <2>3. InFlight' = InFlight
    BY <1>2 DEF InFlight
  <2>4. \A t \in Starters : Starting(t)' <=> Starting(t)
    BY <1>2 DEF Starting
  <2>5. OneStarts'
    <3>1. \A k \in Nodes : peer'[k].state = "starting" => \E t \in Starters :
            starter'[t].pc = "waiting" /\ starter'[t].node = k
      BY <1>0, <1>2 DEF SoleNode, Running
    <3>2. \A t \in InFlight' : starter'[t].pc = "waiting" =>
            starter'[t].node \in Nodes /\ peer'[starter'[t].node].state = "starting"
      BY <1>2, <2>1, <2>3 DEF Orderly, OneStarts, InFlight
    <3>3. \A t \in Pages : starter'[t].pc # "stopping"
      BY <1>2, <2>1 DEF Orderly, OneStarts, Starters
    <3>4. \A t \in InFlight \cap Runs :
            /\ starter[t].active /\ \A u \in InFlight : u = t
            /\ starter[t].pc = "stopping" => starter[t].again
            /\ Starting(t) => bridge = NoNode /\ stops = {}
      BY <2>1 DEF Orderly, OneStarts
    <3>5. \A t \in InFlight \cap Runs : t \in Starters /\ starter'[t] = starter[t]
      BY <1>2, <2>2 DEF InFlight
    <3>6. \A t \in InFlight' \cap Runs :
            /\ starter'[t].active /\ \A u \in InFlight' : u = t
            /\ starter'[t].pc = "stopping" => starter'[t].again
            /\ Starting(t)' => bridge' = NoNode /\ stops' = {}
      BY <2>3, <2>4, <3>4, <3>5
    <3>7. InFlight' \subseteq IF completed' THEN Runs ELSE Pages
      BY <2>1, <2>3 DEF Orderly, OneStarts
    <3> QED BY <3>1, <3>2, <3>3, <3>6, <3>7 DEF OneStarts
  <2>6. OneStops'
    BY <1>2, <2>1, <2>2, <2>3 DEF Orderly, OneStops, Starters
  <2>7. WillHaveNode'
    BY <2>1, <2>3 DEF Orderly, WillHaveNode
  <2>8. OfThisAccount'
    BY <1>2, <2>1, <2>4 DEF Orderly, OfThisAccount, Current
  <2>9. OfThisConfig'
    BY <1>2, <2>1, <2>2, <2>4 DEF Orderly, OfThisConfig, Current, Starters
  <2> QED BY <2>5, <2>6, <2>7, <2>8, <2>9 DEF Orderly
<1> QED BY <1>3, <1>4 DEF ShellIInv

\* Someone who asks begins a startup; there is no node and none is starting.
LEMMA BeginStep ==
    ASSUME ShellIInv, NEW s \in Starters, NEW n \in Nodes, NEW c \in starter[s].config .. config,
           starter[s].pc = "asking", bridge = NoNode, \A k \in Nodes : peer[k].state # "starting",
           Unused(n),
           peer' = [peer EXCEPT ![n] = [state |-> "starting", config |-> c,
                                        account |-> starter[s].account]],
           starter' = [starter EXCEPT ![s].pc = "waiting", ![s].node = n],
           UNCHANGED <<route, completed, due, stops, crossed, config, account, pending, bridge,
                       bridgeError, foreground, outrun, shellActs, shellFails>>
    PROVE  ShellIInv'
<1>0. ShellTypeOK /\ SoleNode /\ OneStopper /\ WithinActs
  BY DEF ShellIInv
<1>1. starter \in [Starters -> StarterRecords]
  BY <1>0 DEF ShellTypeOK, StarterRecords
<1>2. /\ starter' \in [Starters -> StarterRecords]
      /\ starter'[s].pc = "waiting" /\ starter'[s].node = n
      /\ starter'[s].active = starter[s].active /\ starter'[s].again = starter[s].again
      /\ starter'[s].config = starter[s].config /\ starter'[s].account = starter[s].account
      /\ \A t \in Starters \ {s} : starter'[t] = starter[t]
  BY <1>1 DEF StarterRecords
<1>3. /\ starter[s].config \in 0..ShellMaxActs /\ starter[s].account \in 0..ShellMaxActs
      /\ config \in 0..ShellMaxActs
  BY <1>0, <1>1 DEF StarterRecords, ShellTypeOK
<1>4. c \in 0..ShellMaxActs /\ starter[s].config <= c /\ c <= config
  BY <1>3, ShellAssumption
<1>5. /\ \A k \in Nodes : ~Running(k) /\ k # NoNode
      /\ peer[n].state = "none" /\ \A x \in stops : x.node # n /\ x.node \in Nodes
  BY <1>0, ShellAssumption DEF ShellTypeOK, SoleNode, NoNode, Running, Unused
<1>6. /\ peer' \in [Nodes -> [state : PeerStates, config : 0..ShellMaxActs,
                              account : 0..ShellMaxActs]]
      /\ peer'[n].state = "starting" /\ peer'[n].config = c
      /\ peer'[n].account = starter[s].account
      /\ \A k \in Nodes \ {n} : peer'[k] = peer[k] /\ ~Running(k)'
  BY <1>0, <1>3, <1>4, <1>5 DEF ShellTypeOK, PeerStates, Running
<1>7. ShellTypeOK' /\ SoleNode' /\ OneStopper' /\ WithinActs'
  <2>1. ShellTypeOK' /\ WithinActs'
    BY <1>0, <1>2, <1>6 DEF ShellTypeOK, StarterRecords, WithinActs
  <2>2. SoleNode'
    BY <1>0, <1>5, <1>6 DEF SoleNode, Running
  <2>3. OneStopper'
    BY <1>0, <1>5, <1>6 DEF OneStopper, Running
  <2> QED BY <2>1, <2>2, <2>3
<1>8. ASSUME ~crossed' PROVE Orderly'
  <2>1. Orderly
    BY <1>8 DEF ShellIInv
  <2>2. \A t \in Starters : starter[t].pc # "waiting"
    BY <1>5, <2>1 DEF Orderly, OneStarts, InFlight, Running
  <2>3. InFlight' = InFlight /\ s \in InFlight
    BY <1>2 DEF InFlight
  <2>4. \A t \in Starters : Starting(t)' <=> Starting(t)
    BY <1>2 DEF Starting
  <2>5. OneStarts'
    <3>1. \A t \in InFlight' : starter'[t].pc = "waiting" => t = s
      BY <1>2, <2>2 DEF InFlight
    <3>2. \A k \in Nodes : peer'[k].state = "starting" => k = n
      BY <1>6 DEF Running
    <3>3. \A t \in Pages : starter'[t].pc # "stopping"
      BY <1>2, <2>1 DEF Orderly, OneStarts, Starters
    <3>4. \A t \in InFlight' \cap Runs :
            /\ starter'[t].active /\ \A u \in InFlight' : u = t
            /\ starter'[t].pc = "stopping" => starter'[t].again
            /\ Starting(t)' => bridge' = NoNode /\ stops' = {}
      BY <1>2, <2>1, <2>3, <2>4 DEF Orderly, OneStarts, InFlight
    <3>5. InFlight' \subseteq IF completed' THEN Runs ELSE Pages
      BY <2>1, <2>3 DEF Orderly, OneStarts
    <3>6. \A t \in InFlight' : starter'[t].pc = "waiting" =>
            starter'[t].node \in Nodes /\ peer'[starter'[t].node].state = "starting"
      BY <1>2, <1>6, <3>1
    <3>7. \A k \in Nodes : peer'[k].state = "starting" => \E t \in Starters :
            starter'[t].pc = "waiting" /\ starter'[t].node = k
      BY <1>2, <3>2
    <3> QED BY <3>3, <3>4, <3>5, <3>6, <3>7 DEF OneStarts
  <2>6. OneStops'
    <3>1. stops = {}
      BY <1>0, <2>1, ShellAssumption DEF Orderly, OneStops, ShellTypeOK, NoNode
    <3> QED BY <3>1 DEF OneStops
  <2>7. WillHaveNode'
    BY <2>1, <2>3 DEF Orderly, WillHaveNode
  <2>8. OfThisAccount'
    <3>1. starter[s].account = account
      BY <2>1 DEF Orderly, OfThisAccount, Starting
    <3>2. \A k \in Nodes : Current(k)' => k = n
      BY <1>5, <1>6 DEF Current, Running
    <3> QED BY <1>2, <1>6, <2>1, <2>4, <3>1, <3>2 DEF Orderly, OfThisAccount
  <2>9. OfThisConfig'
    <3>1. ~completed => starter[s].config = config \/ pending
      BY <2>1 DEF Orderly, OfThisConfig, Starting
    <3>2. ~completed => c = config \/ pending
      BY <1>3, <1>4, <3>1, ShellAssumption
    <3>3. \A k \in Nodes : Current(k)' =>
            peer'[k].config <= config /\ (~completed => peer'[k].config = config \/ pending)
      BY <1>4, <1>5, <1>6, <3>2 DEF Current, Running
    <3>4. \A t \in Starters : Starting(t)' =>
            starter'[t].config <= config /\ (~completed => starter'[t].config = config \/ pending)
      BY <1>2, <2>1, <2>4 DEF Orderly, OfThisConfig
    <3>5. \A t \in Runs : starter'[t].pc = "waiting" => t = s
      BY <1>2, <2>2 DEF Starters
    <3>6. starter'[s].config <= peer'[starter'[s].node].config
      BY <1>2, <1>4, <1>6
    <3>7. \A t \in Runs : starter'[t].pc = "waiting" =>
            starter'[t].config <= peer'[starter'[t].node].config
      BY <3>5, <3>6
    <3> QED BY <3>3, <3>4, <3>7 DEF OfThisConfig
  <2> QED BY <2>5, <2>6, <2>7, <2>8, <2>9 DEF Orderly
<1> QED BY <1>7, <1>8 DEF ShellIInv

(* A starter asks for the shared startup, or joins the one in flight. *)
LEMMA EnsureStep == ASSUME ShellIInv, NEW s \in Starters, Ensure(s) PROVE ShellIInv'
<1>1. starter[s].pc = "asking"
  BY DEF Ensure
<1>2. CASE bridge # NoNode /\ Delivered(bridge, {s}) /\ UNCHANGED peer
  <2>1. UNCHANGED <<peer, config, account, pending, bridge, bridgeError, foreground,
                    outrun, shellActs, shellFails>>
    BY <1>2 DEF Ensure
  <2> QED BY <1>1, <1>2, <2>1, GivenStep
<1>3. CASE /\ bridge = NoNode
           /\ UNCHANGED <<route, completed, due, stops, crossed>>
           /\ \E n \in Nodes :
                 /\ peer[n].state = "starting"
                 /\ starter' = [starter EXCEPT ![s].pc = "waiting", ![s].node = n]
                 /\ UNCHANGED peer
  BY <1>1, <1>3, JoinStep DEF Ensure
<1>4. CASE /\ bridge = NoNode
           /\ UNCHANGED <<route, completed, due, stops, crossed>>
           /\ \A n \in Nodes : peer[n].state # "starting"
           /\ \E n \in Nodes, c \in starter[s].config .. config :
                 /\ Unused(n)
                 /\ peer' = [peer EXCEPT ![n] = [state |-> "starting", config |-> c,
                                                 account |-> starter[s].account]]
                 /\ starter' = [starter EXCEPT ![s].pc = "waiting", ![s].node = n]
  BY <1>1, <1>4, BeginStep DEF Ensure
<1> QED BY <1>2, <1>3, <1>4 DEF Ensure

\* A page of the onboarding asks for the node; no one else starts one then.
LEMMA OpenPageStep == ASSUME ShellIInv, NEW s \in Pages, OpenPage(s) PROVE ShellIInv'
<1>0. ShellTypeOK /\ SoleNode /\ OneStopper /\ WithinActs
  BY DEF ShellIInv
<1>1. /\ route = "onboarding" /\ starter[s].pc = "idle" /\ ShellAct /\ ~completed
      /\ UNCHANGED <<config, account, pending, bridge, peer, bridgeError, foreground, outrun,
                     shellFails>>
  BY <1>0 DEF OpenPage, SoleNode
<1>2. s \in Starters /\ s \notin Runs
  BY NotARun DEF Starters
<1>3. CASE bridge # NoNode
  <2>1. Delivered(bridge, {s})
    BY <1>3 DEF OpenPage
  <2> QED BY <1>1, <1>2, <1>3, <2>1, GivenStep
<1>4. CASE bridge = NoNode
  <2>1. /\ starter' = [starter EXCEPT ![s] = Asking]
        /\ UNCHANGED <<route, completed, due, stops, crossed>>
    BY <1>4 DEF OpenPage
  <2>2. /\ Asking \in StarterRecords /\ Asking.pc = "asking"
        /\ Asking.config = config /\ Asking.account = account
    BY <1>0, StarterValues
  <2>3. /\ starter' \in [Starters -> StarterRecords] /\ starter'[s] = Asking
        /\ \A t \in Starters \ {s} : starter'[t] = starter[t]
    BY <1>0, <1>2, <2>1, <2>2 DEF ShellTypeOK, StarterRecords
  <2>4. shellActs' \in 0..ShellMaxActs /\ shellActs' = shellActs + 1
    BY <1>0, <1>1, ActCounts DEF ShellAct
  <2>5. ShellTypeOK' /\ SoleNode' /\ OneStopper'
    <3>1. ShellTypeOK'
      BY <1>0, <1>1, <2>1, <2>3, <2>4 DEF ShellTypeOK, StarterRecords
    <3>2. SoleNode' /\ OneStopper'
      BY <1>0, <1>1, <2>1 DEF SoleNode, Running, OneStopper
    <3> QED BY <3>1, <3>2
  <2>6. WithinActs'
    <3>1. shellActs \in Nat /\ config \in Nat /\ account \in Nat
      BY <1>0, ShellAssumption DEF ShellTypeOK
    <3> QED BY <1>0, <1>1, <2>1, <2>4, <3>1 DEF WithinActs
  <2>7. ASSUME ~crossed' PROVE Orderly'
    <3>1. Orderly
      BY <2>1, <2>7 DEF ShellIInv
    <3>2. InFlight' = InFlight \cup {s} /\ InFlight \subseteq Pages
      BY <1>1, <1>2, <2>2, <2>3, <3>1 DEF InFlight, Orderly, OneStarts
    <3>3. \A t \in Pages : t \in Starters /\ t \notin Runs
      BY NotARun DEF Starters
    <3>4. OneStarts'
      <4>1. \A k \in Nodes : peer'[k].state = "starting" => \E t \in Starters :
              starter'[t].pc = "waiting" /\ starter'[t].node = k
        BY <1>1, <2>3, <3>1 DEF Orderly, OneStarts
      <4>2. \A t \in InFlight' : starter'[t].pc = "waiting" =>
              starter'[t].node \in Nodes /\ peer'[starter'[t].node].state = "starting"
        BY <1>1, <2>2, <2>3, <3>1, <3>2, <3>3 DEF Orderly, OneStarts
      <4>3. \A t \in Pages : starter'[t].pc # "stopping"
        BY <2>2, <2>3, <3>1, <3>3 DEF Orderly, OneStarts
      <4>4. InFlight' \cap Runs = {} /\ InFlight' \subseteq Pages
        BY <3>2, <3>3
      <4> QED BY <1>1, <2>1, <4>1, <4>2, <4>3, <4>4 DEF OneStarts
    <3>5. OneStops'
      <4>1. stops = {}
        BY <1>0, <1>4, <3>1, ShellAssumption DEF Orderly, OneStops, ShellTypeOK, NoNode
      <4> QED BY <2>1, <4>1 DEF OneStops
    <3>6. WillHaveNode'
      BY <1>1, <2>1 DEF WillHaveNode
    <3>7. OfThisAccount'
      BY <1>1, <2>2, <2>3, <3>1 DEF Orderly, OfThisAccount, Current, Starting
    <3>8. OfThisConfig'
      <4>1. config \in Nat
        BY <1>0, ShellAssumption DEF ShellTypeOK
      <4> QED BY <1>1, <1>2, <2>1, <2>2, <2>3, <3>1, <4>1
              DEF Orderly, OfThisConfig, Current, Starting, Starters
    <3> QED BY <3>4, <3>5, <3>6, <3>7, <3>8 DEF Orderly
  <2> QED BY <2>5, <2>6, <2>7 DEF ShellIInv
<1> QED BY <1>3, <1>4

-----------------------------------------------------------------------------

(* The invariant of the start-up holds at the start. *)
LEMMA InitShell == ShellInit => ShellIInv
<1> SUFFICES ASSUME ShellInit PROVE ShellIInv
  OBVIOUS
<1>1. /\ \A s \in Starters : starter[s].pc = "idle"
      /\ \A n \in Nodes : peer[n].state = "none"
      /\ bridge = NoNode /\ stops = {} /\ InFlight = {}
  BY DEF ShellInit, Resting, NoPeer, InFlight
<1>2. ShellTypeOK
  <2>1. 0 \in 0..ShellMaxActs /\ 0 \in 0..ShellMaxFails
    BY ShellAssumption
  <2> QED BY <2>1 DEF ShellInit, ShellTypeOK, Resting, NoPeer, PeerStates
<1>3. WithinActs /\ SoleNode /\ OneStopper
  BY <1>1 DEF ShellInit, WithinActs, SoleNode, OneStopper, Running
<1>4. Orderly
  <2>1. OneStarts /\ OneStops
    BY <1>1 DEF OneStarts, OneStops, Starters
  <2>4. \A n \in Nodes : ~Current(n)
    BY <1>1, ShellAssumption DEF Current, NoNode
  <2>2. WillHaveNode /\ OfThisAccount
    BY <1>1, <2>4 DEF ShellInit, WillHaveNode, OfThisAccount, Starting
  <2>3. OfThisConfig
    BY <1>1, <2>4 DEF OfThisConfig, Starting, Starters
  <2> QED BY <2>1, <2>2, <2>3 DEF Orderly
<1> QED BY <1>2, <1>3, <1>4 DEF ShellIInv

(* Every step of the start-up keeps its invariant. *)
LEMMA NextShell == ShellIInv /\ [ShellNext]_shellVars => ShellIInv'
<1> SUFFICES ASSUME ShellIInv, [ShellNext]_shellVars PROVE ShellIInv'
  OBVIOUS
<1>1. CASE UNCHANGED shellVars
  <2>1. ShellTypeOK' /\ WithinActs' /\ SoleNode' /\ OneStopper'
    BY <1>1 DEF shellVars, ShellIInv, ShellTypeOK, WithinActs, SoleNode, Running, OneStopper
  <2>2. ~crossed' => Orderly'
    BY <1>1 DEF shellVars, ShellIInv, Orderly, OneStarts, OneStops, WillHaveNode,
                OfThisAccount, OfThisConfig, Current, InFlight, Starting
  <2> QED BY <2>1, <2>2 DEF ShellIInv
<1> QED BY <1>1, RetryStep, ResumeStep, BackgroundStep, ChangeConfigStep, SignOutStep,
           RunEffectStep, EnsureStep, OpenPageStep, NodeIsUpStep, NodeFailsStep,
           NetworkStopsStep, StopStep
    DEF ShellNext

(* In every behaviour of the start-up its invariant holds. *)
THEOREM ShellInvariant == ShellSpec => []ShellIInv
BY InitShell, NextShell, PTL DEF ShellSpec

\* The values of the startup stay of their types.
THEOREM ShellTypeCorrect == ShellSpec => []ShellTypeOK
<1>1. ShellIInv => ShellTypeOK
  BY DEF ShellIInv
<1> QED BY <1>1, ShellInvariant, PTL

\* No two nodes start or run at once, the one in the window runs or is being
\* stopped, and none exists beside it unless two calls of disconnect() overlapped
\* or the stop of a network failed.
THEOREM NeverTwoNodes == ShellSpec => []OneNodeAtATime
<1>1. ShellIInv => OneNodeAtATime
  <2> SUFFICES ASSUME ShellIInv PROVE OneNodeAtATime
    OBVIOUS
  <2>1. /\ \A n, k \in Nodes : Running(n) /\ Running(k) => n = k
        /\ bridge # NoNode => peer[bridge].state \in {"up", "stopping"}
    BY DEF ShellIInv, SoleNode
  <2>2. ASSUME ~outrun, NEW n \in Nodes, NEW k \in Nodes,
               peer[n].state # "none", peer[k].state # "none"
        PROVE  n = k
    <3>1. peer[n].state \in PeerStates /\ peer[k].state \in PeerStates
      BY DEF ShellIInv, ShellTypeOK
    <3>2. \A m \in Nodes : m # NoNode
      BY ShellAssumption DEF NoNode
    <3> QED BY <2>1, <2>2, <3>1, <3>2 DEF ShellIInv, SoleNode, Running, PeerStates
  <2> QED BY <2>1, <2>2 DEF OneNodeAtATime
<1> QED BY <1>1, ShellInvariant, PTL

\* When all is quiet the node is the one that the settings and the account ask for.
THEOREM SettingsAreFollowed == ShellSpec => []NodeFollowsSettings
<1>1. ShellIInv => NodeFollowsSettings
  <2> SUFFICES ASSUME ShellIInv, ~due, stops = {}, InFlight = {}, foreground, ~crossed
               PROVE  /\ completed => (bridge # NoNode \/ bridgeError)
                      /\ bridge # NoNode => peer[bridge].state = "up"
                                            /\ peer[bridge].account = account
                      /\ (completed /\ bridge # NoNode) => peer[bridge].config = config
    BY DEF NodeFollowsSettings
  <2>1. Orderly /\ (bridge # NoNode => bridge \in Nodes /\ peer[bridge].state = "up")
    BY UpWhenUnstopped DEF ShellIInv, ShellTypeOK
  <2> QED BY <2>1 DEF Orderly, WillHaveNode, OfThisAccount, OfThisConfig, Current
<1> QED BY <1>1, ShellInvariant, PTL

-----------------------------------------------------------------------------
(* The whole *)

\* What is proved of each part holds of the module that puts them side by side.
THEOREM PartsRunAlone == InterfaceSpec => Spec /\ ShellSpec
<1>1. InterfaceInit => Init /\ ShellInit
  BY DEF InterfaceInit
<1>2. [OutboxActs \/ StartupActs]_interfaceVars => [Next]_vars /\ [ShellNext]_shellVars
  BY DEF OutboxActs, StartupActs, interfaceVars
<1> QED BY <1>1, <1>2, PTL DEF InterfaceSpec, Spec, ShellSpec
=============================================================================
