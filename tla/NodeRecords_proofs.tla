------------------------- MODULE NodeRecords_proofs --------------------------
(*****************************************************************************)
(* Proofs about the parts of NodeRecords that Conversations_proofs leaves:   *)
(* the mailbox in the DHT, the topics of the feeds, the connection to a      *)
(* server and the sources of RSS; and about all of them together.            *)
(*****************************************************************************)
EXTENDS NodeRecords, Conversations_proofs, FiniteSetTheorems

-----------------------------------------------------------------------------
(* The mailbox in the DHT *)

\* How many calls of s have been settled: its lock takes them in their order.
Done(s) == issued[s] - Len(waiting[s])

\* The stanzas that may be in a record or in a copy of one, and such a copy.
Past == {m \in Stanza : m[2] <= Done(m[1])}
NoRepeat(q) == \A i, j \in DOMAIN q : q[i] = q[j] => i = j
Copies == {q \in Seq(Stanza) : Content(q) \subseteq Past /\ NoRepeat(q)}

\* A flush that is under way has something left.
Flushes == {f \in [stage : {"idle", "handle", "put"}, queue : Seq(Stanza)] :
               f.stage # "idle" => f.queue # <<>>}

MailType ==
    /\ expired \in BOOLEAN
    /\ waiting \in [Senders -> Seq(Stanza)]
    /\ issued \in [Senders -> 0..MaxStanzas]
    /\ put \in [Senders -> SUBSET Seq(Stanza)]
    /\ handled \in [Stanza -> Nat]
    /\ flush \in Flushes

\* The calls of s that wait are its latest ones, in their order.
InLine(s) ==
    /\ Done(s) \in Nat
    /\ \A i \in 1..Len(waiting[s]) : waiting[s][i] = <<s, Done(s) + i>>

\* The queue that s is about to write extends a copy by the stanza of its call.
Extends(s) ==
    \A q \in put[s] :
        waiting[s] # <<>> /\ \E r \in Copies : q = Append(r, <<s, Done(s) + 1>>)

MailIInv ==
    /\ MailType
    /\ \A s \in Senders : InLine(s) /\ Extends(s)
    /\ mailbox \in Copies /\ flush.queue \in Copies

-----------------------------------------------------------------------------
(* What is in a queue *)

(* The empty queue holds nothing. *)
LEMMA ContentEmpty == Content(<<>>) = {}
BY DEF Content

(* What a queue holds after a stanza was added. *)
LEMMA ContentAppend ==
    ASSUME NEW q \in Seq(Stanza), NEW m \in Stanza
    PROVE  Content(Append(q, m)) = Content(q) \cup {m}
<1> DEFINE r == Append(q, m)
<1>1. /\ DOMAIN q = 1..Len(q) /\ DOMAIN r = 1..(Len(q) + 1) /\ Len(q) \in Nat
      /\ r[Len(q) + 1] = m /\ \A i \in 1..Len(q) : r[i] = q[i]
  OBVIOUS
<1> HIDE DEF r
<1>2. \A x \in Content(r) : x \in Content(q) \cup {m}
  BY <1>1 DEF Content
<1>3. \A x \in Content(q) \cup {m} : x \in Content(r)
  BY <1>1 DEF Content
<1> QED BY <1>2, <1>3 DEF r

(* A queue that is not empty holds its first stanza and what its tail holds. *)
LEMMA ContentTail ==
    ASSUME NEW q \in Seq(Stanza), q # <<>>
    PROVE  /\ Head(q) \in Stanza /\ Tail(q) \in Seq(Stanza)
           /\ Content(q) = {Head(q)} \cup Content(Tail(q))
<1> DEFINE t == Tail(q)
<1>1. /\ t \in Seq(Stanza) /\ DOMAIN q = 1..Len(q) /\ DOMAIN t = 1..(Len(q) - 1)
      /\ Len(q) \in Nat \ {0} /\ Head(q) = q[1]
      /\ \A i \in 1..(Len(q) - 1) : t[i] = q[i + 1]
  OBVIOUS
<1> HIDE DEF t
<1>2. \A x \in Content(q) : x \in {Head(q)} \cup Content(t)
  <2> SUFFICES ASSUME NEW i \in 1..Len(q), i # 1 PROVE q[i] \in Content(t)
    <3>1. \A x \in Content(q) : \E i \in 1..Len(q) : x = q[i]
      BY <1>1 DEF Content
    <3> QED BY <3>1, <1>1
  <2>1. i - 1 \in 1..(Len(q) - 1) /\ t[i - 1] = q[i]
    BY <1>1
  <2> QED BY <1>1, <2>1 DEF Content
<1>3. \A x \in {Head(q)} \cup Content(t) : x \in Content(q)
  <2>1. q[1] \in Content(q)
    BY <1>1 DEF Content
  <2>2. ASSUME NEW i \in 1..(Len(q) - 1) PROVE t[i] \in Content(q)
    <3>1. i + 1 \in 1..Len(q) /\ t[i] = q[i + 1]
      BY <1>1
    <3> QED BY <1>1, <3>1 DEF Content
  <2>3. \A x \in Content(t) : \E i \in 1..(Len(q) - 1) : x = t[i]
    BY <1>1 DEF Content
  <2> QED BY <1>1, <2>1, <2>2, <2>3
<1>4. Head(q) \in Stanza
  OBVIOUS
<1> QED BY <1>1, <1>2, <1>3, <1>4 DEF t

\* A copy stays one without its head, and with one stanza more that is new.
LEMMA TailIsCopy ==
    ASSUME NEW q \in Copies, q # <<>>
    PROVE  Tail(q) \in Copies
<1> DEFINE t == Tail(q)
<1>1. /\ DOMAIN q = 1..Len(q) /\ DOMAIN t = 1..(Len(q) - 1) /\ Len(q) \in Nat
      /\ \A i \in 1..(Len(q) - 1) : t[i] = q[i + 1]
  BY DEF Copies
<1>2. t \in Seq(Stanza) /\ Content(t) \subseteq Past
  BY ContentTail DEF Copies
<1>3. NoRepeat(q)
  BY DEF Copies
<1> HIDE DEF t
<1>4. NoRepeat(t)
  <2> SUFFICES ASSUME NEW i \in DOMAIN t, NEW j \in DOMAIN t, t[i] = t[j] PROVE i = j
    BY DEF NoRepeat
  <2>1. i + 1 \in DOMAIN q /\ j + 1 \in DOMAIN q /\ q[i + 1] = q[j + 1]
    BY <1>1
  <2>2. i + 1 = j + 1
    BY <2>1, <1>3 DEF NoRepeat
  <2> QED BY <2>2, <1>1
<1> QED BY <1>2, <1>4 DEF Copies, t

(* A queue without repetitions stays so when a stanza is added that it does not hold. *)
LEMMA AppendNoRepeat ==
    ASSUME NEW q \in Seq(Stanza), NoRepeat(q), NEW m \in Stanza, m \notin Content(q)
    PROVE  NoRepeat(Append(q, m))
<1> DEFINE r == Append(q, m)
<1>1. /\ DOMAIN q = 1..Len(q) /\ DOMAIN r = 1..(Len(q) + 1) /\ Len(q) \in Nat
      /\ r[Len(q) + 1] = m /\ \A i \in 1..Len(q) : r[i] = q[i]
  OBVIOUS
<1> HIDE DEF r
<1>2. \A i \in 1..Len(q) : r[i] # m
  BY <1>1 DEF Content
<1> SUFFICES ASSUME NEW i \in DOMAIN r, NEW j \in DOMAIN r, r[i] = r[j] PROVE i = j
  BY DEF NoRepeat, r
<1>3. CASE i \in 1..Len(q) /\ j \in 1..Len(q)
  BY <1>1, <1>3 DEF NoRepeat
<1>4. CASE ~(i \in 1..Len(q) /\ j \in 1..Len(q))
  BY <1>1, <1>2, <1>4
<1> QED BY <1>3, <1>4

\* What may be in a record only grows, by the stanzas of calls that settle.
LEMMA CopiesGrow ==
    ASSUME \A s \in Senders : Done(s) \in Nat /\ Done(s)' \in Nat /\ Done(s) <= Done(s)'
    PROVE  Past \subseteq Past' /\ Copies \subseteq Copies'
<1>1. Past \subseteq Past'
  BY DhtMailboxAssumption DEF Past, Stanza
<1> QED BY <1>1 DEF Copies

-----------------------------------------------------------------------------
(* The inductive invariant *)

(* The invariant of the mailbox holds at the start. *)
LEMMA InitMail == Init => MailIInv
<1> SUFFICES ASSUME Init PROVE MailIInv
  OBVIOUS
<1>1. <<>> \in Copies
  BY ContentEmpty DEF Copies, NoRepeat
<1>2. MailType
  <2>1. handled \in [Stanza -> Nat] /\ flush \in Flushes
    BY DEF Init, Flushes, Idle
  <2>2. issued \in [Senders -> 0..MaxStanzas]
    BY DhtMailboxAssumption DEF Init
  <2>3. /\ waiting \in [Senders -> Seq(Stanza)]
        /\ put \in [Senders -> SUBSET Seq(Stanza)]
    BY DEF Init
  <2> QED BY <2>1, <2>2, <2>3 DEF Init, MailType
<1>3. ASSUME NEW s \in Senders PROVE InLine(s) /\ Extends(s)
  BY DEF Init, InLine, Extends, Done
<1> QED BY <1>1, <1>2, <1>3 DEF Init, MailIInv, Idle

\* The record is read as it is or, expired, as empty.
LEMMA ReadIsCopy ==
    ASSUME mailbox \in Copies
    PROVE  Read \in Copies
BY ContentEmpty DEF Read, Copies, NoRepeat

\* What a sender writes is a copy as soon as its call counts as settled.
LEMMA PutIsCopy ==
    ASSUME MailType, NEW s \in Senders, InLine(s), Extends(s), NEW q \in put[s],
           Copies \subseteq Copies', Done(s)' = Done(s) + 1, issued' = issued
    PROVE  q \in Copies'
<1>1. PICK r \in Copies : q = Append(r, <<s, Done(s) + 1>>)
  BY DEF Extends
<1> DEFINE m == <<s, Done(s) + 1>>
<1>2. waiting[s] # <<>> /\ Len(waiting[s]) \in Nat \ {0}
  BY DEF Extends, MailType
<1>3. m \in Stanza
  <2>1. issued[s] \in 0..MaxStanzas /\ Done(s) = issued[s] - Len(waiting[s]) /\ Done(s) \in Nat
    BY DEF MailType, InLine, Done
  <2>2. Done(s) + 1 \in 1..MaxStanzas
    BY <2>1, <1>2, DhtMailboxAssumption
  <2> QED BY <2>2 DEF Stanza
<1>4. m \notin Past
  BY DEF Past, InLine
<1>5. m \in Past'
  BY <1>3 DEF Past, InLine, Stanza
<1>6. r \in Seq(Stanza) /\ NoRepeat(r) /\ Content(r) \subseteq Past /\ Content(r) \subseteq Past'
  BY <1>1 DEF Copies
<1> HIDE DEF m
<1>7. q = Append(r, m)
  BY <1>1 DEF m
<1>8. Content(q) = Content(r) \cup {m}
  BY <1>3, <1>6, <1>7, ContentAppend
<1>9. NoRepeat(q)
  BY <1>3, <1>4, <1>6, <1>7, AppendNoRepeat
<1> QED BY <1>3, <1>5, <1>6, <1>7, <1>8, <1>9 DEF Copies

\* A call that settles makes room for the next one of its process.
LEMMA SettleStep ==
    ASSUME MailType, NEW s \in Senders, \A p \in Senders : InLine(p) /\ Extends(p),
           NEW result, Settle(s, result), waiting[s] # <<>>, issued' = issued
    PROVE  /\ Done(s)' = Done(s) + 1
           /\ waiting' \in [Senders -> Seq(Stanza)]
           /\ put' \in [Senders -> SUBSET Seq(Stanza)]
           /\ Copies \subseteq Copies'
           /\ \A p \in Senders : InLine(p)' /\ Extends(p)'
<1> DEFINE w == waiting[s]
           t == Tail(waiting[s])
<1>1. /\ w \in Seq(Stanza) /\ w # <<>> /\ t \in Seq(Stanza) /\ Len(w) \in Nat \ {0}
      /\ Len(t) = Len(w) - 1 /\ \A i \in 1..Len(t) : t[i] = w[i + 1]
  BY DEF MailType
<1>2. /\ waiting' = [waiting EXCEPT ![s] = t] /\ put' = [put EXCEPT ![s] = {}]
  BY DEF Settle
<1>3. /\ waiting' \in [Senders -> Seq(Stanza)] /\ put' \in [Senders -> SUBSET Seq(Stanza)]
      /\ waiting'[s] = t /\ put'[s] = {}
      /\ \A p \in Senders \ {s} : waiting'[p] = waiting[p] /\ put'[p] = put[p]
  BY <1>1, <1>2 DEF MailType
<1>4. issued[s] \in Nat
  BY DhtMailboxAssumption DEF MailType
<1> HIDE DEF t
<1>5. Done(s)' = Done(s) + 1 /\ Done(s) \in Nat
  BY <1>1, <1>3, <1>4 DEF Done, InLine
<1>6. InLine(s)' /\ Extends(s)'
  <2>1. ASSUME NEW i \in 1..Len(t) PROVE t[i] = <<s, Done(s) + 1 + i>>
    <3>1. i + 1 \in 1..Len(w) /\ t[i] = w[i + 1]
      BY <1>1
    <3>2. w[i + 1] = <<s, Done(s) + (i + 1)>>
      BY <3>1 DEF InLine
    <3> QED BY <3>1, <3>2, <1>5
  <2> QED BY <1>3, <1>5, <2>1 DEF InLine, Extends
<1>7. ASSUME NEW p \in Senders, p # s PROVE Done(p)' = Done(p) /\ InLine(p)'
  BY <1>3, <1>7 DEF Done, InLine
<1>8. Copies \subseteq Copies'
  <2>1. \A p \in Senders : Done(p) \in Nat /\ Done(p)' \in Nat /\ Done(p) <= Done(p)'
    BY <1>5, <1>7 DEF InLine
  <2> QED BY <2>1, CopiesGrow
<1>9. ASSUME NEW p \in Senders, p # s PROVE Extends(p)'
  <2>1. Done(p)' = Done(p) /\ waiting'[p] = waiting[p] /\ put'[p] = put[p]
    BY <1>3, <1>7, <1>9
  <2> SUFFICES ASSUME NEW q \in put[p]
               PROVE  waiting[p] # <<>>
                      /\ \E r \in Copies' : q = Append(r, <<p, Done(p) + 1>>)
    BY <2>1 DEF Extends
  <2> QED BY <1>8 DEF Extends
<1> QED BY <1>3, <1>5, <1>6, <1>7, <1>8, <1>9

\* A step that leaves the senders alone needs to care for the two copies only.
LEMMA OwnerStep ==
    ASSUME MailIInv, UNCHANGED senders, handled' \in [Stanza -> Nat], expired' \in BOOLEAN,
           flush' \in Flushes,
           mailbox' \in Copies, flush'.queue \in Copies
    PROVE  MailIInv'
BY DEF MailIInv, MailType, senders, InLine, Extends, Done, Copies, Past

\* One that leaves the owner alone and settles no call, the others.
LEMMA SenderStep ==
    ASSUME MailIInv, MailType', UNCHANGED <<mailbox, flush>>,
           \A p \in Senders : Done(p)' = Done(p) /\ InLine(p)',
           \A p \in Senders : Extends(p) => Extends(p)'
    PROVE  MailIInv'
<1>1. Copies \subseteq Copies'
  BY CopiesGrow DEF MailIInv, InLine
<1> QED BY <1>1 DEF MailIInv

(* A sender calls bufferStanzaToDht: its stanza is the next of its process. *)
LEMMA BufferStep ==
    ASSUME MailIInv, NEW s \in Senders, Buffer(s)
    PROVE  MailIInv'
<1> DEFINE m == <<s, issued[s] + 1>>
           w == waiting[s]
           a == Append(w, m)
<1>1. m \in Stanza /\ issued[s] \in Nat /\ w \in Seq(Stanza) /\ Len(w) \in Nat
  BY DhtMailboxAssumption DEF MailIInv, MailType, Buffer, Stanza
<1>2. /\ a \in Seq(Stanza) /\ Len(a) = Len(w) + 1 /\ a[Len(w) + 1] = m
      /\ \A i \in 1..Len(w) : a[i] = w[i]
  BY <1>1
<1>3. /\ waiting' = [waiting EXCEPT ![s] = a] /\ issued' = [issued EXCEPT ![s] = @ + 1]
      /\ UNCHANGED <<mailbox, expired, put, flush, handled>>
  BY DEF Buffer, owner
<1> HIDE DEF a, m
<1>4. MailType'
  <2>1. issued' \in [Senders -> 0..MaxStanzas]
    BY <1>1, <1>3, DhtMailboxAssumption DEF MailIInv, MailType, Buffer
  <2>2. waiting' \in [Senders -> Seq(Stanza)]
    BY <1>2, <1>3 DEF MailIInv, MailType
  <2> QED BY <2>1, <2>2, <1>3 DEF MailIInv, MailType
<1>5. /\ waiting'[s] = a /\ issued'[s] = issued[s] + 1
      /\ \A p \in Senders \ {s} : waiting'[p] = waiting[p] /\ issued'[p] = issued[p]
  BY <1>3 DEF MailIInv, MailType
<1>6. Done(s)' = Done(s) /\ Done(s) \in Nat /\ Done(s) + Len(w) = issued[s]
  <2>1. Done(s) \in Nat /\ Done(s) = issued[s] - Len(w)
    BY DEF MailIInv, InLine, Done
  <2>2. Done(s)' = (issued[s] + 1) - Len(a)
    BY <1>5 DEF Done
  <2> QED BY <1>1, <1>2, <2>1, <2>2
<1>7. InLine(s)'
  <2>1. ASSUME NEW i \in 1..Len(a) PROVE a[i] = <<s, Done(s) + i>>
    <3>1. CASE i \in 1..Len(w)
      BY <1>2, <3>1 DEF MailIInv, InLine
    <3>2. CASE i = Len(w) + 1
      BY <1>1, <1>2, <1>6, <3>2 DEF m
    <3> QED BY <1>1, <1>2, <3>1, <3>2
  <2> QED BY <1>5, <1>6, <2>1 DEF InLine
<1>8. ASSUME NEW p \in Senders, p # s PROVE Done(p)' = Done(p) /\ InLine(p)'
  BY <1>5, <1>8 DEF Done, InLine, MailIInv
<1>9. Past' = Past /\ Copies' = Copies
  <2>1. \A p \in Senders : Done(p)' = Done(p)
    BY <1>6, <1>8
  <2>2. Past' = Past
    BY <2>1 DEF Past, Stanza
  <2> QED BY <2>2 DEF Copies
<1>10. ASSUME NEW p \in Senders, Extends(p) PROVE Extends(p)'
  <2>1. put'[p] = put[p] /\ Done(p)' = Done(p) /\ (waiting[p] # <<>> => waiting'[p] # <<>>)
    BY <1>2, <1>1, <1>3, <1>5, <1>6, <1>8
  <2> QED BY <2>1, <1>9, <1>10 DEF Extends
<1> QED BY <1>3, <1>4, <1>6, <1>7, <1>8, <1>10, SenderStep

(* The sender has read the record: what it will put is that copy and its own stanza. *)
LEMMA BufferReadsStep ==
    ASSUME MailIInv, NEW s \in Senders, BufferReads(s)
    PROVE  MailIInv'
<1> DEFINE q == Append(Read, Head(waiting[s]))
<1>1. /\ Head(waiting[s]) = <<s, Done(s) + 1>> /\ Head(waiting[s]) \in Stanza
  <2>1. waiting[s] \in Seq(Stanza) /\ waiting[s] # <<>> /\ InLine(s)
    BY DEF MailIInv, MailType, BufferReads
  <2>2. 1 \in 1..Len(waiting[s]) /\ Head(waiting[s]) = waiting[s][1] /\ waiting[s][1] \in Stanza
    BY <2>1
  <2> QED BY <2>1, <2>2 DEF InLine
<1>2. Read \in Copies /\ Read \in Seq(Stanza)
  BY ReadIsCopy DEF MailIInv, Copies
<1>3. q \in Seq(Stanza)
  BY <1>1, <1>2
<1>4. /\ put' = [put EXCEPT ![s] = {q}] /\ waiting[s] # <<>>
      /\ UNCHANGED <<mailbox, expired, waiting, issued, flush, handled>>
  BY DEF BufferReads, owner
<1>5. q = Append(Read, <<s, Done(s) + 1>>)
  BY <1>1
<1> HIDE DEF q
<1>6. MailType'
  BY <1>3, <1>4 DEF MailIInv, MailType
<1>7. \A p \in Senders : Done(p)' = Done(p) /\ InLine(p)'
  BY <1>4 DEF MailIInv, InLine, Done
<1>8. Copies' = Copies
  BY <1>4 DEF Copies, Past, Done
<1>9. ASSUME NEW p \in Senders, Extends(p) PROVE Extends(p)'
  <2>1. CASE p = s
    <3>1. put'[s] = {q}
      BY <1>4 DEF MailIInv, MailType
    <3> QED BY <2>1, <3>1, <1>2, <1>4, <1>5, <1>7, <1>8 DEF Extends
  <2>2. CASE p # s
    <3>1. put'[p] = put[p] /\ waiting'[p] = waiting[p] /\ Done(p)' = Done(p)
      BY <2>2, <1>4, <1>7 DEF MailIInv, MailType
    <3> QED BY <3>1, <1>8, <1>9 DEF Extends
  <2> QED BY <2>1, <2>2
<1> QED BY <1>4, <1>6, <1>7, <1>9, SenderStep

\* The three ways in which a call settles, with what it writes, if anything.
LEMMA SettlingStep ==
    ASSUME MailIInv, NEW s \in Senders, NEW result, Settle(s, result), waiting[s] # <<>>,
           UNCHANGED <<issued, owner>>, expired' \in BOOLEAN,
           mailbox' \in put[s] \cup {mailbox}
    PROVE  MailIInv'
<1>1. /\ Done(s)' = Done(s) + 1
      /\ waiting' \in [Senders -> Seq(Stanza)] /\ put' \in [Senders -> SUBSET Seq(Stanza)]
      /\ Copies \subseteq Copies'
      /\ \A p \in Senders : InLine(p)' /\ Extends(p)'
  BY SettleStep DEF MailIInv
<1>2. mailbox' \in Copies'
  <2>1. CASE mailbox' = mailbox
    BY <2>1, <1>1 DEF MailIInv
  <2>2. CASE mailbox' \in put[s]
    BY <2>2, <1>1, PutIsCopy DEF MailIInv
  <2> QED BY <2>1, <2>2
<1>3. flush'.queue \in Copies'
  BY <1>1 DEF MailIInv, owner
<1>4. MailType'
  BY <1>1 DEF MailIInv, MailType, owner
<1> QED BY <1>1, <1>2, <1>3, <1>4 DEF MailIInv

(* The put succeeds, or the read or the put fails: the call is settled. *)
LEMMA SettlesStep ==
    ASSUME MailIInv, NEW s \in Senders,
           BufferReadFails(s) \/ BufferPuts(s) \/ BufferPutFails(s)
    PROVE  MailIInv'
<1>1. CASE BufferReadFails(s)
  BY <1>1, SettlingStep DEF BufferReadFails, MailIInv, MailType
<1>2. CASE BufferPuts(s)
  <2>1. waiting[s] # <<>>
    BY <1>2 DEF BufferPuts, MailIInv, Extends
  <2> QED BY <1>2, <2>1, SettlingStep DEF BufferPuts, Write
<1>3. CASE BufferPutFails(s)
  <2>1. waiting[s] # <<>>
    BY <1>3 DEF BufferPutFails, MailIInv, Extends
  <2> QED BY <1>3, <2>1, SettlingStep DEF BufferPutFails, Write, MailIInv, MailType
<1> QED BY <1>1, <1>2, <1>3

\* Steps of the owner.
LEMMA FlushStep ==
    ASSUME MailIInv, FlushReads \/ FlushReadFails \/ Handle \/ HandleThrows \/ FlushPuts
                     \/ FlushPutFails \/ AskFlush \/ Restart \/ Expire
    PROVE  MailIInv'
<1>1. Idle \in Flushes /\ Idle.queue \in Copies
  BY ContentEmpty DEF Idle, Flushes, Copies, NoRepeat
<1>2. CASE FlushReads
  <2>1. Read \in Copies /\ Read \in Seq(Stanza)
    BY ReadIsCopy DEF MailIInv, Copies
  <2>2. flush' \in Flushes /\ flush'.queue \in Copies
    <3>1. CASE Read = <<>>
      BY <1>1, <1>2, <3>1 DEF FlushReads
    <3>2. CASE Read # <<>>
      BY <1>2, <2>1, <3>2 DEF FlushReads, Flushes
    <3> QED BY <3>1, <3>2
  <2> QED BY <1>2, <2>2, OwnerStep DEF FlushReads, MailIInv, MailType
<1>3. CASE Handle
  <2>1. flush' \in Flushes /\ flush'.queue = flush.queue
    BY <1>3 DEF Handle, MailIInv, MailType, Flushes
  <2>2. handled' \in [Stanza -> Nat]
    <3> DEFINE h == Head(flush.queue)
    <3>1. h \in Stanza
      BY <1>3, ContentTail DEF Handle, MailIInv, MailType, Flushes
    <3>2. handled' = [handled EXCEPT ![h] = @ + 1]
      BY <1>3 DEF Handle
    <3> HIDE DEF h
    <3> QED BY <3>1, <3>2 DEF MailIInv, MailType
  <2> QED BY <1>3, <2>1, <2>2, OwnerStep DEF Handle, MailIInv, MailType
<1>4. ASSUME flush.stage = "put"
      PROVE  Tail(flush.queue) \in Copies /\ Tail(flush.queue) \in Seq(Stanza)
  BY <1>4, TailIsCopy DEF MailIInv, MailType, Flushes, Copies
<1>5. CASE FlushPuts
  <2>1. Tail(flush.queue) \in Copies /\ Tail(flush.queue) \in Seq(Stanza)
    BY <1>4, <1>5 DEF FlushPuts
  <2>2. flush' \in Flushes /\ flush'.queue \in Copies
    <3>1. CASE Tail(flush.queue) = <<>>
      BY <1>1, <1>5, <3>1 DEF FlushPuts
    <3>2. CASE Tail(flush.queue) # <<>>
      BY <1>5, <2>1, <3>2 DEF FlushPuts, Flushes
    <3> QED BY <3>1, <3>2
  <2> QED BY <1>5, <2>1, <2>2, OwnerStep DEF FlushPuts, Write, MailIInv, MailType
<1>6. CASE FlushPutFails
  BY <1>1, <1>4, <1>6, OwnerStep DEF FlushPutFails, Write, MailIInv, MailType
<1>7. CASE FlushReadFails \/ HandleThrows \/ Restart
  BY <1>1, <1>7, OwnerStep DEF FlushReadFails, HandleThrows, Restart, MailIInv, MailType
<1>8. CASE AskFlush \/ Expire
  BY <1>8, OwnerStep DEF AskFlush, Expire, MailIInv, MailType, owner
<1> QED BY <1>2, <1>3, <1>5, <1>6, <1>7, <1>8

(* Every step of the mailbox keeps its invariant. *)
LEMMA NextMail == MailIInv /\ [Next]_vars => MailIInv'
<1> SUFFICES ASSUME MailIInv, [Next]_vars PROVE MailIInv'
  OBVIOUS
<1>1. CASE Next
  BY <1>1, BufferStep, BufferReadsStep, SettlesStep, FlushStep DEF Next
<1>2. CASE UNCHANGED vars
  BY <1>2, OwnerStep DEF vars, owner, MailIInv, MailType
<1> QED BY <1>1, <1>2

-----------------------------------------------------------------------------
(* With one sender *)

OneSender == \A s, p \in Senders : s = p

Rest == IF flush.stage = "put" THEN Tail(flush.queue) ELSE flush.queue

\* What is about to be written holds all that the record holds, which holds all
\* that a flush has left.  A record that has expired is read by nobody.
TailIInv ==
    /\ Content(Rest) \subseteq Content(mailbox)
    /\ expired => flush = Idle
    /\ ~expired => \A s \in Senders : \A q \in put[s] : Content(mailbox) \subseteq Content(q)
    /\ flush.stage = "put" => handled[Head(flush.queue)] > 0

(* The invariant of the tail of a flush holds at the start. *)
LEMMA InitTail == Init => TailIInv
BY ContentEmpty DEF Init, TailIInv, Rest, Idle

\* The sender's steps leave the flush alone.  What it reads is all of the
\* record, unless that has expired and is dead; what it writes holds it all.
LEMMA SenderKeepsTail ==
    ASSUME MailIInv, TailIInv, OneSender, NEW s \in Senders,
           Buffer(s) \/ BufferReads(s) \/ BufferReadFails(s) \/ BufferPuts(s) \/ BufferPutFails(s)
    PROVE  TailIInv' /\ (~expired => Content(mailbox) \subseteq Content(mailbox'))
<1>1. flush' = flush /\ handled' = handled /\ Rest' = Rest
  BY DEF Buffer, BufferReads, BufferReadFails, BufferPuts, BufferPutFails, owner, Rest
<1>2. flush = Idle => Rest = <<>>
  BY DEF Rest, Idle
<1>3. CASE Buffer(s)
  BY <1>1, <1>3 DEF TailIInv, Buffer
<1>4. CASE BufferReads(s)
  <2>1. Read \in Seq(Stanza) /\ Head(waiting[s]) \in Stanza
    BY <1>4, ReadIsCopy, ContentTail DEF BufferReads, MailIInv, MailType, Copies
  <2>2. Content(Append(Read, Head(waiting[s]))) = Content(Read) \cup {Head(waiting[s])}
    BY <2>1, ContentAppend
  <2>3. \A p \in Senders : put'[p] = {Append(Read, Head(waiting[s]))}
    BY <1>4 DEF BufferReads, OneSender, MailIInv, MailType
  <2> QED BY <1>1, <1>4, <2>2, <2>3 DEF TailIInv, BufferReads, Read
<1>5. CASE BufferReadFails(s)
  <2>1. \A p \in Senders : put'[p] = {}
    BY <1>5 DEF BufferReadFails, Settle, OneSender, MailIInv, MailType
  <2> QED BY <1>1, <1>5, <2>1 DEF TailIInv, BufferReadFails
<1>6. CASE BufferPuts(s) \/ BufferPutFails(s)
  <2>1. \A p \in Senders : put'[p] = {}
    BY <1>6 DEF BufferPuts, BufferPutFails, Settle, OneSender, MailIInv, MailType
  <2>2. (~expired' \/ expired) /\ (~expired => Content(mailbox) \subseteq Content(mailbox'))
    BY <1>6 DEF BufferPuts, BufferPutFails, Write, TailIInv
  <2>3. CASE ~expired
    BY <1>1, <2>1, <2>2, <2>3 DEF TailIInv
  <2>4. CASE expired
    <3>1. flush' = Idle /\ Rest' = <<>>
      BY <1>1, <1>2, <2>4 DEF TailIInv
    <3> QED BY <1>1, <2>1, <2>2, <2>4, <3>1, ContentEmpty DEF TailIInv
  <2> QED BY <2>3, <2>4
<1> QED BY <1>3, <1>4, <1>5, <1>6

\* The owner's steps: a flush takes out its first stanza only.
LEMMA OwnerKeepsTail ==
    ASSUME MailIInv, TailIInv,
           FlushReads \/ FlushReadFails \/ Handle \/ HandleThrows \/ FlushPuts
             \/ FlushPutFails \/ AskFlush \/ Restart \/ Expire
    PROVE  TailIInv'
<1>1. Idle.stage = "idle" /\ Idle.queue = <<>>
  BY DEF Idle
<1>2. CASE FlushReads
  <2>1. CASE Read = <<>>
    BY <1>1, <1>2, <2>1, ContentEmpty DEF FlushReads, TailIInv, Rest, senders
  <2>2. CASE Read # <<>>
    <3>1. ~expired /\ mailbox' = mailbox /\ flush' = [stage |-> "handle", queue |-> mailbox]
      BY <1>2, <2>2 DEF FlushReads, Read
    <3>2. Rest' = mailbox
      BY <3>1 DEF Rest
    <3> QED BY <1>2, <3>1, <3>2 DEF FlushReads, TailIInv, senders
  <2> QED BY <2>1, <2>2
<1>3. CASE Handle
  <2>1. flush.queue \in Seq(Stanza) /\ flush.queue # <<>>
    BY <1>3 DEF Handle, MailIInv, MailType, Flushes
  <2>2. /\ Head(flush.queue) \in Stanza
        /\ Content(Tail(flush.queue)) \subseteq Content(flush.queue)
    BY <2>1, ContentTail
  <2>3. /\ flush'.stage = "put" /\ flush'.queue = flush.queue
        /\ handled' = [handled EXCEPT ![Head(flush.queue)] = @ + 1]
        /\ UNCHANGED <<mailbox, expired, put>> /\ flush.stage = "handle"
    BY <1>3 DEF Handle, MailIInv, MailType, Flushes, senders
  <2>4. handled'[Head(flush.queue)] > 0
    BY <2>2, <2>3 DEF MailIInv, MailType
  <2>5. Rest' = Tail(flush.queue) /\ Rest = flush.queue
    BY <2>3 DEF Rest
  <2>6. ~expired
    BY <1>1, <2>3 DEF TailIInv
  <2> QED BY <2>2, <2>3, <2>4, <2>5, <2>6 DEF TailIInv
<1>4. CASE FlushPuts \/ FlushPutFails
  <2>1. flush.stage = "put" /\ put' = put /\ Rest = Tail(flush.queue)
    BY <1>4 DEF FlushPuts, FlushPutFails, senders, Rest
  <2>2. ~expired
    BY <1>1, <2>1 DEF TailIInv
  <2>3. mailbox' \in {mailbox, Rest} /\ ~expired'
    BY <1>4, <2>1, <2>2 DEF FlushPuts, FlushPutFails, Write
  <2>4. Content(mailbox') \subseteq Content(mailbox)
    BY <2>3 DEF TailIInv
  <2>5. Content(Rest') \subseteq Content(mailbox') /\ flush'.stage # "put"
    <3>1. CASE flush' = Idle
      BY <3>1, <1>1, ContentEmpty DEF Rest
    <3>2. CASE flush' # Idle
      <4>1. mailbox' = Rest /\ flush' = [stage |-> "handle", queue |-> Rest]
        BY <1>4, <3>2, <2>1 DEF FlushPuts, FlushPutFails, Write
      <4> QED BY <4>1 DEF Rest
    <3> QED BY <3>1, <3>2
  <2> QED BY <2>1, <2>2, <2>3, <2>4, <2>5 DEF TailIInv
<1>5. CASE HandleThrows \/ Restart
  BY <1>1, <1>5, ContentEmpty DEF HandleThrows, Restart, TailIInv, Rest, senders
<1>6. CASE FlushReadFails \/ AskFlush
  BY <1>6 DEF FlushReadFails, AskFlush, TailIInv, Rest, senders
<1>7. CASE Expire
  BY <1>7 DEF Expire, TailIInv, Rest, senders, owner
<1> QED BY <1>2, <1>3, <1>4, <1>5, <1>6, <1>7

(* With one sender, every step keeps the invariant of the tail. *)
LEMMA NextTail == MailIInv /\ TailIInv /\ OneSender /\ [Next]_vars => TailIInv'
<1> SUFFICES ASSUME MailIInv, TailIInv, OneSender, [Next]_vars PROVE TailIInv'
  OBVIOUS
<1>1. CASE Next
  BY <1>1, SenderKeepsTail, OwnerKeepsTail DEF Next
<1>2. CASE UNCHANGED vars
  BY <1>2 DEF vars, senders, owner, TailIInv, Rest
<1> QED BY <1>1, <1>2

\* A stanza leaves the record handled, expired, or under an older copy.
LEMMA LossStep ==
    ASSUME MailIInv, TailIInv, OneSender, [Next]_vars,
           NEW m \in Content(mailbox) \ Content(mailbox')
    PROVE  handled[m] > 0 \/ expired \/ (flush.stage = "put" /\ m \notin Content(flush.queue))
<1>1. mailbox' # mailbox
  OBVIOUS
<1>2. CASE \E s \in Senders : Buffer(s) \/ BufferReads(s) \/ BufferReadFails(s)
                              \/ BufferPuts(s) \/ BufferPutFails(s)
  BY <1>2, SenderKeepsTail
<1>3. CASE FlushPuts \/ FlushPutFails
  <2>1. flush.stage = "put" /\ mailbox' = Tail(flush.queue)
    BY <1>1, <1>3 DEF FlushPuts, FlushPutFails, Write
  <2>2. Content(flush.queue) = {Head(flush.queue)} \cup Content(Tail(flush.queue))
    BY <2>1, ContentTail DEF MailIInv, MailType, Flushes
  <2> QED BY <2>1, <2>2 DEF TailIInv
<1> QED
  BY <1>1, <1>2, <1>3 DEF Next, vars, AskFlush, FlushReads, FlushReadFails, Handle,
     HandleThrows, Restart, Expire

-----------------------------------------------------------------------------
(* What is proved of the mailbox *)

\* However reads and puts of any number of senders overlap, the record never
\* holds a stanza twice.
THEOREM RecordHoldsOnce == Spec => []HeldOnce
<1>1. MailIInv => HeldOnce
  BY DEF MailIInv, Copies, NoRepeat, HeldOnce
<1> QED BY InitMail, NextMail, <1>1, PTL DEF Spec

\* With one sender, what a flush has still to handle is in the record all the
\* while, whatever fails.
THEOREM TailsStayQueued == ASSUME OneSender PROVE Spec => []TailStaysQueued
<1>1. MailIInv /\ TailIInv /\ [Next]_vars => TailIInv'
  BY NextTail
<1>2. TailIInv => TailStaysQueued
  BY DEF TailIInv, Rest, TailStaysQueued
<1> QED BY InitMail, NextMail, InitTail, <1>1, <1>2, PTL DEF Spec

\* And a stanza that was not handled leaves the record only when it expires or
\* under a flush that read the record before.
THEOREM OlderFlushesLose == ASSUME OneSender PROVE Spec => OnlyAnOlderFlushLoses
<1>1. MailIInv /\ TailIInv /\ [Next]_vars => TailIInv'
  BY NextTail
<1>2. MailIInv /\ TailIInv /\ [Next]_vars =>
         [\A m \in Content(mailbox) \ Content(mailbox') :
             \/ handled[m] > 0
             \/ expired
             \/ flush.stage = "put" /\ m \notin Content(flush.queue)]_vars
  BY LossStep
<1> QED BY InitMail, NextMail, InitTail, <1>1, <1>2, PTL DEF Spec, OnlyAnOlderFlushLoses

-----------------------------------------------------------------------------
(* The topics *)

\* A followed feed is heard, was cut off, or is about to be deleted; a follow
\* that is not recorded yet is heard or was cut off.
HeardInv(f) ==
    /\ f \in followed => f \in heard \/ f \in cut \/ leaving[f] = 2
    /\ following[f].pc = 1 => f \in heard \/ f \in cut

\* A topic that is heard has a user, or somebody who is about to record one.
ReasonInv(f) ==
    /\ f \in heard => \/ f \in followed \cup preview \cup members \cup index
                      \/ following[f].pc = 1 \/ f \in previewing
                      \/ f \in adding \/ f \in stray
    /\ leaving[f] = 2 => f \notin heard \/ f \in stray

\* Without a rival, one change at a time stands between the record and what
\* the owner was told.
DeclaredInv(f) ==
    f \notin rival =>
        /\ ~Changing(f) => (f \in declared <=> f \in public)
        /\ following[f].pc # 0 => leaving[f] = 0 /\ declares[f] = {}
        /\ leaving[f] # 0 => declares[f] = {} /\ f \notin declared
        /\ following[f].pc = 1 =>
              /\ f \in declared <=> f \in public
              /\ f \in public => following[f].vis = "public"
        /\ following[f].pc = 2 =>
              /\ f \in public <=> following[f].vis = "public"
              /\ f \in declared => f \in public
        /\ "public" \in declares[f] => f \in public
        /\ "private" \in declares[f] => f \notin public

TopicIInv ==
    /\ TopicTypeOK
    /\ \A f \in Feeds : HeardInv(f) /\ ReasonInv(f) /\ DeclaredInv(f)
    /\ MembersAreIndexed

-----------------------------------------------------------------------------
(* The invariant of the topics holds at the start. *)
LEMMA InitTopic == TopicInit => TopicIInv
<1> SUFFICES ASSUME TopicInit PROVE TopicIInv
  OBVIOUS
<1>1. TopicTypeOK
  BY TopicAssumption DEF TopicInit, TopicTypeOK, NotFollowing, Vis
<1>2. ASSUME NEW f \in Feeds PROVE HeardInv(f) /\ ReasonInv(f)
  BY DEF TopicInit, HeardInv, ReasonInv, NotFollowing, Vis
<1>3. ASSUME NEW f \in Feeds PROVE DeclaredInv(f)
  BY DEF TopicInit, DeclaredInv, Changing, NotFollowing, Vis
<1>4. MembersAreIndexed
  BY DEF TopicInit, MembersAreIndexed
<1> QED BY <1>1, <1>2, <1>3, <1>4 DEF TopicIInv

\* What the limit pushes out was followed, and is not the new record.
LEMMA OutWasFollowed ==
    ASSUME NEW f \in Feeds, NEW out \in PushedOut(f)
    PROVE  out \subseteq followed \ {f}
<1>1. CASE Cardinality(followed \cup {f}) > FollowLimit
  BY <1>1 DEF PushedOut
<1>2. CASE ~(Cardinality(followed \cup {f}) > FollowLimit)
  BY <1>2 DEF PushedOut
<1> QED BY <1>1, <1>2

\* Every operation keeps the types.
LEMMA TypeStep ==
    ASSUME TopicTypeOK, TopicNext
    PROVE  TopicTypeOK'
<1>1. ASSUME NEW g \in Feeds, StartPreview(g) PROVE TopicTypeOK'
  BY TopicAssumption, <1>1
  DEF TopicTypeOK, NotFollowing, Vis, StartPreview, Act, Hear
<1>2. ASSUME NEW g \in Feeds, RecordPreview(g) PROVE TopicTypeOK'
  BY TopicAssumption, <1>2 DEF TopicTypeOK, NotFollowing, Vis, RecordPreview
<1>3. ASSUME NEW g \in Feeds, StopPreview(g) PROVE TopicTypeOK'
  BY TopicAssumption, <1>3
  DEF TopicTypeOK, NotFollowing, Vis, StopPreview, Unhear, Act
<1>4. ASSUME NEW g \in Feeds, NEW vis \in Vis, StartFollow(g, vis)
       PROVE TopicTypeOK'
  BY TopicAssumption, <1>4
  DEF TopicTypeOK, NotFollowing, Vis, StartFollow, Act, Hear
<1>5. ASSUME NEW g \in Feeds, NEW vis \in Vis, SetVisibility(g, vis)
       PROVE TopicTypeOK'
  BY TopicAssumption, <1>5
  DEF TopicTypeOK, NotFollowing, Vis, SetVisibility, Act
<1>6. ASSUME NEW g \in Feeds, NEW vis \in Vis, Declare(g, vis)
       PROVE TopicTypeOK'
  BY TopicAssumption, <1>6 DEF TopicTypeOK, NotFollowing, Vis, Declare
<1>7. ASSUME NEW g \in Feeds, RecordFollow(g) PROVE TopicTypeOK'
  <2>1. PICK out \in PushedOut(g) :
           /\ followed' = (followed \cup {g}) \ out
           /\ public' = (IF following[g].vis = "public" THEN public \cup {g}
                                                       ELSE public \ {g}) \ out
           /\ stray' = stray \cup (out \cap heard)
           /\ rival' = rival \cup out
    BY <1>7 DEF RecordFollow
  <2>2. out \subseteq followed \ {g}
    BY OutWasFollowed
  <2> QED BY <1>7, <2>1, <2>2 DEF TopicTypeOK, Vis, RecordFollow
<1>8. ASSUME NEW g \in Feeds, EndFollow(g) PROVE TopicTypeOK'
  BY TopicAssumption, <1>8 DEF TopicTypeOK, NotFollowing, Vis, EndFollow
<1>9. ASSUME NEW g \in Feeds, AnnouncePublic(g) PROVE TopicTypeOK'
  BY TopicAssumption, <1>9 DEF TopicTypeOK, NotFollowing, Vis, AnnouncePublic
<1>10. ASSUME NEW g \in Feeds, StartUnfollow(g) PROVE TopicTypeOK'
  BY TopicAssumption, <1>10
  DEF TopicTypeOK, NotFollowing, Vis, StartUnfollow, Act
<1>11. ASSUME NEW g \in Feeds, Unfollow(g) PROVE TopicTypeOK'
  BY TopicAssumption, <1>11 DEF TopicTypeOK, NotFollowing, Vis, Unfollow, Unhear
<1>12. ASSUME NEW g \in Feeds, EndUnfollow(g) PROVE TopicTypeOK'
  BY TopicAssumption, <1>12 DEF TopicTypeOK, NotFollowing, Vis, EndUnfollow
<1>13. ASSUME NEW g \in Feeds, StartAdd(g) PROVE TopicTypeOK'
  BY TopicAssumption, <1>13
  DEF TopicTypeOK, NotFollowing, Vis, StartAdd, Act, Hear
<1>14. ASSUME NEW g \in Feeds, AddStores(g) PROVE TopicTypeOK'
  BY TopicAssumption, <1>14 DEF TopicTypeOK, NotFollowing, Vis, AddStores
<1>15. CASE RestartTopics
  BY TopicAssumption, <1>15
  DEF TopicTypeOK, NotFollowing, Vis, RestartTopics, Act
<1> QED
  BY <1>1, <1>2, <1>3, <1>4, <1>5, <1>6, <1>7, <1>8, <1>9, <1>10, <1>11, <1>12,
     <1>13, <1>14, <1>15 DEF TopicNext

\* What the operations on any feed do to the hearing of f.
LEMMA HeardStep ==
    ASSUME TopicTypeOK, NEW f \in Feeds, HeardInv(f), TopicNext
    PROVE  HeardInv(f)'
<1>1. ASSUME NEW g \in Feeds, StartPreview(g) PROVE HeardInv(f)'
  BY <1>1 DEF TopicTypeOK, HeardInv, NotFollowing, Vis, StartPreview, Act, Hear
<1>2. ASSUME NEW g \in Feeds, RecordPreview(g) PROVE HeardInv(f)'
  BY <1>2 DEF TopicTypeOK, HeardInv, NotFollowing, Vis, RecordPreview
<1>3. ASSUME NEW g \in Feeds, StopPreview(g) PROVE HeardInv(f)'
  BY <1>3 DEF TopicTypeOK, HeardInv, NotFollowing, Vis, StopPreview, Unhear, Act
<1>4. ASSUME NEW g \in Feeds, NEW vis \in Vis, StartFollow(g, vis)
       PROVE HeardInv(f)'
  BY <1>4 DEF TopicTypeOK, HeardInv, NotFollowing, Vis, StartFollow, Act, Hear
<1>5. ASSUME NEW g \in Feeds, NEW vis \in Vis, SetVisibility(g, vis)
       PROVE HeardInv(f)'
  BY <1>5 DEF TopicTypeOK, HeardInv, NotFollowing, Vis, SetVisibility, Act
<1>6. ASSUME NEW g \in Feeds, NEW vis \in Vis, Declare(g, vis)
       PROVE HeardInv(f)'
  BY <1>6 DEF TopicTypeOK, HeardInv, NotFollowing, Vis, Declare
<1>7. ASSUME NEW g \in Feeds, RecordFollow(g) PROVE HeardInv(f)'
  <2>1. PICK out \in PushedOut(g) :
           /\ followed' = (followed \cup {g}) \ out
           /\ public' = (IF following[g].vis = "public" THEN public \cup {g}
                                                       ELSE public \ {g}) \ out
           /\ stray' = stray \cup (out \cap heard)
           /\ rival' = rival \cup out
    BY <1>7 DEF RecordFollow
  <2>2. out \subseteq followed \ {g}
    BY OutWasFollowed
  <2> QED BY <1>7, <2>1, <2>2 DEF TopicTypeOK, HeardInv, Vis, RecordFollow
<1>8. ASSUME NEW g \in Feeds, EndFollow(g) PROVE HeardInv(f)'
  BY <1>8 DEF TopicTypeOK, HeardInv, NotFollowing, Vis, EndFollow
<1>9. ASSUME NEW g \in Feeds, AnnouncePublic(g) PROVE HeardInv(f)'
  BY <1>9 DEF TopicTypeOK, HeardInv, NotFollowing, Vis, AnnouncePublic
<1>10. ASSUME NEW g \in Feeds, StartUnfollow(g) PROVE HeardInv(f)'
  BY <1>10 DEF TopicTypeOK, HeardInv, NotFollowing, Vis, StartUnfollow, Act
<1>11. ASSUME NEW g \in Feeds, Unfollow(g) PROVE HeardInv(f)'
  BY <1>11 DEF TopicTypeOK, HeardInv, NotFollowing, Vis, Unfollow, Unhear
<1>12. ASSUME NEW g \in Feeds, EndUnfollow(g) PROVE HeardInv(f)'
  BY <1>12 DEF TopicTypeOK, HeardInv, NotFollowing, Vis, EndUnfollow
<1>13. ASSUME NEW g \in Feeds, StartAdd(g) PROVE HeardInv(f)'
  BY <1>13 DEF TopicTypeOK, HeardInv, NotFollowing, Vis, StartAdd, Act, Hear
<1>14. ASSUME NEW g \in Feeds, AddStores(g) PROVE HeardInv(f)'
  BY <1>14 DEF TopicTypeOK, HeardInv, NotFollowing, Vis, AddStores
<1>15. CASE RestartTopics
  BY <1>15 DEF TopicTypeOK, HeardInv, NotFollowing, Vis, RestartTopics, Act
<1> QED
  BY <1>1, <1>2, <1>3, <1>4, <1>5, <1>6, <1>7, <1>8, <1>9, <1>10, <1>11, <1>12,
     <1>13, <1>14, <1>15 DEF TopicNext

\* And to the users of its topic.
LEMMA ReasonStep ==
    ASSUME TopicTypeOK, NEW f \in Feeds, ReasonInv(f), MembersAreIndexed, TopicNext
    PROVE  ReasonInv(f)'
<1>1. ASSUME NEW g \in Feeds, StartPreview(g) PROVE ReasonInv(f)'
  BY <1>1 DEF TopicTypeOK, ReasonInv, NotFollowing, Vis, StartPreview, Act, Hear
<1>2. ASSUME NEW g \in Feeds, RecordPreview(g) PROVE ReasonInv(f)'
  BY <1>2 DEF TopicTypeOK, ReasonInv, NotFollowing, Vis, RecordPreview
<1>3. ASSUME NEW g \in Feeds, StopPreview(g) PROVE ReasonInv(f)'
  BY <1>3
  DEF TopicTypeOK, ReasonInv, NotFollowing, Vis, StopPreview, Unhear, Act
<1>4. ASSUME NEW g \in Feeds, NEW vis \in Vis, StartFollow(g, vis)
       PROVE ReasonInv(f)'
  BY <1>4 DEF TopicTypeOK, ReasonInv, NotFollowing, Vis, StartFollow, Act, Hear
<1>5. ASSUME NEW g \in Feeds, NEW vis \in Vis, SetVisibility(g, vis)
       PROVE ReasonInv(f)'
  BY <1>5 DEF TopicTypeOK, ReasonInv, NotFollowing, Vis, SetVisibility, Act
<1>6. ASSUME NEW g \in Feeds, NEW vis \in Vis, Declare(g, vis)
       PROVE ReasonInv(f)'
  BY <1>6 DEF TopicTypeOK, ReasonInv, NotFollowing, Vis, Declare
<1>7. ASSUME NEW g \in Feeds, RecordFollow(g) PROVE ReasonInv(f)'
  <2>1. PICK out \in PushedOut(g) :
           /\ followed' = (followed \cup {g}) \ out
           /\ public' = (IF following[g].vis = "public" THEN public \cup {g}
                                                       ELSE public \ {g}) \ out
           /\ stray' = stray \cup (out \cap heard)
           /\ rival' = rival \cup out
    BY <1>7 DEF RecordFollow
  <2>2. out \subseteq followed \ {g}
    BY OutWasFollowed
  <2> QED BY <1>7, <2>1, <2>2 DEF TopicTypeOK, ReasonInv, Vis, RecordFollow
<1>8. ASSUME NEW g \in Feeds, EndFollow(g) PROVE ReasonInv(f)'
  BY <1>8 DEF TopicTypeOK, ReasonInv, NotFollowing, Vis, EndFollow
<1>9. ASSUME NEW g \in Feeds, AnnouncePublic(g) PROVE ReasonInv(f)'
  BY <1>9 DEF TopicTypeOK, ReasonInv, NotFollowing, Vis, AnnouncePublic
<1>10. ASSUME NEW g \in Feeds, StartUnfollow(g) PROVE ReasonInv(f)'
  BY <1>10 DEF TopicTypeOK, ReasonInv, NotFollowing, Vis, StartUnfollow, Act
<1>11. ASSUME NEW g \in Feeds, Unfollow(g) PROVE ReasonInv(f)'
  BY <1>11 DEF TopicTypeOK, ReasonInv, NotFollowing, Vis, Unfollow, Unhear
<1>12. ASSUME NEW g \in Feeds, EndUnfollow(g) PROVE ReasonInv(f)'
  BY <1>12 DEF TopicTypeOK, ReasonInv, NotFollowing, Vis, EndUnfollow
<1>13. ASSUME NEW g \in Feeds, StartAdd(g) PROVE ReasonInv(f)'
  BY <1>13 DEF TopicTypeOK, ReasonInv, NotFollowing, Vis, StartAdd, Act, Hear
<1>14. ASSUME NEW g \in Feeds, AddStores(g) PROVE ReasonInv(f)'
  BY <1>14
  DEF TopicTypeOK, ReasonInv, NotFollowing, Vis, AddStores, MembersAreIndexed
<1>15. CASE RestartTopics
  BY <1>15 DEF TopicTypeOK, ReasonInv, NotFollowing, Vis, RestartTopics, Act
<1> QED
  BY <1>1, <1>2, <1>3, <1>4, <1>5, <1>6, <1>7, <1>8, <1>9, <1>10, <1>11, <1>12,
     <1>13, <1>14, <1>15 DEF TopicNext

\* And to what its owner was told.
LEMMA DeclaredStep ==
    ASSUME TopicTypeOK, NEW f \in Feeds, DeclaredInv(f), TopicNext
    PROVE  DeclaredInv(f)'
<1>1. ASSUME NEW g \in Feeds, StartPreview(g) PROVE DeclaredInv(f)'
  BY <1>1
  DEF TopicTypeOK, DeclaredInv, Changing, NotFollowing, Vis, StartPreview, Act, Hear
<1>2. ASSUME NEW g \in Feeds, RecordPreview(g) PROVE DeclaredInv(f)'
  BY <1>2
  DEF TopicTypeOK, DeclaredInv, Changing, NotFollowing, Vis, RecordPreview
<1>3. ASSUME NEW g \in Feeds, StopPreview(g) PROVE DeclaredInv(f)'
  BY <1>3
  DEF TopicTypeOK, DeclaredInv, Changing, NotFollowing, Vis, StopPreview, Unhear, Act
<1>4. ASSUME NEW g \in Feeds, NEW vis \in Vis, StartFollow(g, vis)
       PROVE DeclaredInv(f)'
  BY <1>4
  DEF TopicTypeOK, DeclaredInv, Changing, NotFollowing, Vis, StartFollow, Act, Hear
<1>5. ASSUME NEW g \in Feeds, NEW vis \in Vis, SetVisibility(g, vis)
       PROVE DeclaredInv(f)'
  BY <1>5, SMTT(30)
  DEF TopicTypeOK, DeclaredInv, Changing, NotFollowing, Vis, SetVisibility, Act
<1>6. ASSUME NEW g \in Feeds, NEW vis \in Vis, Declare(g, vis)
       PROVE DeclaredInv(f)'
  BY <1>6 DEF TopicTypeOK, DeclaredInv, Changing, NotFollowing, Vis, Declare
<1>7. ASSUME NEW g \in Feeds, RecordFollow(g) PROVE DeclaredInv(f)'
  <2>1. PICK out \in PushedOut(g) :
           /\ followed' = (followed \cup {g}) \ out
           /\ public' = (IF following[g].vis = "public" THEN public \cup {g}
                                                       ELSE public \ {g}) \ out
           /\ stray' = stray \cup (out \cap heard)
           /\ rival' = rival \cup out
    BY <1>7 DEF RecordFollow
  <2>2. out \subseteq followed \ {g}
    BY OutWasFollowed
  <2> QED BY <1>7, <2>1, <2>2 DEF TopicTypeOK, DeclaredInv, Changing, Vis, RecordFollow
<1>8. ASSUME NEW g \in Feeds, EndFollow(g) PROVE DeclaredInv(f)'
  BY <1>8 DEF TopicTypeOK, DeclaredInv, Changing, NotFollowing, Vis, EndFollow
<1>9. ASSUME NEW g \in Feeds, AnnouncePublic(g) PROVE DeclaredInv(f)'
  BY <1>9
  DEF TopicTypeOK, DeclaredInv, Changing, NotFollowing, Vis, AnnouncePublic
<1>10. ASSUME NEW g \in Feeds, StartUnfollow(g) PROVE DeclaredInv(f)'
  BY <1>10
  DEF TopicTypeOK, DeclaredInv, Changing, NotFollowing, Vis, StartUnfollow, Act
<1>11. ASSUME NEW g \in Feeds, Unfollow(g) PROVE DeclaredInv(f)'
  BY <1>11
  DEF TopicTypeOK, DeclaredInv, Changing, NotFollowing, Vis, Unfollow, Unhear
<1>12. ASSUME NEW g \in Feeds, EndUnfollow(g) PROVE DeclaredInv(f)'
  BY <1>12
  DEF TopicTypeOK, DeclaredInv, Changing, NotFollowing, Vis, EndUnfollow
<1>13. ASSUME NEW g \in Feeds, StartAdd(g) PROVE DeclaredInv(f)'
  BY <1>13
  DEF TopicTypeOK, DeclaredInv, Changing, NotFollowing, Vis, StartAdd, Act, Hear
<1>14. ASSUME NEW g \in Feeds, AddStores(g) PROVE DeclaredInv(f)'
  BY <1>14 DEF TopicTypeOK, DeclaredInv, Changing, NotFollowing, Vis, AddStores
<1>15. CASE RestartTopics
  BY <1>15
  DEF TopicTypeOK, DeclaredInv, Changing, NotFollowing, Vis, RestartTopics, Act
<1> QED
  BY <1>1, <1>2, <1>3, <1>4, <1>5, <1>6, <1>7, <1>8, <1>9, <1>10, <1>11, <1>12,
     <1>13, <1>14, <1>15 DEF TopicNext

\* Only an addition and a restart touch the collection and its index.
LEMMA MembersStep ==
    ASSUME MembersAreIndexed, TopicNext
    PROVE  MembersAreIndexed'
<1>1. ASSUME NEW g \in Feeds, AddStores(g) PROVE MembersAreIndexed'
  BY <1>1 DEF MembersAreIndexed, AddStores
<1>2. CASE RestartTopics
  BY <1>2 DEF MembersAreIndexed, RestartTopics
<1>3. CASE UNCHANGED <<members, index, clobbered>>
  BY <1>3 DEF MembersAreIndexed
<1> QED
  BY <1>1, <1>2, <1>3 DEF TopicNext, StartPreview, RecordPreview, StopPreview,
     StartFollow, SetVisibility, Declare, RecordFollow, EndFollow, AnnouncePublic,
     StartUnfollow, Unfollow, EndUnfollow, StartAdd

(* Every step of the topics keeps their invariant. *)
LEMMA NextTopic == TopicIInv /\ [TopicNext]_topicVars => TopicIInv'
<1> SUFFICES ASSUME TopicIInv, [TopicNext]_topicVars PROVE TopicIInv'
  OBVIOUS
<1>1. CASE TopicNext
  BY <1>1, TypeStep, HeardStep, ReasonStep, DeclaredStep, MembersStep DEF TopicIInv
<1>2. CASE UNCHANGED topicVars
  BY <1>2
  DEF topicVars, TopicIInv, TopicTypeOK, HeardInv, ReasonInv, DeclaredInv,
     Changing, MembersAreIndexed
<1> QED BY <1>1, <1>2

-----------------------------------------------------------------------------
(* What is proved of the topics *)

\* A feed that is followed is heard, whatever previews, collections and other
\* follows did to its topic, but for the interruption that `cut` records.
THEOREM FollowedFeedsAreHeard == TopicSpec => []FollowedIsHeard
<1>1. TopicIInv => FollowedIsHeard
  BY DEF TopicIInv, TopicTypeOK, HeardInv, FollowedIsHeard, Settling, Changing
<1> QED BY InitTopic, NextTopic, <1>1, PTL DEF TopicSpec

\* No topic stays subscribed that nobody in the node needs, but for those that an
\* overlap or the limit of followed feeds leaves so.
THEOREM TopicsHaveUsers == TopicSpec => []HeardForAReason
<1>1. TopicIInv => HeardForAReason
  BY DEF TopicIInv, TopicTypeOK, ReasonInv, HeardForAReason, Settling, Changing
<1> QED BY InitTopic, NextTopic, <1>1, PTL DEF TopicSpec

\* The owner of a feed was told what the record of the follower says, but for the
\* overlaps, the private follow of a public one and the eviction that `rival` names.
THEOREM OwnersKnow == TopicSpec => []DeclaredAsRecorded
<1>1. TopicIInv => DeclaredAsRecorded
  BY DEF TopicIInv, DeclaredInv, DeclaredAsRecorded
<1> QED BY InitTopic, NextTopic, <1>1, PTL DEF TopicSpec

\* Each member of the collection is in the index that passes posts on.
THEOREM MembersStayIndexed == TopicSpec => []MembersAreIndexed
<1>1. TopicIInv => MembersAreIndexed
  BY DEF TopicIInv
<1> QED BY InitTopic, NextTopic, <1>1, PTL DEF TopicSpec

-----------------------------------------------------------------------------
(* The connection to a server *)

Active(o) == stopping[o] # NoClient \/ (o \in Connects /\ Connecting(o))

\* As long as no call has overlapped a connect(), at most one call is under way
\* and the node's client is the one that call works with.
OneCall ==
    /\ \A o, p \in Owners : Active(o) /\ Active(p) => o = p
    /\ \A o \in Owners : stopping[o] \in {NoClient, client}
    /\ \A c \in Connects :
          /\ conn[c].pc \in {"clearing", "backing"} => stopping[c] # NoClient
          /\ conn[c].pc \notin {"clearing", "backing"} => stopping[c] = NoClient
          /\ conn[c].pc = "looking" => client = NoClient
          /\ conn[c].pc = "starting" =>
                /\ client = conn[c].mine /\ client # NoClient
                /\ link[client] \in {"starting", "open"}

\* No other client is alive, and what is shown follows it: before its first login a
\* connect() awaits it, or it is being stopped.
OneClient ==
    \A k \in Clients :
       /\ link[k] \in Live => k = client
       /\ link[k] = "starting" => Awaited(k) \/ BeingStopped(k)
       /\ link[k] \in {"open", "online"} /\ ~Awaited(k) /\ ~BeingStopped(k) =>
             status \in {"connected", "error"}
       /\ link[k] = "online" => ~Awaited(k)

\* What holds of the client, the status and the requests whatever overlaps.
ClientAndStatus ==
    /\ client # NoClient => link[client] \in Live
    /\ status = "connected" => \E k \in Clients : link[k] \in {"open", "online"}
    /\ \A q \in Queries : query[q] = "pending" => client # NoClient

BridgeIInv ==
    /\ BridgeTypeOK
    /\ ClientAndStatus
    /\ ~crossed => OneCall /\ OneClient

-----------------------------------------------------------------------------
(* The invariant of the server connection holds at the start. *)
LEMMA InitBridge == BridgeInit => BridgeIInv
<1> SUFFICES ASSUME BridgeInit PROVE BridgeIInv
  OBVIOUS
<1>1. BridgeTypeOK
  <2>1. Idling \in [pc : {"idle", "clearing", "looking", "starting", "backing", "done",
                          "failed"},
                    tried : 0..Services, mine : Clients \cup {NoClient}]
    BY BridgeAssumption DEF Idling
  <2>2. bridgeDrops \in 0..BridgeMaxDrops
    BY BridgeAssumption DEF BridgeInit
  <2> QED BY <2>1, <2>2 DEF BridgeInit, BridgeTypeOK, Live, Owners
<1>2. OneCall
  BY DEF BridgeInit, OneCall, Active, Connecting, Idling, Owners
<1>3. OneClient
  BY DEF BridgeInit, OneClient, Live
<1>4. ClientAndStatus
  BY DEF BridgeInit, ClientAndStatus
<1> QED BY <1>1, <1>2, <1>3, <1>4 DEF BridgeIInv

\* Every step keeps the types.
LEMMA BridgeTypeStep ==
    ASSUME BridgeTypeOK, BridgeNext
    PROVE  BridgeTypeOK'
<1>1. ASSUME NEW d \in Disconnects, UserDisconnects(d)
       PROVE  BridgeTypeOK'
  BY <1>1, BridgeAssumption
  DEF BridgeTypeOK, Live, Owners, UserDisconnects, Disconnecting, Busy
<1>2. ASSUME NEW d \in Disconnects, UserDisconnected(d)
       PROVE  BridgeTypeOK'
  BY <1>2, BridgeAssumption
  DEF BridgeTypeOK, Live, Owners, UserDisconnected, Stops, Rejected
<1>3. ASSUME NEW c \in Connects, ConnectServer(c)
       PROVE  BridgeTypeOK'
  BY <1>3, BridgeAssumption
  DEF BridgeTypeOK, Live, Owners, ConnectServer, Disconnecting, Busy
<1>4. ASSUME NEW c \in Connects, Cleared(c)
       PROVE  BridgeTypeOK'
  BY <1>4, BridgeAssumption
  DEF BridgeTypeOK, Live, Owners, Cleared, Stops, Rejected
<1>5. ASSUME NEW c \in Connects, NEW k \in Clients, TryService(c, k)
       PROVE  BridgeTypeOK'
  BY <1>5, BridgeAssumption
  DEF BridgeTypeOK, Live, Owners, TryService
<1>6. ASSUME NEW c \in Connects, GiveUp(c)
       PROVE  BridgeTypeOK'
  BY <1>6, BridgeAssumption
  DEF BridgeTypeOK, Live, Owners, GiveUp
<1>7. ASSUME NEW c \in Connects, FailsToStart(c)
       PROVE  BridgeTypeOK'
  BY <1>7, BridgeAssumption
  DEF BridgeTypeOK, Live, Owners, FailsToStart, Rejected
<1>8. ASSUME NEW k \in Clients, Opens(k)
       PROVE  BridgeTypeOK'
  BY <1>8, BridgeAssumption
  DEF BridgeTypeOK, Live, Owners, Opens
<1>9. ASSUME NEW k \in Clients, Reopens(k)
       PROVE  BridgeTypeOK'
  BY <1>9, BridgeAssumption
  DEF BridgeTypeOK, Live, Owners, Reopens
<1>10. ASSUME NEW k \in Clients, GoesOnline(k)
       PROVE  BridgeTypeOK'
  BY <1>10, BridgeAssumption
  DEF BridgeTypeOK, Live, Owners, GoesOnline
<1>11. ASSUME NEW k \in Clients, Drops(k)
       PROVE  BridgeTypeOK'
  BY <1>11, BridgeAssumption
  DEF BridgeTypeOK, Live, Owners, Drops, Rejected
<1>12. ASSUME NEW k \in Clients, Reconnecting(k)
       PROVE  BridgeTypeOK'
  BY <1>12, BridgeAssumption
  DEF BridgeTypeOK, Live, Owners, Reconnecting
<1>13. ASSUME NEW k \in Clients, Complains(k)
       PROVE  BridgeTypeOK'
  BY <1>13, BridgeAssumption
  DEF BridgeTypeOK, Live, Owners, Complains
<1>14. ASSUME NEW q \in Queries, SendQuery(q)
       PROVE  BridgeTypeOK'
  BY <1>14, BridgeAssumption
  DEF BridgeTypeOK, Live, Owners, SendQuery
<1>15. ASSUME NEW q \in Queries, SettleQuery(q)
       PROVE  BridgeTypeOK'
  BY <1>15, BridgeAssumption
  DEF BridgeTypeOK, Live, Owners, SettleQuery
<1> QED
  BY <1>1, <1>2, <1>3, <1>4, <1>5, <1>6, <1>7, <1>8, <1>9, <1>10, <1>11, <1>12,
     <1>13, <1>14, <1>15 DEF BridgeNext

\* One call at a time works with the node's client.
LEMMA CallStep ==
    ASSUME BridgeTypeOK, OneCall, OneClient, ~crossed, ~crossed', BridgeNext
    PROVE  OneCall'
<1>1. ASSUME NEW d \in Disconnects, UserDisconnects(d)
       PROVE  OneCall'
  <2>1. \A o \in Owners : ~Active(o)
    BY <1>1 DEF UserDisconnects, Busy, Active, Owners
  <2>2. \A o \in Owners : Active(o)' => o = d
    BY <1>1, <2>1, BridgeAssumption
    DEF BridgeTypeOK, Active, Connecting, Owners, UserDisconnects, Disconnecting
  <2> QED
    BY <1>1, <2>1, <2>2, BridgeAssumption
    DEF BridgeTypeOK, OneCall, Active, Connecting, Owners, UserDisconnects, Disconnecting
<1>2. ASSUME NEW d \in Disconnects, UserDisconnected(d)
       PROVE  OneCall'
  <2>1. d \in Owners /\ d \notin Connects /\ Active(d)
    BY <1>2, BridgeAssumption DEF Owners, Active, UserDisconnected
  <2>2. \A c \in Connects : stopping[c] = NoClient /\ ~Connecting(c)
    BY <2>1 DEF OneCall, Active, Owners
  <2>3. \A o \in Owners : o # d => stopping[o] = NoClient
    BY <2>1 DEF OneCall, Active
  <2>4. conn' = conn /\ \A o \in Owners : stopping'[o] = NoClient
    BY <1>2, <2>3 DEF BridgeTypeOK, UserDisconnected, Stops
  <2>5. \A c \in Connects : conn[c].pc \in {"idle", "done", "failed"}
    BY <2>2 DEF Connecting
  <2> QED
    BY <2>4, <2>5 DEF OneCall, Active, Connecting, Owners
<1>3. ASSUME NEW c \in Connects, ConnectServer(c)
       PROVE  OneCall'
  <2>1. \A o \in Owners : ~Active(o)
    BY <1>3 DEF ConnectServer, Busy, Active, Owners
  <2>2. \A o \in Owners : Active(o)' => o = c
    BY <1>3, <2>1, BridgeAssumption
    DEF BridgeTypeOK, Active, Connecting, Owners, ConnectServer, Disconnecting
  <2> QED
    BY <1>3, <2>1, <2>2, BridgeAssumption
    DEF BridgeTypeOK, OneCall, Active, Connecting, Owners, ConnectServer, Disconnecting
<1>4. ASSUME NEW c \in Connects, Cleared(c)
       PROVE  OneCall'
  BY <1>4, BridgeAssumption
  DEF BridgeTypeOK, OneCall, OneClient, Active, Connecting, Awaited, BeingStopped,
      Live, Owners, Cleared, Stops, Rejected
<1>5. ASSUME NEW c \in Connects, NEW k \in Clients, TryService(c, k)
       PROVE  OneCall'
  BY <1>5, BridgeAssumption
  DEF BridgeTypeOK, OneCall, OneClient, Active, Connecting, Awaited, BeingStopped,
      Live, Owners, TryService
<1>6. ASSUME NEW c \in Connects, GiveUp(c)
       PROVE  OneCall'
  BY <1>6, BridgeAssumption
  DEF BridgeTypeOK, OneCall, OneClient, Active, Connecting, Awaited, BeingStopped,
      Live, Owners, GiveUp
<1>7. ASSUME NEW c \in Connects, FailsToStart(c)
       PROVE  OneCall'
  BY <1>7, BridgeAssumption
  DEF BridgeTypeOK, OneCall, OneClient, Active, Connecting, Awaited, BeingStopped,
      Live, Owners, FailsToStart, Rejected
<1>8. ASSUME NEW k \in Clients, Opens(k)
       PROVE  OneCall'
  BY <1>8, BridgeAssumption
  DEF BridgeTypeOK, OneCall, OneClient, Active, Connecting, Awaited, BeingStopped,
      Live, Owners, Opens
<1>9. ASSUME NEW k \in Clients, Reopens(k)
       PROVE  OneCall'
  BY <1>9, BridgeAssumption
  DEF BridgeTypeOK, OneCall, OneClient, Active, Connecting, Awaited, BeingStopped,
      Live, Owners, Reopens
<1>10. ASSUME NEW k \in Clients, GoesOnline(k)
       PROVE  OneCall'
  BY <1>10, BridgeAssumption
  DEF BridgeTypeOK, OneCall, OneClient, Active, Connecting, Awaited, BeingStopped,
      Live, Owners, GoesOnline
<1>11. ASSUME NEW k \in Clients, Drops(k)
       PROVE  OneCall'
  BY <1>11, BridgeAssumption
  DEF BridgeTypeOK, OneCall, OneClient, Active, Connecting, Awaited, BeingStopped,
      Live, Owners, Drops, Rejected
<1>12. ASSUME NEW k \in Clients, Reconnecting(k)
       PROVE  OneCall'
  BY <1>12, BridgeAssumption
  DEF BridgeTypeOK, OneCall, OneClient, Active, Connecting, Awaited, BeingStopped,
      Live, Owners, Reconnecting
<1>13. ASSUME NEW k \in Clients, Complains(k)
       PROVE  OneCall'
  BY <1>13, BridgeAssumption
  DEF BridgeTypeOK, OneCall, OneClient, Active, Connecting, Awaited, BeingStopped,
      Live, Owners, Complains
<1>14. ASSUME NEW q \in Queries, SendQuery(q)
       PROVE  OneCall'
  BY <1>14, BridgeAssumption
  DEF BridgeTypeOK, OneCall, OneClient, Active, Connecting, Awaited, BeingStopped,
      Live, Owners, SendQuery
<1>15. ASSUME NEW q \in Queries, SettleQuery(q)
       PROVE  OneCall'
  BY <1>15, BridgeAssumption
  DEF BridgeTypeOK, OneCall, OneClient, Active, Connecting, Awaited, BeingStopped,
      Live, Owners, SettleQuery
<1> QED
  BY <1>1, <1>2, <1>3, <1>4, <1>5, <1>6, <1>7, <1>8, <1>9, <1>10, <1>11, <1>12,
     <1>13, <1>14, <1>15 DEF BridgeNext

\* And no other client is alive.
LEMMA ClientStep ==
    ASSUME BridgeTypeOK, OneCall, OneClient, ~crossed, ~crossed', BridgeNext
    PROVE  OneClient'
<1>1. ASSUME NEW d \in Disconnects, UserDisconnects(d)
       PROVE  OneClient'
  BY <1>1, BridgeAssumption
  DEF BridgeTypeOK, OneCall, OneClient, Active, Connecting, Awaited, BeingStopped,
      Live, Owners, UserDisconnects, Disconnecting, Busy
<1>2. ASSUME NEW d \in Disconnects, UserDisconnected(d)
       PROVE  OneClient'
  BY <1>2, BridgeAssumption
  DEF BridgeTypeOK, OneCall, OneClient, Active, Connecting, Awaited, BeingStopped,
      Live, Owners, UserDisconnected, Stops, Rejected
<1>3. ASSUME NEW c \in Connects, ConnectServer(c)
       PROVE  OneClient'
  BY <1>3, BridgeAssumption
  DEF BridgeTypeOK, OneCall, OneClient, Active, Connecting, Awaited, BeingStopped,
      Live, Owners, ConnectServer, Disconnecting, Busy
<1>4. ASSUME NEW c \in Connects, Cleared(c)
       PROVE  OneClient'
  BY <1>4, BridgeAssumption
  DEF BridgeTypeOK, OneCall, OneClient, Active, Connecting, Awaited, BeingStopped,
      Live, Owners, Cleared, Stops, Rejected
<1>5. ASSUME NEW c \in Connects, NEW k \in Clients, TryService(c, k)
       PROVE  OneClient'
  BY <1>5, BridgeAssumption
  DEF BridgeTypeOK, OneCall, OneClient, Active, Connecting, Awaited, BeingStopped,
      Live, Owners, TryService
<1>6. ASSUME NEW c \in Connects, GiveUp(c)
       PROVE  OneClient'
  BY <1>6, BridgeAssumption
  DEF BridgeTypeOK, OneCall, OneClient, Active, Connecting, Awaited, BeingStopped,
      Live, Owners, GiveUp
<1>7. ASSUME NEW c \in Connects, FailsToStart(c)
       PROVE  OneClient'
  BY <1>7, BridgeAssumption
  DEF BridgeTypeOK, OneCall, OneClient, Active, Connecting, Awaited, BeingStopped,
      Live, Owners, FailsToStart, Rejected
<1>8. ASSUME NEW k \in Clients, Opens(k)
       PROVE  OneClient'
  BY <1>8, BridgeAssumption
  DEF BridgeTypeOK, OneCall, OneClient, Active, Connecting, Awaited, BeingStopped,
      Live, Owners, Opens
<1>9. ASSUME NEW k \in Clients, Reopens(k)
       PROVE  OneClient'
  BY <1>9, BridgeAssumption
  DEF BridgeTypeOK, OneCall, OneClient, Active, Connecting, Awaited, BeingStopped,
      Live, Owners, Reopens
<1>10. ASSUME NEW k \in Clients, GoesOnline(k)
       PROVE  OneClient'
  BY <1>10, BridgeAssumption
  DEF BridgeTypeOK, OneCall, OneClient, Active, Connecting, Awaited, BeingStopped,
      Live, Owners, GoesOnline
<1>11. ASSUME NEW k \in Clients, Drops(k)
       PROVE  OneClient'
  BY <1>11, BridgeAssumption
  DEF BridgeTypeOK, OneCall, OneClient, Active, Connecting, Awaited, BeingStopped,
      Live, Owners, Drops, Rejected
<1>12. ASSUME NEW k \in Clients, Reconnecting(k)
       PROVE  OneClient'
  BY <1>12, BridgeAssumption
  DEF BridgeTypeOK, OneCall, OneClient, Active, Connecting, Awaited, BeingStopped,
      Live, Owners, Reconnecting
<1>13. ASSUME NEW k \in Clients, Complains(k)
       PROVE  OneClient'
  BY <1>13, BridgeAssumption
  DEF BridgeTypeOK, OneCall, OneClient, Active, Connecting, Awaited, BeingStopped,
      Live, Owners, Complains
<1>14. ASSUME NEW q \in Queries, SendQuery(q)
       PROVE  OneClient'
  BY <1>14, BridgeAssumption
  DEF BridgeTypeOK, OneCall, OneClient, Active, Connecting, Awaited, BeingStopped,
      Live, Owners, SendQuery
<1>15. ASSUME NEW q \in Queries, SettleQuery(q)
       PROVE  OneClient'
  BY <1>15, BridgeAssumption
  DEF BridgeTypeOK, OneCall, OneClient, Active, Connecting, Awaited, BeingStopped,
      Live, Owners, SettleQuery
<1> QED
  BY <1>1, <1>2, <1>3, <1>4, <1>5, <1>6, <1>7, <1>8, <1>9, <1>10, <1>11, <1>12,
     <1>13, <1>14, <1>15 DEF BridgeNext

\* What is shown, and what waits, has a client.
LEMMA StatusStep ==
    ASSUME BridgeTypeOK, ClientAndStatus, BridgeNext
    PROVE  ClientAndStatus'
<1>1. ASSUME NEW d \in Disconnects, UserDisconnects(d)
       PROVE  ClientAndStatus'
  BY <1>1, BridgeAssumption
  DEF BridgeTypeOK, ClientAndStatus, Live, Owners, UserDisconnects, Disconnecting,
      Busy
<1>2. ASSUME NEW d \in Disconnects, UserDisconnected(d)
       PROVE  ClientAndStatus'
  BY <1>2, BridgeAssumption
  DEF BridgeTypeOK, ClientAndStatus, Live, Owners, UserDisconnected, Stops, Rejected
<1>3. ASSUME NEW c \in Connects, ConnectServer(c)
       PROVE  ClientAndStatus'
  BY <1>3, BridgeAssumption
  DEF BridgeTypeOK, ClientAndStatus, Live, Owners, ConnectServer, Disconnecting,
      Busy
<1>4. ASSUME NEW c \in Connects, Cleared(c)
       PROVE  ClientAndStatus'
  BY <1>4, BridgeAssumption
  DEF BridgeTypeOK, ClientAndStatus, Live, Owners, Cleared, Stops, Rejected
<1>5. ASSUME NEW c \in Connects, NEW k \in Clients, TryService(c, k)
       PROVE  ClientAndStatus'
  BY <1>5, BridgeAssumption
  DEF BridgeTypeOK, ClientAndStatus, Live, Owners, TryService
<1>6. ASSUME NEW c \in Connects, GiveUp(c)
       PROVE  ClientAndStatus'
  BY <1>6, BridgeAssumption
  DEF BridgeTypeOK, ClientAndStatus, Live, Owners, GiveUp
<1>7. ASSUME NEW c \in Connects, FailsToStart(c)
       PROVE  ClientAndStatus'
  BY <1>7, BridgeAssumption
  DEF BridgeTypeOK, ClientAndStatus, Live, Owners, FailsToStart, Rejected
<1>8. ASSUME NEW k \in Clients, Opens(k)
       PROVE  ClientAndStatus'
  BY <1>8, BridgeAssumption
  DEF BridgeTypeOK, ClientAndStatus, Live, Owners, Opens
<1>9. ASSUME NEW k \in Clients, Reopens(k)
       PROVE  ClientAndStatus'
  BY <1>9, BridgeAssumption
  DEF BridgeTypeOK, ClientAndStatus, Live, Owners, Reopens
<1>10. ASSUME NEW k \in Clients, GoesOnline(k)
       PROVE  ClientAndStatus'
  BY <1>10, BridgeAssumption
  DEF BridgeTypeOK, ClientAndStatus, Live, Owners, GoesOnline
<1>11. ASSUME NEW k \in Clients, Drops(k)
       PROVE  ClientAndStatus'
  BY <1>11, BridgeAssumption
  DEF BridgeTypeOK, ClientAndStatus, Live, Owners, Drops, Rejected
<1>12. ASSUME NEW k \in Clients, Reconnecting(k)
       PROVE  ClientAndStatus'
  BY <1>12, BridgeAssumption
  DEF BridgeTypeOK, ClientAndStatus, Live, Owners, Reconnecting
<1>13. ASSUME NEW k \in Clients, Complains(k)
       PROVE  ClientAndStatus'
  BY <1>13, BridgeAssumption
  DEF BridgeTypeOK, ClientAndStatus, Live, Owners, Complains
<1>14. ASSUME NEW q \in Queries, SendQuery(q)
       PROVE  ClientAndStatus'
  BY <1>14, BridgeAssumption
  DEF BridgeTypeOK, ClientAndStatus, Live, Owners, SendQuery
<1>15. ASSUME NEW q \in Queries, SettleQuery(q)
       PROVE  ClientAndStatus'
  BY <1>15, BridgeAssumption
  DEF BridgeTypeOK, ClientAndStatus, Live, Owners, SettleQuery
<1> QED
  BY <1>1, <1>2, <1>3, <1>4, <1>5, <1>6, <1>7, <1>8, <1>9, <1>10, <1>11, <1>12,
     <1>13, <1>14, <1>15 DEF BridgeNext

\* Once calls have overlapped, that stays so.
LEMMA CrossedStays == BridgeNext /\ ~crossed' => ~crossed
BY DEF BridgeNext, UserDisconnects, UserDisconnected, ConnectServer, Cleared, TryService,
   GiveUp, FailsToStart, Opens, Reopens, GoesOnline, Drops, Reconnecting, Complains,
   SendQuery, SettleQuery

(* Every step of the server connection keeps its invariant. *)
LEMMA NextBridge == BridgeIInv /\ [BridgeNext]_bridgeVars => BridgeIInv'
<1> SUFFICES ASSUME BridgeIInv, [BridgeNext]_bridgeVars PROVE BridgeIInv'
  OBVIOUS
<1>1. CASE BridgeNext
  BY <1>1, BridgeTypeStep, CallStep, ClientStep, StatusStep, CrossedStays DEF BridgeIInv
<1>2. CASE UNCHANGED bridgeVars
  BY <1>2 DEF bridgeVars, BridgeIInv, BridgeTypeOK, OneCall, OneClient, Active, Awaited,
     BeingStopped, Connecting, ClientAndStatus
<1> QED BY <1>1, <1>2

\* The known client was not stopped, what is shown as connected has a stream, and no
\* request waits without a client, whatever overlaps; and until a call overlaps a
\* connect(), no other client is alive and the status is that client's.
THEOREM StatusIsTheClients == BridgeSpec => []OneClientAndItsStatus
<1>1. BridgeIInv => OneClientAndItsStatus
  BY DEF BridgeIInv, OneClient, ClientAndStatus, OneClientAndItsStatus
<1> QED BY InitBridge, NextBridge, <1>1, PTL DEF BridgeSpec

-----------------------------------------------------------------------------
(* Counting *)

\* e has the limit of entries of S above it.
Beyond(S, e) == Cardinality({x \in S : x > e}) >= ItemLimit

(* A part of a finite set is finite and not larger. *)
LEMMA CountSubset ==
    ASSUME NEW S, IsFiniteSet(S), NEW T, T \subseteq S
    PROVE  /\ IsFiniteSet(T) /\ Cardinality(T) \in Nat /\ Cardinality(S) \in Nat
           /\ Cardinality(T) <= Cardinality(S)
<1>1. T \in SUBSET S
  OBVIOUS
<1> QED BY <1>1, FS_Subset, FS_CardinalityType

\* Nothing in a set within the limit is beyond it.
LEMMA WithinLimit ==
    ASSUME NEW S, IsFiniteSet(S), S \subseteq Nat, Cardinality(S) <= ItemLimit, NEW h \in S
    PROVE  ~Beyond(S, h)
<1> DEFINE U == {x \in S : x > h}
           R == S \ {h}
<1>1. U \subseteq R
  <2>1. h \in Nat
    OBVIOUS
  <2>2. ~(h > h)
    BY <2>1
  <2> QED BY <2>2
<1>2. /\ IsFiniteSet(R) /\ Cardinality(R) = Cardinality(S) - 1
      /\ Cardinality(S) \in Nat /\ Cardinality(R) \in Nat
  <2>1. IsFiniteSet(R) /\ Cardinality(R) = IF h \in S THEN Cardinality(S) - 1 ELSE Cardinality(S)
    BY FS_RemoveElement
  <2>2. Cardinality(S) \in Nat /\ Cardinality(R) \in Nat
    BY <2>1, FS_CardinalityType
  <2> QED BY <2>1, <2>2
<1> HIDE DEF R
<1>3. Cardinality(U) <= Cardinality(R) /\ Cardinality(U) \in Nat
  BY <1>1, <1>2, CountSubset
<1>4. ItemLimit \in Nat
  BY RssAssumption
<1> QED BY <1>2, <1>3, <1>4 DEF Beyond

\* In a larger set as much is beyond the limit; and what is older than such an entry.
LEMMA BeyondMore ==
    ASSUME NEW S, NEW T, IsFiniteSet(T), S \subseteq T, T \subseteq Nat,
           NEW e \in Nat, NEW d \in Nat, d <= e, Beyond(S, e)
    PROVE  Beyond(T, d)
<1> DEFINE U == {x \in S : x > e}
           V == {x \in T : x > d}
<1>1. U \subseteq V
  <2>1. \A x \in S : x > e => x > d
    OBVIOUS
  <2> QED BY <2>1
<1>2. IsFiniteSet(V)
  <2>1. V \subseteq T
    OBVIOUS
  <2> QED BY <2>1, CountSubset
<1>3. Cardinality(U) <= Cardinality(V) /\ Cardinality(U) \in Nat /\ Cardinality(V) \in Nat
  <2> HIDE DEF U, V
  <2> QED BY <1>1, <1>2, CountSubset
<1>4. ItemLimit \in Nat
  BY RssAssumption
<1> QED BY <1>3, <1>4 DEF Beyond

\* The entries of S that are not beyond the limit, and how many they are.
Newest(S) == {x \in S : ~Beyond(S, x)}

\* Every set of numbers that is not empty has a smallest one.
LEMMA Smallest == ASSUME NEW S, S \subseteq Nat, S # {} PROVE \E m \in S : \A y \in S : m <= y
<1> DEFINE R == {ss \in Nat \X Nat : ss[1] < ss[2]}
<1>1. IsWellFoundedOn(R, Nat)
  BY NatLessThanWellFounded DEF OpToRel
<1> HIDE DEF R
<1>2. PICK x \in S : \A y \in S : ~(<<y, x>> \in R)
  BY <1>1, WFMin
<1>3. ASSUME NEW y \in S PROVE x <= y
  <2>1. ~(<<y, x>> \in R)
    BY <1>2
  <2>2. ~(y < x)
    BY <2>1 DEF R
  <2> QED BY <2>2
<1> QED BY <1>3

(* The newest entries are as many as the limit allows, or all there are. *)
LEMMA NewestMany ==
    ASSUME NEW S, IsFiniteSet(S), S \subseteq Nat
    PROVE  /\ IsFiniteSet(Newest(S)) /\ Cardinality(Newest(S)) \in Nat
           /\ Cardinality(S) \in Nat
           /\ Cardinality(Newest(S)) <= ItemLimit
           /\ Cardinality(S) >= ItemLimit => Cardinality(Newest(S)) = ItemLimit
<1> DEFINE Good(T) == /\ Cardinality(Newest(T)) <= ItemLimit
                      /\ Cardinality(T) >= ItemLimit => Cardinality(Newest(T)) = ItemLimit
           N == {n \in Nat : \A T \in SUBSET Nat :
                    (IsFiniteSet(T) /\ Cardinality(T) = n) => Good(T)}
<1>0. ItemLimit \in Nat
  BY RssAssumption
<1>1. ASSUME NEW T \in SUBSET Nat, IsFiniteSet(T), Cardinality(T) <= ItemLimit PROVE Good(T)
  <2>1. Newest(T) = T
    BY <1>1, WithinLimit DEF Newest
  <2>2. Cardinality(T) \in Nat
    BY <1>1, FS_CardinalityType
  <2> QED BY <1>0, <1>1, <2>1, <2>2
<1>2. 0 \in N
  BY <1>0, <1>1
<1>3. ASSUME NEW n \in Nat, n \in N PROVE n + 1 \in N
  <2> SUFFICES ASSUME NEW T \in SUBSET Nat, IsFiniteSet(T), Cardinality(T) = n + 1
               PROVE  Good(T)
    OBVIOUS
  <2>1. CASE n + 1 <= ItemLimit
    BY <1>1, <2>1
  <2>2. CASE n >= ItemLimit
    <3>1. T # {}
      BY FS_EmptySet
    <3>2. PICK m \in T : \A y \in T : m <= y
      BY <3>1, Smallest
    <3> DEFINE R == T \ {m}
    <3>3. IsFiniteSet(R) /\ Cardinality(R) = n /\ R \in SUBSET Nat
      <4>1. IsFiniteSet(R) /\ Cardinality(R) = IF m \in T THEN Cardinality(T) - 1 ELSE Cardinality(T)
        BY FS_RemoveElement
      <4> QED BY <4>1
    <3>4. Good(R)
      BY <1>3, <3>3
    <3>5. \A x \in T : x # m => {y \in T : y > x} = {y \in R : y > x}
      BY <3>2
    <3>6. {y \in T : y > m} = R
      <4>1. \A y \in R : y > m
        BY <3>2
      <4>2. \A y \in T : y > m => y \in R
        BY <3>2
      <4> QED BY <4>1, <4>2
    <3>7. Beyond(T, m)
      <4> HIDE DEF R
      <4> QED BY <2>2, <3>3, <3>6 DEF Beyond
    <3>8. Newest(T) = Newest(R)
      BY <3>5, <3>7 DEF Newest, Beyond
    <3>9. Cardinality(Newest(R)) = ItemLimit
      BY <2>2, <3>3, <3>4
    <3> QED BY <1>0, <3>8, <3>9
  <2> QED BY <1>0, <2>1, <2>2
<1>4. Nat \subseteq N
  <2> HIDE DEF N
  <2> QED BY <1>2, <1>3, SetOfNumbers
<1>5. Cardinality(S) \in Nat
  BY FS_CardinalityType
<1>6. Good(S)
  BY <1>4, <1>5
<1>7. IsFiniteSet(Newest(S)) /\ Cardinality(Newest(S)) \in Nat
  BY CountSubset DEF Newest
<1> QED BY <1>5, <1>6, <1>7

\* What is beyond the limit stays so when other such entries go.
LEMMA BeyondStays ==
    ASSUME NEW S, IsFiniteSet(S), S \subseteq Nat, NEW D, \A d \in D : Beyond(S, d),
           NEW e \in Nat, Beyond(S, e)
    PROVE  Beyond(S \ D, e)
<1> DEFINE U == {x \in S : x > e}
           V == {x \in S \ D : x > e}
<1>0. ItemLimit \in Nat
  BY RssAssumption
<1>1. IsFiniteSet(U) /\ U \subseteq Nat /\ Cardinality(U) >= ItemLimit
  <2>1. U \subseteq S
    OBVIOUS
  <2>2. IsFiniteSet(U)
    BY <2>1, CountSubset
  <2> QED BY <2>2 DEF Beyond
<1>2. ASSUME NEW x \in U PROVE {y \in U : y > x} = {y \in S : y > x}
  <2>1. \A y \in S : y > x => y > e
    BY <1>2
  <2> QED BY <2>1
<1>3. Newest(U) \subseteq V
  <2> SUFFICES ASSUME NEW x \in Newest(U) PROVE x \in V
    OBVIOUS
  <2>1. x \in U /\ ~Beyond(U, x)
    BY DEF Newest
  <2>2. ~Beyond(S, x)
    BY <1>2, <2>1 DEF Beyond
  <2> QED BY <2>1, <2>2
<1>4. IsFiniteSet(V)
  <2>1. V \subseteq S
    OBVIOUS
  <2> QED BY <2>1, CountSubset
<1> HIDE DEF U, V
<1>5. Cardinality(Newest(U)) = ItemLimit
  BY <1>1, NewestMany
<1>6. Cardinality(V) >= ItemLimit
  <2>1. Cardinality(Newest(U)) <= Cardinality(V) /\ Cardinality(V) \in Nat
    BY <1>3, <1>4, CountSubset
  <2> QED BY <1>0, <1>5, <2>1
<1> QED BY <1>6 DEF V, Beyond

-----------------------------------------------------------------------------
(* The feeds *)

\* A record is NoSource or has a status; it knows no document that is not there yet.
Records == {s \in Source : /\ s.status = "none" => s = NoSource
                           /\ s.etag <= version}

\* Where a call may be, by what it does, and what its copy and its entries are there.
Subscribes == {"subscribe", "subscribeShared"}
NoCopyYet(r) == r.pc \in {"read", "delete", "purge"} \/ (r.pc = "fetch" /\ r.op # "refresh")
CallShape(r) ==
    /\ r.pc = "read" => r.op \in {"refresh", "pause", "resume", "share", "unshare"}
    /\ r.pc = "look" => r.op \in Subscribes
    /\ r.pc \in {"fetch", "mark", "store", "evict"} => r.op \in Subscribes \cup {"refresh"}
    /\ r.pc \in {"list", "publish"} => r.op \in Subscribes \cup {"refresh", "share"}
    /\ r.pc = "save" => r.op \in Subscribes \cup {"refresh", "pause", "resume", "unshare"}
    /\ r.pc = "delete" => Removes(r.op)
    /\ r.pc = "purge" => r.op = "purge"
    /\ r.pc \in {"look", "mark"} => r.todo = EntriesOf(r.copy.etag)
    /\ r.pc = "store" => r.todo \subseteq EntriesOf(r.copy.etag)
    /\ (r.copy = NoSource) = NoCopyYet(r)
    /\ r.guarded => r.op = "refresh" /\ r.pc \in {"fetch", "mark", "list", "publish", "save"}

Pcs   == {"read", "fetch", "look", "mark", "store", "evict", "list", "publish", "save",
          "delete", "purge"}
Calls == {r \in [op : Ops, pc : Pcs, copy : Records, todo : SUBSET (1..version),
                 guarded : BOOLEAN] : CallShape(r)}

RssShape ==
    /\ version \in RssEntries
    /\ source \in Records
    /\ items \subseteq 1..version
    /\ rssCall \in [Slots -> {NoCall} \cup Calls]
    /\ torn \in BOOLEAN
    /\ rssActs \in 0..RssMaxActs /\ rssFails \in 0..RssMaxFails

\* An entry that a tag may stand for.
Kept(e) ==
    \/ e \in items \/ Beyond(items, e)
    \/ \E c \in Slots : rssCall[c].pc = "store" /\ e \in rssCall[c].todo
Covered(v) == \A e \in EntriesOf(v) : Kept(e)

\* Each tag, in the record or in a copy, stands for entries that were imported, and
\* what is about to be evicted is beyond the limit; until the feed is torn.
Tags ==
    ~torn =>
        /\ Covered(source.etag)
        /\ \A c \in Slots : rssCall[c].pc \notin {"look", "mark"} => Covered(rssCall[c].copy.etag)
        /\ \A c \in Slots : rssCall[c].pc = "evict" => \A e \in rssCall[c].todo : Beyond(items, e)
        /\ \A c \in UnderWay : Removes(rssCall[c].op) => UnderWay = {c}
        /\ \A c \in Slots : rssCall[c].pc = "purge" => source.etag = 0

RssIInv == RssShape /\ Tags

\* One more entry is remembered as shared: the record is of its kind, and has its tag.
LEMMA SharedOneMore ==
    ASSUME NEW s \in Source, NEW e \in RssEntries, NEW t, t = WithShared(s, e)
    PROVE  /\ t \in Source /\ t.status = s.status /\ t.etag = s.etag
<1> DEFINE p == s.shared
           all == Append(p, e)
           k == Len(p)
           from == IF k + 1 > ItemLimit THEN k + 1 - ItemLimit + 1 ELSE 1
           q == SubSeq(all, from, k + 1)
<1>0. ItemLimit \in Nat /\ ItemLimit >= 1
  BY RssAssumption
<1>1. p \in Seq(RssEntries) /\ k \in Nat
  BY DEF Source
<1>2. all \in Seq(RssEntries) /\ Len(all) = k + 1
  BY <1>1
<1>3. from \in 1..(k + 1)
  BY <1>0, <1>1
<1>4. t = [s EXCEPT !.shared = q]
  <2>1. t = [s EXCEPT !.shared = SubSeq(all, IF Len(all) > ItemLimit
                                             THEN Len(all) - ItemLimit + 1 ELSE 1, Len(all))]
    BY DEF WithShared
  <2>2. Len(all) = k + 1
    BY <1>2
  <2> HIDE DEF all, k
  <2>3. from = IF Len(all) > ItemLimit THEN Len(all) - ItemLimit + 1 ELSE 1
    BY <1>0, <1>1, <2>2
  <2> HIDE DEF from
  <2> QED BY <2>1, <2>2, <2>3
<1> HIDE DEF p, all, k
<1>5. q \in Seq(RssEntries)
  <2> HIDE DEF from
  <2> QED BY <1>1, <1>2, <1>3
<1> HIDE DEF q
<1> QED BY <1>4, <1>5 DEF Source

-----------------------------------------------------------------------------
(* One step of a call *)

(* A call that is not under way, and a source that does not exist. *)
LEMMA NoCallIs ==
    /\ NoCall.pc = "idle" /\ "idle" \notin Pcs /\ NoCall \notin Calls
    /\ NoCall.copy = NoSource /\ NoSource.etag = 0 /\ NoSource.status = "none"
BY DEF NoCall, NoSource, Pcs, Calls

(* What is in a version of the document. *)
LEMMA Documents ==
    /\ EntriesOf(0) = {}
    /\ \A v \in Nat : EntriesOf(v) \subseteq 1..v
    /\ MaxVersion \in Nat /\ Window \in Nat /\ Window >= 1 /\ ItemLimit \in Nat /\ ItemLimit >= 1
    /\ RssEntries \subseteq Nat
<1>1. /\ MaxVersion \in Nat /\ Window \in Nat /\ Window >= 1 /\ ItemLimit \in Nat /\ ItemLimit >= 1
  BY RssAssumption
<1>2. EntriesOf(0) = {} /\ \A v \in Nat : EntriesOf(v) \subseteq 1..v
  BY DEF EntriesOf
<1> QED BY <1>1, <1>2 DEF RssEntries

\* What is stored is a finite set of numbers.
LEMMA Stored ==
    ASSUME RssShape
    PROVE  /\ version \in Nat /\ version >= 1
           /\ IsFiniteSet(items) /\ items \subseteq Nat /\ Cardinality(items) \in Nat
           /\ source \in Source /\ source.etag \in 0..version
<1>1. version \in Nat /\ version >= 1 /\ items \subseteq 1..version
  BY RssAssumption DEF RssShape, RssEntries
<1>2. IsFiniteSet(1..version)
  BY <1>1, FS_Interval
<1>3. IsFiniteSet(items) /\ Cardinality(items) \in Nat
  BY <1>1, <1>2, CountSubset
<1>4. source \in Source /\ source.etag \in 0..version
  BY <1>1, Documents DEF RssShape, Records, Source
<1> QED BY <1>1, <1>3, <1>4

\* A call under way.
LEMMA CallUnderWay ==
    ASSUME RssShape, NEW c \in Slots, rssCall[c].pc # "idle"
    PROVE  /\ c \in UnderWay /\ rssCall[c] \in Calls /\ rssCall[c].pc \in Pcs
           /\ rssCall[c].op \in Ops /\ rssCall[c].copy \in Records
           /\ rssCall[c].copy \in Source /\ rssCall[c].copy.etag \in 0..version
           /\ rssCall[c].todo \subseteq 1..version /\ rssCall[c].guarded \in BOOLEAN
           /\ CallShape(rssCall[c])
<1>1. c \in UnderWay
  BY DEF UnderWay
<1>2. rssCall[c] \in Calls
  BY NoCallIs DEF RssShape
<1>3. version \in Nat
  BY Stored
<1>4. /\ rssCall[c] \in [op : Ops, pc : Pcs, copy : Records, todo : SUBSET (1..version),
                         guarded : BOOLEAN]
      /\ CallShape(rssCall[c])
  BY <1>2 DEF Calls
<1>5. rssCall[c].copy \in Records
  BY <1>4
<1>6. rssCall[c].copy \in Source /\ rssCall[c].copy.etag \in 0..version
  BY <1>3, <1>5, Documents DEF Records, Source
<1> QED BY <1>1, <1>2, <1>4, <1>5, <1>6

(* A call that has gone on is one. *)
LEMMA ACall ==
    ASSUME RssShape, NEW c \in Slots, rssCall[c].pc # "idle",
           NEW p \in Pcs, NEW s \in Records, NEW t \in SUBSET (1..version), NEW g \in BOOLEAN,
           NEW r2, r2 = [op |-> rssCall[c].op, pc |-> p, copy |-> s, todo |-> t, guarded |-> g],
           CallShape(r2)
    PROVE  r2 \in Calls
<1>1. rssCall[c].op \in Ops
  BY CallUnderWay
<1> QED BY <1>1 DEF Calls

\* What a call becomes when it goes on.
LEMMA MovesTo ==
    ASSUME RssShape, NEW c \in Slots, rssCall[c].pc # "idle",
           NEW p \in Pcs, NEW s \in Records, NEW t \in SUBSET (1..version), NEW g \in BOOLEAN,
           Moves(c, p, s, t, g),
           NEW r2, r2 = [op |-> rssCall[c].op, pc |-> p, copy |-> s, todo |-> t, guarded |-> g],
           CallShape(r2)
    PROVE  /\ r2 \in Calls /\ r2 # NoCall /\ rssCall' = [rssCall EXCEPT ![c] = r2]
           /\ r2.op = rssCall[c].op /\ r2.pc = p /\ r2.copy = s /\ r2.todo = t
           /\ r2.copy.etag \in Nat
<1>1. rssCall' = [rssCall EXCEPT ![c] = r2]
  BY DEF Moves
<1>2. rssCall[c].op \in Ops
  BY CallUnderWay
<1>3. r2 \in Calls
  BY <1>2 DEF Calls
<1>4. s.etag \in Nat
  BY Documents DEF Records, Source
<1> QED BY <1>1, <1>3, <1>4, NoCallIs

\* What a step does to the tags: no entry is lost but for others, and a tag is one
\* that was there or one whose entries are being stored.
LEMMA TagsStep ==
    ASSUME RssShape, Tags, NEW c \in Slots, rssCall[c].pc # "idle",
           NEW r2, r2.pc = "idle" \/ r2.op = rssCall[c].op, r2.pc = "idle" => r2.copy.etag = 0,
           rssCall' = [rssCall EXCEPT ![c] = r2], torn' = torn,
           source'.etag \in Nat, r2.copy.etag \in Nat,
           ~torn => /\ \A e \in Nat : Beyond(items, e) => Beyond(items', e)
                    /\ \A e \in items : e \in items' \/ Beyond(items', e)
                    /\ rssCall[c].pc = "store" => \A e \in rssCall[c].todo :
                          e \in items' \/ (r2.pc = "store" /\ e \in r2.todo)
                    /\ r2.pc = "evict" => \A e \in r2.todo : Beyond(items', e)
                    /\ r2.pc = "purge" => source'.etag = 0,
           \/ source'.etag \in {0, source.etag}
           \/ rssCall[c].pc \notin {"look", "mark"} /\ source'.etag = rssCall[c].copy.etag
           \/ r2.pc = "store" /\ EntriesOf(source'.etag) \subseteq r2.todo,
           \/ r2.pc \in {"look", "mark"} \/ r2.copy.etag \in {0, source.etag}
           \/ rssCall[c].pc \notin {"look", "mark"} /\ r2.copy.etag = rssCall[c].copy.etag
           \/ r2.pc = "store" /\ EntriesOf(r2.copy.etag) \subseteq r2.todo
    PROVE  Tags'
<1> SUFFICES ASSUME ~torn PROVE Tags'
  BY DEF Tags
<1>0. rssCall \in [Slots -> {NoCall} \cup Calls] /\ version \in Nat /\ items \subseteq Nat
  BY Stored DEF RssShape
<1>1. \A d \in Slots : rssCall'[d] = IF d = c THEN r2 ELSE rssCall[d]
  BY <1>0
<1>2. /\ Covered(source.etag)
      /\ \A d \in Slots : rssCall[d].pc \notin {"look", "mark"} => Covered(rssCall[d].copy.etag)
      /\ \A d \in Slots : rssCall[d].pc = "evict" => \A e \in rssCall[d].todo : Beyond(items, e)
      /\ \A d \in UnderWay : Removes(rssCall[d].op) => UnderWay = {d}
  BY DEF Tags
<1>3. ASSUME NEW e \in Nat, Kept(e) PROVE Kept(e)'
  <2>1. CASE e \in items \/ Beyond(items, e)
    BY <2>1, <1>3 DEF Kept
  <2>2. CASE \E d \in Slots : rssCall[d].pc = "store" /\ e \in rssCall[d].todo
    <3>1. PICK d \in Slots : rssCall[d].pc = "store" /\ e \in rssCall[d].todo
      BY <2>2
    <3>2. CASE d = c
      BY <1>1, <3>1, <3>2 DEF Kept
    <3>3. CASE d # c
      BY <1>1, <3>1, <3>3 DEF Kept
    <3> QED BY <3>2, <3>3
  <2> QED BY <1>3, <2>1, <2>2 DEF Kept
<1>4. ASSUME NEW v \in Nat, v = 0 \/ Covered(v) \/ (r2.pc = "store" /\ EntriesOf(v) \subseteq r2.todo)
      PROVE  Covered(v)'
  <2>0. EntriesOf(v) \subseteq Nat /\ EntriesOf(0) = {}
    <3>1. EntriesOf(v) \subseteq 1..v
      BY Documents
    <3> QED BY <3>1, Documents
  <2>1. CASE Covered(v)
    BY <1>3, <2>0, <2>1 DEF Covered
  <2>2. CASE r2.pc = "store" /\ EntriesOf(v) \subseteq r2.todo
    BY <1>1, <2>2 DEF Covered, Kept
  <2>3. CASE v = 0
    BY <2>0, <2>3 DEF Covered
  <2> QED BY <1>4, <2>1, <2>2, <2>3
<1>5. source.etag \in Nat /\ \A d \in Slots : rssCall[d].copy.etag \in Nat
  <2>1. source.etag \in Nat
    BY <1>0, Stored
  <2>2. ASSUME NEW d \in Slots PROVE rssCall[d].copy.etag \in Nat
    <3>1. CASE rssCall[d].pc = "idle"
      BY <1>0, <3>1, NoCallIs DEF Calls
    <3>2. CASE rssCall[d].pc # "idle"
      BY <1>0, <3>2, CallUnderWay
    <3> QED BY <3>1, <3>2
  <2> QED BY <2>1, <2>2
<1>6. \A d \in Slots : (d # c /\ rssCall[d].pc \notin {"look", "mark"}) => Covered(rssCall[d].copy.etag)'
  BY <1>2, <1>4, <1>5
<1>7. Covered(source.etag)'
  <2>1. PICK v \in Nat : v = source'.etag
    OBVIOUS
  <2>2. v = 0 \/ Covered(v) \/ (r2.pc = "store" /\ EntriesOf(v) \subseteq r2.todo)
    BY <1>2, <2>1
  <2>3. Covered(v)'
    BY <1>4, <2>2
  <2> QED BY <2>1, <2>3 DEF Covered
<1>8. r2.pc \notin {"look", "mark"} => Covered(r2.copy.etag)'
  <2> DEFINE v == r2.copy.etag
  <2> HAVE r2.pc \notin {"look", "mark"}
  <2>1. v = 0 \/ Covered(v) \/ (r2.pc = "store" /\ EntriesOf(v) \subseteq r2.todo)
    BY <1>2
  <2>2. v \in Nat
    OBVIOUS
  <2> HIDE DEF v
  <2> QED BY <1>4, <2>1, <2>2 DEF v
<1>9. \A d \in Slots : rssCall'[d].pc \notin {"look", "mark"} => Covered(rssCall[d].copy.etag)'
  <2> SUFFICES ASSUME NEW d \in Slots, rssCall'[d].pc \notin {"look", "mark"}
               PROVE  Covered(rssCall[d].copy.etag)'
    OBVIOUS
  <2>1. CASE d = c
    BY <1>1, <1>8, <2>1 DEF Covered
  <2>2. CASE d # c
    BY <1>1, <1>6, <2>2 DEF Covered
  <2> QED BY <2>1, <2>2
<1>10. \A d \in Slots : rssCall'[d].pc = "evict" => \A e \in rssCall'[d].todo : Beyond(items', e)
  <2> SUFFICES ASSUME NEW d \in Slots, rssCall'[d].pc = "evict", NEW e \in rssCall'[d].todo
               PROVE  Beyond(items', e)
    OBVIOUS
  <2>1. CASE d = c
    BY <1>1, <2>1
  <2>2. CASE d # c
    <3>1. rssCall[d].pc = "evict" /\ e \in rssCall[d].todo
      BY <1>1, <2>2
    <3>2. e \in Nat
      BY <1>0, <3>1, CallUnderWay
    <3> QED BY <1>2, <3>1, <3>2
  <2> QED BY <2>1, <2>2
<1>11. \A d \in UnderWay' : Removes(rssCall'[d].op) => UnderWay' = {d}
  <2> SUFFICES ASSUME NEW d \in UnderWay', Removes(rssCall'[d].op) PROVE UnderWay' = {d}
    OBVIOUS
  <2>1. UnderWay' \subseteq UnderWay /\ c \in UnderWay
    BY <1>1 DEF UnderWay
  <2>2. rssCall'[d].op = rssCall[d].op
    BY <1>1 DEF UnderWay
  <2>3. UnderWay = {d}
    BY <1>2, <2>1, <2>2
  <2> QED BY <2>1, <2>3
<1>12. \A d \in Slots : rssCall'[d].pc = "purge" => source'.etag = 0
  <2> SUFFICES ASSUME NEW d \in Slots, rssCall'[d].pc = "purge" PROVE source'.etag = 0
    OBVIOUS
  <2>1. CASE d = c
    BY <1>1, <2>1
  <2>2. CASE d # c
    <3>1. rssCall[d].pc = "purge" /\ rssCall[d].pc # "idle"
      BY <1>1, <2>2
    <3>2. d \in UnderWay /\ c \in UnderWay
      BY <3>1 DEF UnderWay
    <3>3. Removes(rssCall[d].op)
      BY <3>1, CallUnderWay DEF CallShape, Removes
    <3> QED BY <1>2, <2>2, <3>2, <3>3
  <2> QED BY <2>1, <2>2
<1> QED BY <1>7, <1>9, <1>10, <1>11, <1>12 DEF Tags, Covered

\* A step of one call keeps the invariant, if it does so for that call.
LEMMA FeedStep ==
    ASSUME RssIInv, NEW c \in Slots, rssCall[c].pc # "idle",
           NEW r2 \in {NoCall} \cup Calls, r2 = NoCall \/ r2.op = rssCall[c].op,
           rssCall' = [rssCall EXCEPT ![c] = r2], version' = version,
           source' \in Records, items' \subseteq 1..version,
           torn' \in BOOLEAN, torn => torn', rssActs' = rssActs, rssFails' \in 0..RssMaxFails,
           ~torn' =>
               /\ \A e \in Nat : Beyond(items, e) => Beyond(items', e)
               /\ \A e \in items : e \in items' \/ Beyond(items', e)
               /\ rssCall[c].pc = "store" => \A e \in rssCall[c].todo :
                     e \in items' \/ (r2.pc = "store" /\ e \in r2.todo)
               /\ r2.pc = "evict" => \A e \in r2.todo : Beyond(items', e)
               /\ r2.pc = "purge" => source'.etag = 0
               /\ \/ source'.etag \in {0, source.etag}
                  \/ rssCall[c].pc \notin {"look", "mark"} /\ source'.etag = rssCall[c].copy.etag
                  \/ r2.pc = "store" /\ EntriesOf(source'.etag) \subseteq r2.todo
               /\ \/ r2.pc \in {"look", "mark"} \/ r2.copy.etag \in {0, source.etag}
                  \/ rssCall[c].pc \notin {"look", "mark"} /\ r2.copy.etag = rssCall[c].copy.etag
                  \/ r2.pc = "store" /\ EntriesOf(r2.copy.etag) \subseteq r2.todo
    PROVE  RssIInv'
<1>0. RssShape /\ Tags
  BY DEF RssIInv
<1>1. RssShape'
  <2>1. Records' = Records
    BY DEF Records
  <2>2. Calls' = Calls
    BY <2>1 DEF Calls
  <2>3. rssCall' \in [Slots -> {NoCall} \cup Calls]
    BY <1>0 DEF RssShape
  <2> QED BY <1>0, <2>1, <2>2, <2>3 DEF RssShape
<1>2. r2.pc = "idle" \/ r2.op = rssCall[c].op
  BY NoCallIs
<1>3. r2.pc = "idle" => r2.copy.etag = 0
  BY NoCallIs DEF Calls
<1>4. source'.etag \in Nat /\ r2.copy.etag \in Nat
  <2>1. \A s \in Records : s.etag \in Nat
    BY Documents DEF Records, Source
  <2>2. r2 # NoCall => r2.copy \in Records
    BY DEF Calls
  <2> QED BY <2>1, <2>2, NoCallIs
<1>5. CASE torn'
  BY <1>1, <1>5 DEF RssIInv, Tags
<1>6. CASE ~torn'
  <2>1. torn' = torn
    BY <1>0, <1>6 DEF RssShape
  <2>2. Tags'
    BY <1>0, <1>2, <1>3, <1>4, <1>6, <2>1, TagsStep
  <2> QED BY <1>1, <2>2 DEF RssIInv
<1> QED BY <1>5, <1>6

\* A step that changes only its call.
LEMMA QuietStep ==
    ASSUME RssIInv, NEW c \in Slots, rssCall[c].pc # "idle",
           NEW r2 \in {NoCall} \cup Calls, r2 = NoCall \/ r2.op = rssCall[c].op,
           rssCall' = [rssCall EXCEPT ![c] = r2],
           UNCHANGED <<version, source, items, rssActs>>,
           torn' \in BOOLEAN, torn => torn', rssFails' \in 0..RssMaxFails,
           ~torn' => /\ rssCall[c].pc = "store" => rssCall[c].todo = {}
                     /\ r2.pc = "evict" => \A e \in r2.todo : Beyond(items, e)
                     /\ r2.pc # "purge"
                     /\ \/ r2.pc \in {"look", "mark"} \/ r2.copy.etag \in {0, source.etag}
                        \/ /\ rssCall[c].pc \notin {"look", "mark"}
                           /\ r2.copy.etag = rssCall[c].copy.etag
    PROVE  RssIInv'
<1>1. /\ version' = version /\ source' \in Records /\ items' \subseteq 1..version
      /\ rssActs' = rssActs
  BY DEF RssIInv, RssShape
<1>2. items' = items /\ source'.etag = source.etag
  OBVIOUS
<1> QED BY <1>1, <1>2, FeedStep

\* A call ends, or rejects outside the try.
LEMMA EndsKeeps ==
    ASSUME RssIInv, NEW c \in Slots, rssCall[c].pc # "idle", Ends(c),
           UNCHANGED <<version, source, items, rssActs>>,
           torn' \in BOOLEAN, torn => torn', rssFails' \in 0..RssMaxFails,
           ~torn' => (rssCall[c].pc = "store" => rssCall[c].todo = {})
    PROVE  RssIInv'
<1>1. NoCall.copy.etag = 0 /\ NoCall.pc \notin {"evict", "purge"}
  BY NoCallIs
<1> QED BY <1>1, QuietStep DEF Ends

\* A record that exists is a source with a status and the tag of some version; and so
\* is one with some of its fields changed.
LEMMA ARecord ==
    ASSUME RssShape, NEW t \in Source, t.status # "none", t.etag <= version
    PROVE  t \in Records /\ t # NoSource
BY DEF Records, NoSource

(* What is known of a record that exists. *)
LEMMA TheRecord ==
    ASSUME RssShape, NEW s \in Records, s # NoSource
    PROVE  /\ s \in Source /\ s.status \in {"active", "paused", "error"}
           /\ s.etag \in Nat /\ s.etag <= version
<1>1. s \in Source /\ s.status # "none" /\ s.etag <= version
  BY DEF Records
<1> QED BY <1>1, Documents DEF Source

\* A call goes on with another copy, and nothing else changes.
LEMMA GoesKeeps ==
    ASSUME RssIInv, NEW c \in Slots, rssCall[c].pc \notin {"idle", "store"},
           NEW p \in Pcs \ {"evict", "purge"}, NEW s \in Records, NEW t \in SUBSET (1..version),
           NEW g \in BOOLEAN, Moves(c, p, s, t, g),
           NEW r2, r2 = [op |-> rssCall[c].op, pc |-> p, copy |-> s, todo |-> t, guarded |-> g],
           CallShape(r2),
           UNCHANGED <<version, source, items, rssActs>>,
           torn' \in BOOLEAN, torn => torn', rssFails' \in 0..RssMaxFails,
           ~torn' => \/ p \in {"look", "mark"} \/ s.etag = source.etag
                     \/ rssCall[c].pc \notin {"look", "mark"} /\ s.etag = rssCall[c].copy.etag
    PROVE  RssIInv'
<1>1. /\ r2 \in Calls /\ r2 # NoCall /\ rssCall' = [rssCall EXCEPT ![c] = r2]
      /\ r2.op = rssCall[c].op /\ r2.pc = p /\ r2.copy = s
  BY MovesTo DEF RssIInv
<1> QED BY <1>1, QuietStep

-----------------------------------------------------------------------------
(* The steps, one after the other *)

(* A call copies the record. *)
LEMMA ReadKeeps == ASSUME RssIInv, NEW c \in Slots, ReadSource(c) PROVE RssIInv'
<1>0. /\ RssShape /\ version \in Nat /\ source \in Records /\ rssFails \in 0..RssMaxFails
      /\ torn \in BOOLEAN
  BY Stored DEF RssIInv, RssShape
<1>1. /\ rssCall[c].pc = "read" /\ UNCHANGED <<version, source, items, torn, rssActs, rssFails>>
      /\ rssCall[c].guarded = FALSE
  <2>1. rssCall[c].pc = "read" /\ UNCHANGED <<version, source, items, torn, rssActs, rssFails>>
    BY DEF ReadSource
  <2>2. CallShape(rssCall[c]) /\ rssCall[c].guarded \in BOOLEAN
    BY <1>0, <2>1, CallUnderWay
  <2> QED BY <2>1, <2>2 DEF CallShape
<1>3. CASE Ends(c)
  BY <1>0, <1>1, <1>3, EndsKeeps
<1>4. ASSUME source # NoSource, NEW p \in {"save", "list", "fetch"}, NEW s \in Source,
             NEW g \in BOOLEAN, Moves(c, p, s, {}, g), s.status # "none", s.etag = source.etag,
             p = "save" => rssCall[c].op \in {"pause", "resume", "unshare"},
             p = "list" => rssCall[c].op = "share",
             p = "fetch" => rssCall[c].op = "refresh", g => p = "fetch"
      PROVE  RssIInv'
  <2>1. s \in Records /\ s # NoSource
    BY <1>0, <1>4, TheRecord, ARecord
  <2>2. PICK t \in SUBSET (1..version) : t = {}
    OBVIOUS
  <2>3. PICK r2 : r2 = [op |-> rssCall[c].op, pc |-> p, copy |-> s, todo |-> t, guarded |-> g]
    OBVIOUS
  <2>4. CallShape(r2)
    <3>1. r2.op = rssCall[c].op /\ r2.pc = p /\ r2.copy = s /\ r2.guarded = g
      BY <2>3
    <3> QED BY <1>4, <2>1, <3>1 DEF CallShape, NoCopyYet, Subscribes
  <2>5. p \in Pcs \ {"evict", "purge"}
    BY <1>4 DEF Pcs
  <2> QED BY <1>0, <1>1, <1>4, <2>1, <2>2, <2>3, <2>4, <2>5, GoesKeeps
<1>5. CASE source # NoSource /\ ~Ends(c)
  <2>0. source \in Source /\ source.status \in {"active", "paused", "error"}
    BY <1>0, <1>5, TheRecord
  <2>1. CASE rssCall[c].op = "pause" /\ Goes(c, "save", [source EXCEPT !.status = "paused"], {})
    <3> DEFINE s == [source EXCEPT !.status = "paused"]
    <3>1. s \in Source /\ s.status = "paused" /\ s.etag = source.etag
      BY <2>0 DEF Source
    <3>2. Moves(c, "save", s, {}, FALSE)
      BY <1>1, <2>1 DEF Goes
    <3> HIDE DEF s
    <3> QED BY <1>4, <1>5, <2>1, <3>1, <3>2
  <2>2. CASE rssCall[c].op = "resume" /\ Goes(c, "save", [source EXCEPT !.status = "active"], {})
    <3> DEFINE s == [source EXCEPT !.status = "active"]
    <3>1. s \in Source /\ s.status = "active" /\ s.etag = source.etag
      BY <2>0 DEF Source
    <3>2. Moves(c, "save", s, {}, FALSE)
      BY <1>1, <2>2 DEF Goes
    <3> HIDE DEF s
    <3> QED BY <1>4, <1>5, <2>2, <3>1, <3>2
  <2>3. CASE rssCall[c].op = "share" /\ Goes(c, "list", [source EXCEPT !.share = TRUE], {})
    <3> DEFINE s == [source EXCEPT !.share = TRUE]
    <3>1. s \in Source /\ s.status = source.status /\ s.etag = source.etag
      BY <2>0 DEF Source
    <3>2. Moves(c, "list", s, {}, FALSE)
      BY <1>1, <2>3 DEF Goes
    <3> HIDE DEF s
    <3> QED BY <1>4, <1>5, <2>0, <2>3, <3>1, <3>2
  <2>4. CASE rssCall[c].op = "unshare"
             /\ Goes(c, "save", [source EXCEPT !.share = FALSE, !.shareError = FALSE], {})
    <3> DEFINE s == [source EXCEPT !.share = FALSE, !.shareError = FALSE]
    <3>1. s \in Source /\ s.status = source.status /\ s.etag = source.etag
      BY <2>0 DEF Source
    <3>2. Moves(c, "save", s, {}, FALSE)
      BY <1>1, <2>4 DEF Goes
    <3> HIDE DEF s
    <3> QED BY <1>4, <1>5, <2>0, <2>4, <3>1, <3>2
  <2>5. CASE rssCall[c].op = "refresh" /\ Moves(c, "fetch", source, {}, TRUE)
    BY <1>4, <1>5, <2>0, <2>5
  <2> QED BY <1>5, <2>1, <2>2, <2>3, <2>4, <2>5 DEF ReadSource
<1> QED BY <1>3, <1>5 DEF ReadSource

\* The document came, the same as before or a new one.
LEMMA RefreshKeeps == ASSUME RssIInv, NEW c \in Slots, Refreshes(c) PROVE RssIInv'
<1> DEFINE r == rssCall[c]
           now == [r.copy EXCEPT !.status = "active", !.etag = version]
<1>0. /\ RssShape /\ version \in Nat /\ version \in 0..MaxVersion /\ rssFails \in 0..RssMaxFails
      /\ torn \in BOOLEAN
  BY Stored DEF RssIInv, RssShape, RssEntries
<1>1. /\ r.pc = "fetch" /\ r.op = "refresh"
      /\ UNCHANGED <<version, source, items, torn, rssActs, rssFails>>
  BY DEF Refreshes
<1>2. r.copy \in Source /\ r.copy # NoSource /\ r.guarded \in BOOLEAN
  <2>1. CallShape(r) /\ r.copy \in Source /\ r.guarded \in BOOLEAN
    BY <1>0, <1>1, CallUnderWay
  <2> QED BY <1>1, <2>1 DEF CallShape, NoCopyYet
<1>3. now \in Source /\ now.status = "active" /\ now.etag = version
  <2> HIDE DEF r
  <2> QED BY <1>0, <1>2 DEF Source
<1>4. now \in Records /\ now # NoSource
  <2> HIDE DEF now
  <2> QED BY <1>0, <1>3, ARecord
<1>5. ASSUME NEW p \in {"list", "save", "mark"}, NEW t \in SUBSET (1..version),
             Goes(c, p, now, t), p = "mark" => t = EntriesOf(version),
             p # "mark" => r.copy.etag = version
      PROVE  RssIInv'
  <2> HIDE DEF now
  <2>1. Moves(c, p, now, t, r.guarded)
    BY <1>5 DEF Goes
  <2>2. PICK r2 : r2 = [op |-> rssCall[c].op, pc |-> p, copy |-> now, todo |-> t,
                        guarded |-> r.guarded]
    OBVIOUS
  <2>3. CallShape(r2)
    <3>1. r2.op = "refresh" /\ r2.pc = p /\ r2.copy = now /\ r2.todo = t /\ r2.guarded = r.guarded
      BY <1>1, <2>2
    <3> HIDE DEF r
    <3> QED BY <1>3, <1>4, <1>5, <3>1 DEF CallShape, NoCopyYet
  <2>4. p \in Pcs \ {"evict", "purge"}
    BY <1>5 DEF Pcs
  <2> QED BY <1>0, <1>1, <1>2, <1>3, <1>4, <1>5, <2>1, <2>2, <2>3, <2>4, GoesKeeps
<1>6. CASE r.copy.etag = version
  <2>1. PICK p \in {"list", "save"} : Goes(c, p, now, {})
    <3> HIDE DEF r
    <3> QED BY <1>6 DEF Refreshes, r
  <2> QED BY <1>5, <1>6, <2>1
<1>7. CASE r.copy.etag # version
  <2>1. Goes(c, "mark", now, EntriesOf(version))
    BY <1>7 DEF Refreshes
  <2>2. EntriesOf(version) \in SUBSET (1..version)
    BY <1>0, Documents
  <2> HIDE DEF now
  <2> QED BY <1>5, <2>1, <2>2
<1> QED BY <1>6, <1>7

\* The document of a new source came.
LEMMA FetchedKeeps == ASSUME RssIInv, NEW c \in Slots, Fetched(c) PROVE RssIInv'
<1> DEFINE r == rssCall[c]
           new == [NoSource EXCEPT !.status = "active", !.etag = version,
                                   !.share = (r.op = "subscribeShared")]
<1>0. /\ RssShape /\ version \in Nat /\ version \in 0..MaxVersion /\ rssFails \in 0..RssMaxFails
      /\ torn \in BOOLEAN
  BY Stored DEF RssIInv, RssShape, RssEntries
<1>1. /\ r.pc = "fetch" /\ r.op # "refresh" /\ Goes(c, "look", new, EntriesOf(version))
      /\ UNCHANGED <<version, source, items, torn, rssActs, rssFails>>
  BY DEF Fetched
<1>2. r.op \in Subscribes /\ r.guarded = FALSE
  <2>1. CallShape(r) /\ r.guarded \in BOOLEAN
    BY <1>0, <1>1, CallUnderWay
  <2> QED BY <1>1, <2>1 DEF CallShape
<1>3. new \in Source /\ new.status = "active" /\ new.etag = version
  <2>1. NoSource \in Source
    BY Documents DEF NoSource, Source
  <2> HIDE DEF r
  <2> QED BY <1>0, <2>1 DEF Source
<1> HIDE DEF new
<1>4. new \in Records /\ new # NoSource
  BY <1>0, <1>3, ARecord
<1>5. Moves(c, "look", new, EntriesOf(version), FALSE)
  BY <1>1, <1>2 DEF Goes
<1>6. PICK r2 : r2 = [op |-> rssCall[c].op, pc |-> "look", copy |-> new,
                      todo |-> EntriesOf(version), guarded |-> FALSE]
  OBVIOUS
<1>7. CallShape(r2)
  <2>1. r2.op = r.op /\ r2.pc = "look" /\ r2.copy = new /\ r2.todo = EntriesOf(version)
        /\ r2.guarded = FALSE
    BY <1>6
  <2> HIDE DEF r
  <2> QED BY <1>2, <1>3, <1>4, <2>1 DEF CallShape, NoCopyYet
<1>8. EntriesOf(version) \in SUBSET (1..version) /\ "look" \in Pcs \ {"evict", "purge"}
  BY <1>0, Documents DEF Pcs
<1> QED BY <1>0, <1>1, <1>4, <1>5, <1>6, <1>7, <1>8, GoesKeeps

(* A source that is there already is kept. *)
LEMMA LooksKeeps == ASSUME RssIInv, NEW c \in Slots, LooksForSource(c) PROVE RssIInv'
<1> DEFINE r == rssCall[c]
           shared == [source EXCEPT !.share = TRUE]
<1>0. /\ RssShape /\ version \in Nat /\ source \in Records /\ rssFails \in 0..RssMaxFails
      /\ torn \in BOOLEAN
  BY Stored DEF RssIInv, RssShape
<1>1. /\ r.pc = "look" /\ UNCHANGED <<version, source, items, torn, rssActs, rssFails>>
  BY DEF LooksForSource
<1>2. /\ r.op \in Subscribes /\ r.copy \in Records /\ r.copy # NoSource
      /\ r.todo = EntriesOf(r.copy.etag) /\ r.todo \in SUBSET (1..version) /\ r.guarded = FALSE
  <2>1. /\ CallShape(r) /\ r.copy \in Records /\ r.todo \subseteq 1..version
        /\ r.guarded \in BOOLEAN
    BY <1>0, <1>1, CallUnderWay
  <2> QED BY <1>1, <2>1 DEF CallShape, NoCopyYet
<1>3. CASE Goes(c, "mark", r.copy, r.todo)
  <2>1. Moves(c, "mark", r.copy, r.todo, FALSE)
    BY <1>2, <1>3 DEF Goes
  <2>2. PICK r2 : r2 = [op |-> rssCall[c].op, pc |-> "mark", copy |-> r.copy, todo |-> r.todo,
                        guarded |-> FALSE]
    OBVIOUS
  <2>3. CallShape(r2)
    <3>1. r2.op = r.op /\ r2.pc = "mark" /\ r2.copy = r.copy /\ r2.todo = r.todo
          /\ r2.guarded = FALSE
      BY <2>2
    <3> HIDE DEF r
    <3> QED BY <1>2, <3>1 DEF CallShape, NoCopyYet
  <2>4. "mark" \in Pcs \ {"evict", "purge"}
    BY DEF Pcs
  <2> QED BY <1>0, <1>1, <1>2, <2>1, <2>2, <2>3, <2>4, GoesKeeps
<1>4. CASE source # NoSource /\ Goes(c, "list", shared, {})
  <2>0. source \in Source /\ source.status \in {"active", "paused", "error"} /\ source.etag <= version
    BY <1>0, <1>4, TheRecord
  <2>1. shared \in Source /\ shared.status = source.status /\ shared.etag = source.etag
    BY <2>0 DEF Source
  <2> HIDE DEF shared
  <2>2. shared \in Records /\ shared # NoSource
    BY <1>0, <2>0, <2>1, ARecord
  <2>3. PICK t \in SUBSET (1..version) : t = {}
    OBVIOUS
  <2>4. Moves(c, "list", shared, t, FALSE)
    BY <1>2, <1>4, <2>3 DEF Goes
  <2>5. PICK r2 : r2 = [op |-> rssCall[c].op, pc |-> "list", copy |-> shared, todo |-> t,
                        guarded |-> FALSE]
    OBVIOUS
  <2>6. CallShape(r2)
    <3>1. r2.op = r.op /\ r2.pc = "list" /\ r2.copy = shared /\ r2.guarded = FALSE
      BY <2>5
    <3> HIDE DEF r
    <3> QED BY <1>2, <2>2, <3>1 DEF CallShape, NoCopyYet
  <2>7. "list" \in Pcs \ {"evict", "purge"}
    BY DEF Pcs
  <2> QED BY <1>0, <1>1, <2>1, <2>2, <2>4, <2>5, <2>6, <2>7, GoesKeeps
<1>5. CASE Ends(c)
  BY <1>0, <1>1, <1>5, EndsKeeps
<1> QED BY <1>3, <1>4, <1>5 DEF LooksForSource

(* The record is stored, with its tag, before the entries are. *)
LEMMA MarkKeeps == ASSUME RssIInv, NEW c \in Slots, MarkSource(c) PROVE RssIInv'
<1> DEFINE r == rssCall[c]
<1>0. /\ RssShape /\ version \in Nat /\ items \subseteq Nat
      /\ torn \in BOOLEAN /\ rssFails \in 0..RssMaxFails /\ items \subseteq 1..version
  BY Stored DEF RssIInv, RssShape
<1>1. /\ r.pc = "mark" /\ r.pc # "idle" /\ source' = r.copy
      /\ Moves(c, "store", r.copy, r.todo, FALSE)
      /\ UNCHANGED <<version, items, torn, rssActs, rssFails>>
  BY <1>0 DEF MarkSource
<1>2. /\ r.op \in Subscribes \cup {"refresh"} /\ r.copy \in Records /\ r.copy # NoSource
      /\ r.todo = EntriesOf(r.copy.etag) /\ r.todo \in SUBSET (1..version)
  <2>1. CallShape(r) /\ r.copy \in Records /\ r.todo \subseteq 1..version
    BY <1>0, <1>1, CallUnderWay
  <2> QED BY <1>1, <2>1 DEF CallShape, NoCopyYet
<1>3. PICK r2 : r2 = [op |-> rssCall[c].op, pc |-> "store", copy |-> r.copy, todo |-> r.todo,
                      guarded |-> FALSE]
  OBVIOUS
<1>4. CallShape(r2)
  <2>1. r2.op = r.op /\ r2.pc = "store" /\ r2.copy = r.copy /\ r2.todo = r.todo
        /\ r2.guarded = FALSE
    BY <1>3
  <2> HIDE DEF r
  <2> QED BY <1>2, <2>1 DEF CallShape, NoCopyYet
<1>5. /\ r2 \in Calls /\ rssCall' = [rssCall EXCEPT ![c] = r2] /\ r2.op = rssCall[c].op
      /\ r2.pc = "store" /\ r2.copy = r.copy /\ r2.todo = r.todo
  <2>1. r2 \in Calls
    BY <1>0, <1>1, <1>2, <1>3, <1>4, ACall DEF Pcs
  <2>2. rssCall' = [rssCall EXCEPT ![c] = r2]
    BY <1>1, <1>3 DEF Moves
  <2> QED BY <1>3, <2>1, <2>2
<1>6. /\ \A e \in Nat : Beyond(items, e) => Beyond(items', e)
      /\ \A e \in items : e \in items' \/ Beyond(items', e)
      /\ r.pc # "store" /\ r2.pc \notin {"evict", "purge"}
      /\ EntriesOf(source'.etag) \subseteq r2.todo /\ EntriesOf(r2.copy.etag) \subseteq r2.todo
  BY <1>1, <1>2, <1>5
<1>7. source' \in Records /\ items' \subseteq 1..version
  BY <1>0, <1>1, <1>2
<1> QED BY <1>0, <1>1, <1>5, <1>6, <1>7, FeedStep

\* With one more entry as much is beyond the limit.
LEMMA MoreStored ==
    ASSUME RssShape, NEW e \in Nat, items' = items \cup {e}, NEW x \in Nat, Beyond(items, x)
    PROVE  Beyond(items', x)
<1>1. PICK T : T = items'
  OBVIOUS
<1>2. IsFiniteSet(T) /\ T \subseteq Nat /\ items \subseteq T
  <2>1. IsFiniteSet(items \cup {e}) /\ items \subseteq Nat
    BY Stored, FS_AddElement
  <2> QED BY <1>1, <2>1
<1>3. x <= x
  OBVIOUS
<1>4. Beyond(T, x)
  BY <1>2, <1>3, BeyondMore
<1> QED BY <1>1, <1>4

(* An entry of the document is stored. *)
LEMMA PutEntryKeeps == ASSUME RssIInv, NEW c \in Slots, NEW e \in RssEntries, PutEntry(c, e)
                  PROVE  RssIInv'
<1> DEFINE r == rssCall[c]
<1>0. /\ RssShape /\ version \in Nat /\ items \subseteq 1..version
      /\ torn \in BOOLEAN /\ rssFails \in 0..RssMaxFails /\ source \in Records /\ e \in Nat
  BY Stored, Documents DEF RssIInv, RssShape
<1>1. /\ r.pc = "store" /\ r.pc # "idle" /\ e \in r.todo /\ items' = items \cup {e}
      /\ Goes(c, "store", r.copy, r.todo \ {e})
      /\ UNCHANGED <<version, source, torn, rssActs, rssFails>>
  BY DEF PutEntry
<1>2. /\ r.op \in Subscribes \cup {"refresh"} /\ r.copy \in Records /\ r.copy # NoSource
      /\ r.todo \subseteq EntriesOf(r.copy.etag) /\ r.todo \subseteq 1..version
      /\ r.guarded = FALSE
  <2>1. /\ CallShape(r) /\ r.copy \in Records /\ r.todo \subseteq 1..version
        /\ r.guarded \in BOOLEAN
    BY <1>0, <1>1, CallUnderWay
  <2> QED BY <1>1, <2>1 DEF CallShape, NoCopyYet
<1>3. PICK t \in SUBSET (1..version) : t = r.todo \ {e}
  BY <1>2
<1>4. PICK r2 : r2 = [op |-> rssCall[c].op, pc |-> "store", copy |-> r.copy, todo |-> t,
                      guarded |-> FALSE]
  OBVIOUS
<1>5. CallShape(r2)
  <2>1. r2.op = r.op /\ r2.pc = "store" /\ r2.copy = r.copy /\ r2.todo = t /\ r2.guarded = FALSE
    BY <1>4
  <2> HIDE DEF r
  <2> QED BY <1>2, <1>3, <2>1 DEF CallShape, NoCopyYet
<1>6. /\ r2 \in Calls /\ rssCall' = [rssCall EXCEPT ![c] = r2] /\ r2.op = rssCall[c].op
      /\ r2.pc = "store" /\ r2.copy = r.copy /\ r2.todo = t
  <2>1. r2 \in Calls
    BY <1>0, <1>1, <1>2, <1>4, <1>5, ACall DEF Pcs
  <2>2. Moves(c, "store", r.copy, t, FALSE)
    BY <1>1, <1>2, <1>3 DEF Goes
  <2>3. rssCall' = [rssCall EXCEPT ![c] = r2]
    BY <1>4, <2>2 DEF Moves
  <2> QED BY <1>4, <2>1, <2>3
<1>7. /\ \A x \in Nat : Beyond(items, x) => Beyond(items', x)
      /\ \A x \in items : x \in items' \/ Beyond(items', x)
      /\ \A x \in r.todo : x \in items' \/ (r2.pc = "store" /\ x \in r2.todo)
  <2>1. \A x \in Nat : Beyond(items, x) => Beyond(items', x)
    BY <1>0, <1>1, MoreStored
  <2>2. /\ \A x \in items : x \in items'
        /\ \A x \in r.todo : x \in items' \/ x \in r2.todo
    BY <1>1, <1>3, <1>6
  <2> QED BY <1>6, <2>1, <2>2
<1>8. source' \in Records /\ items' \subseteq 1..version
  BY <1>0, <1>1, <1>2
<1>9. /\ source'.etag = source.etag /\ r2.pc \notin {"evict", "purge"}
      /\ r.pc \notin {"look", "mark"} /\ r2.copy.etag = r.copy.etag
  BY <1>1, <1>6
<1> QED BY <1>0, <1>1, <1>6, <1>7, <1>8, <1>9, FeedStep

(* All are stored: those beyond the limit are listed. *)
LEMMA ListOldestKeeps == ASSUME RssIInv, NEW c \in Slots, ListOldest(c) PROVE RssIInv'
<1> DEFINE r == rssCall[c]
<1>0. /\ RssShape /\ version \in Nat /\ items \subseteq 1..version
      /\ torn \in BOOLEAN /\ rssFails \in 0..RssMaxFails
  BY Stored DEF RssIInv, RssShape
<1>1. /\ r.pc = "store" /\ r.pc # "idle" /\ r.todo = {} /\ Goes(c, "evict", r.copy, Oldest)
      /\ UNCHANGED <<version, source, items, torn, rssActs, rssFails>>
  BY DEF ListOldest
<1>2. /\ r.op \in Subscribes \cup {"refresh"} /\ r.copy \in Records /\ r.copy # NoSource
      /\ r.guarded = FALSE
  <2>1. CallShape(r) /\ r.copy \in Records /\ r.guarded \in BOOLEAN
    BY <1>0, <1>1, CallUnderWay
  <2> QED BY <1>1, <2>1 DEF CallShape, NoCopyYet
<1>3. Oldest \in SUBSET (1..version) /\ \A e \in Oldest : Beyond(items, e)
  BY <1>0 DEF Oldest, Beyond
<1>4. PICK r2 : r2 = [op |-> rssCall[c].op, pc |-> "evict", copy |-> r.copy, todo |-> Oldest,
                      guarded |-> FALSE]
  OBVIOUS
<1>5. CallShape(r2)
  <2>1. r2.op = r.op /\ r2.pc = "evict" /\ r2.copy = r.copy /\ r2.guarded = FALSE
    BY <1>4
  <2> HIDE DEF r
  <2> QED BY <1>2, <2>1 DEF CallShape, NoCopyYet
<1>6. /\ r2 \in Calls /\ rssCall' = [rssCall EXCEPT ![c] = r2] /\ r2.op = rssCall[c].op
      /\ r2.pc = "evict" /\ r2.copy = r.copy /\ r2.todo = Oldest
  <2>1. r2 \in Calls
    BY <1>0, <1>1, <1>2, <1>3, <1>4, <1>5, ACall DEF Pcs
  <2>2. Moves(c, "evict", r.copy, Oldest, FALSE)
    BY <1>1, <1>2 DEF Goes
  <2>3. rssCall' = [rssCall EXCEPT ![c] = r2]
    BY <1>4, <2>2 DEF Moves
  <2> QED BY <1>4, <2>1, <2>3
<1>7. /\ r2.pc = "evict" => \A e \in r2.todo : Beyond(items, e)
      /\ r2.pc # "purge" /\ r.pc \notin {"look", "mark"} /\ r2.copy.etag = r.copy.etag
  BY <1>1, <1>3, <1>6
<1> QED BY <1>0, <1>1, <1>6, <1>7, QuietStep

(* An entry beyond the limit is deleted. *)
LEMMA EvictKeeps == ASSUME RssIInv, NEW c \in Slots, NEW e \in RssEntries, EvictOldest(c, e)
                  PROVE  RssIInv'
<1> DEFINE r == rssCall[c]
<1>0. /\ RssShape /\ Tags /\ version \in Nat /\ items \subseteq 1..version
      /\ torn \in BOOLEAN /\ rssFails \in 0..RssMaxFails /\ source \in Records
      /\ IsFiniteSet(items) /\ items \subseteq Nat
  BY Stored DEF RssIInv, RssShape
<1>1. /\ r.pc = "evict" /\ r.pc # "idle" /\ e \in r.todo /\ items' = items \ {e}
      /\ Goes(c, "evict", r.copy, r.todo \ {e})
      /\ UNCHANGED <<version, source, torn, rssActs, rssFails>>
  BY DEF EvictOldest
<1>2. /\ r.op \in Subscribes \cup {"refresh"} /\ r.copy \in Records /\ r.copy # NoSource
      /\ r.todo \subseteq 1..version /\ r.guarded = FALSE
  <2>1. /\ CallShape(r) /\ r.copy \in Records /\ r.todo \subseteq 1..version
        /\ r.guarded \in BOOLEAN
    BY <1>0, <1>1, CallUnderWay
  <2> QED BY <1>1, <2>1 DEF CallShape, NoCopyYet
<1>3. PICK t \in SUBSET (1..version) : t = r.todo \ {e}
  BY <1>2
<1>4. PICK r2 : r2 = [op |-> rssCall[c].op, pc |-> "evict", copy |-> r.copy, todo |-> t,
                      guarded |-> FALSE]
  OBVIOUS
<1>5. CallShape(r2)
  <2>1. r2.op = r.op /\ r2.pc = "evict" /\ r2.copy = r.copy /\ r2.guarded = FALSE
    BY <1>4
  <2> HIDE DEF r
  <2> QED BY <1>2, <2>1 DEF CallShape, NoCopyYet
<1>6. /\ r2 \in Calls /\ rssCall' = [rssCall EXCEPT ![c] = r2] /\ r2.op = rssCall[c].op
      /\ r2.pc = "evict" /\ r2.copy = r.copy /\ r2.todo = t
  <2>1. r2 \in Calls
    BY <1>0, <1>1, <1>2, <1>4, <1>5, ACall DEF Pcs
  <2>2. Moves(c, "evict", r.copy, t, FALSE)
    BY <1>1, <1>2, <1>3 DEF Goes
  <2>3. rssCall' = [rssCall EXCEPT ![c] = r2]
    BY <1>4, <2>2 DEF Moves
  <2> QED BY <1>4, <2>1, <2>3
<1>7. ~torn' => /\ \A x \in Nat : Beyond(items, x) => Beyond(items', x)
                /\ \A x \in items : x \in items' \/ Beyond(items', x)
                /\ \A x \in r2.todo : Beyond(items', x)
  <2> HAVE ~torn'
  <2>1. \A x \in r.todo : Beyond(items, x)
    BY <1>0, <1>1 DEF Tags
  <2>2. \A x \in Nat : Beyond(items, x) => Beyond(items', x)
    <3> DEFINE D == {e}
    <3>1. \A d \in D : Beyond(items, d)
      BY <1>1, <2>1
    <3>2. items' = items \ D
      BY <1>1
    <3> HIDE DEF D
    <3>3. \A x \in Nat : Beyond(items, x) => Beyond(items \ D, x)
      BY <1>0, <3>1, BeyondStays
    <3> QED BY <3>2, <3>3
  <2>3. r.todo \subseteq Nat
    BY <1>0, <1>2
  <2>4. \A x \in items : x \in items' \/ x = e
    BY <1>1
  <2>5. Beyond(items', e) /\ \A x \in r2.todo : Beyond(items', x)
    BY <1>1, <1>3, <1>6, <2>1, <2>2, <2>3
  <2> QED BY <2>2, <2>4, <2>5
<1>8. source' \in Records /\ items' \subseteq 1..version
  BY <1>0, <1>1
<1>9. /\ source'.etag = source.etag /\ r2.pc # "purge" /\ r.pc # "store"
      /\ r.pc \notin {"look", "mark"} /\ r2.copy.etag = r.copy.etag
  BY <1>1, <1>6
<1> QED BY <1>0, <1>1, <1>6, <1>7, <1>8, <1>9, FeedStep

(* The entries are in, and are shared or not. *)
LEMMA EntriesInKeeps == ASSUME RssIInv, NEW c \in Slots, EntriesAreIn(c) PROVE RssIInv'
<1> DEFINE r == rssCall[c]
<1>0. RssShape /\ torn \in BOOLEAN /\ rssFails \in 0..RssMaxFails
  BY DEF RssIInv, RssShape
<1>1. PICK p \in {"list", "save"} :
         /\ r.pc = "evict" /\ Goes(c, p, r.copy, {})
         /\ UNCHANGED <<version, source, items, torn, rssActs, rssFails>>
  BY DEF EntriesAreIn
<1>2. /\ r.op \in Subscribes \cup {"refresh"} /\ r.copy \in Records /\ r.copy # NoSource
      /\ r.guarded = FALSE
  <2>1. CallShape(r) /\ r.copy \in Records /\ r.guarded \in BOOLEAN
    BY <1>0, <1>1, CallUnderWay
  <2> QED BY <1>1, <2>1 DEF CallShape, NoCopyYet
<1>3. PICK t \in SUBSET (1..version) : t = {}
  OBVIOUS
<1>4. Moves(c, p, r.copy, t, FALSE) /\ p \in Pcs \ {"evict", "purge"}
  BY <1>1, <1>2, <1>3 DEF Goes, Pcs
<1>5. PICK r2 : r2 = [op |-> rssCall[c].op, pc |-> p, copy |-> r.copy, todo |-> t,
                      guarded |-> FALSE]
  OBVIOUS
<1>6. CallShape(r2)
  <2>1. r2.op = r.op /\ r2.pc = p /\ r2.copy = r.copy /\ r2.guarded = FALSE
    BY <1>5
  <2> HIDE DEF r
  <2> QED BY <1>1, <1>2, <2>1 DEF CallShape, NoCopyYet
<1> QED BY <1>0, <1>1, <1>2, <1>4, <1>5, <1>6, GoesKeeps

(* The entries to share are listed. *)
LEMMA ListKeeps == ASSUME RssIInv, NEW c \in Slots, ListToShare(c) PROVE RssIInv'
<1> DEFINE r == rssCall[c]
           s == [r.copy EXCEPT !.shareError = FALSE]
<1>0. /\ RssShape /\ torn \in BOOLEAN /\ rssFails \in 0..RssMaxFails
      /\ items \subseteq 1..version
  BY DEF RssIInv, RssShape
<1>1. /\ r.pc = "list" /\ Goes(c, "publish", s, items \ Remembered(s))
      /\ UNCHANGED <<version, source, items, torn, rssActs, rssFails>>
  BY DEF ListToShare
<1>2. /\ r.op \in Subscribes \cup {"refresh", "share"} /\ r.copy \in Records
      /\ r.copy # NoSource /\ r.guarded \in BOOLEAN /\ (r.guarded => r.op = "refresh")
  <2>1. CallShape(r) /\ r.copy \in Records /\ r.guarded \in BOOLEAN
    BY <1>0, <1>1, CallUnderWay
  <2> QED BY <1>1, <2>1 DEF CallShape, NoCopyYet
<1>3. s \in Records /\ s # NoSource /\ s.etag = r.copy.etag
  <2>0. r.copy \in Source /\ r.copy.status \in {"active", "paused", "error"} /\ r.copy.etag <= version
    BY <1>0, <1>2, TheRecord
  <2>1. s \in Source /\ s.status = r.copy.status /\ s.etag = r.copy.etag
    <3> HIDE DEF r
    <3> QED BY <2>0 DEF Source
  <2> HIDE DEF s
  <2> QED BY <1>0, <2>0, <2>1, ARecord
<1> HIDE DEF s
<1>4. PICK t \in SUBSET (1..version) : t = items \ Remembered(s)
  BY <1>0
<1>5. Moves(c, "publish", s, t, r.guarded) /\ "publish" \in Pcs \ {"evict", "purge"}
  BY <1>1, <1>4 DEF Goes, Pcs
<1>6. PICK r2 : r2 = [op |-> rssCall[c].op, pc |-> "publish", copy |-> s, todo |-> t,
                      guarded |-> r.guarded]
  OBVIOUS
<1>7. CallShape(r2)
  <2>1. r2.op = r.op /\ r2.pc = "publish" /\ r2.copy = s /\ r2.guarded = r.guarded
    BY <1>6
  <2> HIDE DEF r
  <2> QED BY <1>2, <1>3, <2>1 DEF CallShape, NoCopyYet
<1> QED BY <1>0, <1>1, <1>2, <1>3, <1>5, <1>6, <1>7, GoesKeeps

(* An entry is published, or cannot be. *)
LEMMA PublishKeeps == ASSUME RssIInv, NEW c \in Slots, NEW e \in RssEntries, PublishEntry(c, e)
                    PROVE  RssIInv'
<1> DEFINE r == rssCall[c]
<1>0. RssShape /\ torn \in BOOLEAN /\ rssFails \in 0..RssMaxFails
  BY DEF RssIInv, RssShape
<1>1. /\ r.pc = "publish" /\ UNCHANGED <<version, source, items, torn, rssActs>>
  BY DEF PublishEntry
<1>2. /\ r.op \in Subscribes \cup {"refresh", "share"} /\ r.copy \in Records
      /\ r.copy # NoSource /\ r.guarded \in BOOLEAN /\ (r.guarded => r.op = "refresh")
      /\ r.todo \subseteq 1..version
  <2>1. /\ CallShape(r) /\ r.copy \in Records /\ r.guarded \in BOOLEAN
        /\ r.todo \subseteq 1..version
    BY <1>0, <1>1, CallUnderWay
  <2> QED BY <1>1, <2>1 DEF CallShape, NoCopyYet
<1>3. r.copy \in Source /\ r.copy.status \in {"active", "paused", "error"} /\ r.copy.etag <= version
  BY <1>0, <1>2, TheRecord
<1>4. PICK s \in Source, t \in SUBSET (1..version) :
         /\ Goes(c, "publish", s, t) /\ s.status = r.copy.status
         /\ s.etag = r.copy.etag /\ rssFails' \in 0..RssMaxFails
  <2>1. PICK t \in SUBSET (1..version) : t = r.todo \ {e}
    BY <1>2
  <2>2. CASE Goes(c, "publish", WithShared(r.copy, e), r.todo \ {e}) /\ UNCHANGED rssFails
    <3>1. PICK s : s = WithShared(r.copy, e)
      OBVIOUS
    <3>2. s \in Source /\ s.status = r.copy.status /\ s.etag = r.copy.etag
      BY <1>3, <3>1, SharedOneMore
    <3> QED BY <1>0, <2>1, <2>2, <3>1, <3>2
  <2>3. CASE Fails /\ Goes(c, "publish", [r.copy EXCEPT !.shareError = TRUE], r.todo \ {e})
    <3>1. PICK s : s = [r.copy EXCEPT !.shareError = TRUE]
      OBVIOUS
    <3>2. s \in Source /\ s.status = r.copy.status /\ s.etag = r.copy.etag
      <4> HIDE DEF r
      <4> QED BY <1>3, <3>1 DEF Source
    <3>3. rssFails' \in 0..RssMaxFails
      BY <1>0, <2>3, RssAssumption DEF Fails
    <3> QED BY <2>1, <2>3, <3>1, <3>2, <3>3
  <2> QED BY <2>2, <2>3 DEF PublishEntry
<1>5. s \in Records /\ s # NoSource
  BY <1>0, <1>3, <1>4, ARecord
<1>6. Moves(c, "publish", s, t, r.guarded) /\ "publish" \in Pcs \ {"evict", "purge"}
  BY <1>4 DEF Goes, Pcs
<1>7. PICK r2 : r2 = [op |-> rssCall[c].op, pc |-> "publish", copy |-> s, todo |-> t,
                      guarded |-> r.guarded]
  OBVIOUS
<1>8. CallShape(r2)
  <2>1. r2.op = r.op /\ r2.pc = "publish" /\ r2.copy = s /\ r2.guarded = r.guarded
    BY <1>7
  <2> HIDE DEF r
  <2> QED BY <1>2, <1>5, <2>1 DEF CallShape, NoCopyYet
<1> QED BY <1>0, <1>1, <1>2, <1>4, <1>5, <1>6, <1>7, <1>8, GoesKeeps

(* The copy is stored, and the call is over. *)
LEMMA SaveKeeps == ASSUME RssIInv, NEW c \in Slots, SaveSource(c) PROVE RssIInv'
<1> DEFINE r == rssCall[c]
<1>0. /\ RssShape /\ torn \in BOOLEAN /\ rssFails \in 0..RssMaxFails
      /\ items \subseteq 1..version
  BY DEF RssIInv, RssShape
<1>1. /\ r.pc \in {"save", "publish"} /\ source' = r.copy /\ Ends(c)
      /\ UNCHANGED <<version, items, torn, rssActs, rssFails>>
  BY <1>0 DEF SaveSource
<1>2. r.copy \in Records /\ r.pc # "idle"
  BY <1>0, <1>1, CallUnderWay
<1>3. NoCall.copy.etag = 0 /\ NoCall.pc \notin {"evict", "purge"}
  BY NoCallIs
<1>4. /\ \A e \in Nat : Beyond(items, e) => Beyond(items', e)
      /\ \A e \in items : e \in items' \/ Beyond(items', e)
      /\ r.pc \notin {"look", "mark", "store"} /\ source'.etag = r.copy.etag
      /\ source' \in Records /\ items' \subseteq 1..version
  BY <1>0, <1>1, <1>2
<1> QED BY <1>0, <1>1, <1>2, <1>3, <1>4, FeedStep DEF Ends

(* An await rejects: inside the try the copy will be saved with the error. *)
LEMMA RejectsKeeps == ASSUME RssIInv, NEW c \in Slots, Rejects(c) PROVE RssIInv'
<1> DEFINE r == rssCall[c]
           s == [r.copy EXCEPT !.status = "error"]
<1>0. RssShape /\ torn \in BOOLEAN /\ rssFails \in 0..RssMaxFails
  BY DEF RssIInv, RssShape
<1>1. /\ r.pc # "idle" /\ rssFails' \in 0..RssMaxFails
      /\ torn' \in BOOLEAN /\ (torn => torn')
      /\ UNCHANGED <<version, source, items, rssActs>>
      /\ ~torn' => (r.pc = "mark" => ~r.guarded) /\ (r.pc = "store" => r.todo = {})
  <2>1. r.pc # "idle" /\ UNCHANGED <<version, source, items, rssActs>>
    BY DEF Rejects, UnderWay
  <2>2. rssFails' \in 0..RssMaxFails
    BY <1>0, RssAssumption DEF Rejects, Fails
  <2>3. torn' = (torn \/ (r.pc = "mark" /\ r.guarded) \/ (r.pc = "store" /\ r.todo # {}))
    BY DEF Rejects
  <2> QED BY <2>1, <2>2, <2>3
<1>2. CASE r.guarded
  <2>1. Moves(c, "save", s, {}, FALSE)
    BY <1>2 DEF Rejects
  <2>2. /\ r.op = "refresh" /\ r.copy \in Records /\ r.copy # NoSource
        /\ r.pc \notin {"look", "store"}
    <3>1. CallShape(r) /\ r.copy \in Records
      BY <1>0, <1>1, CallUnderWay
    <3> QED BY <1>2, <3>1 DEF CallShape, NoCopyYet
  <2>3. s \in Records /\ s # NoSource /\ s.etag = r.copy.etag
    <3>0. r.copy \in Source /\ r.copy.etag <= version
      BY <1>0, <2>2, TheRecord
    <3>1. s \in Source /\ s.status = "error" /\ s.etag = r.copy.etag
      <4> HIDE DEF r
      <4> QED BY <3>0 DEF Source
    <3> HIDE DEF s
    <3> QED BY <1>0, <3>0, <3>1, ARecord
  <2> HIDE DEF s
  <2>4. PICK t \in SUBSET (1..version) : t = {}
    OBVIOUS
  <2>5. Moves(c, "save", s, t, FALSE) /\ "save" \in Pcs \ {"evict", "purge"}
    BY <2>1, <2>4 DEF Pcs
  <2>6. PICK r2 : r2 = [op |-> rssCall[c].op, pc |-> "save", copy |-> s, todo |-> t,
                        guarded |-> FALSE]
    OBVIOUS
  <2>7. CallShape(r2)
    <3>1. r2.op = r.op /\ r2.pc = "save" /\ r2.copy = s /\ r2.guarded = FALSE
      BY <2>6
    <3> HIDE DEF r
    <3> QED BY <2>2, <2>3, <3>1 DEF CallShape, NoCopyYet
  <2>8. ~torn' => r.pc # "mark"
    BY <1>1, <1>2
  <2> QED BY <1>1, <2>2, <2>3, <2>5, <2>6, <2>7, <2>8, GoesKeeps
<1>3. CASE ~r.guarded
  <2>1. Ends(c)
    BY <1>3 DEF Rejects
  <2>2. ~torn' => (r.pc = "store" => r.todo = {})
    BY <1>1
  <2> QED BY <1>1, <2>1, <2>2, EndsKeeps
<1> QED BY <1>2, <1>3

(* The source is deleted. *)
LEMMA DeleteSourceKeeps == ASSUME RssIInv, NEW c \in Slots, DeleteSource(c) PROVE RssIInv'
<1> DEFINE r == rssCall[c]
<1>0. /\ RssShape /\ version \in Nat /\ torn \in BOOLEAN /\ rssFails \in 0..RssMaxFails
      /\ items \subseteq 1..version
  BY Stored DEF RssIInv, RssShape
<1>1. /\ r.pc = "delete" /\ r.pc # "idle" /\ source' = NoSource
      /\ UNCHANGED <<version, items, torn, rssActs, rssFails>>
  BY DEF DeleteSource
<1>2. NoSource \in Records /\ NoSource.etag = 0
  BY <1>0, Documents DEF Records, Source, NoSource
<1>3. /\ Removes(r.op) /\ r.guarded = FALSE /\ r.copy = NoSource
  <2>1. CallShape(r) /\ r.guarded \in BOOLEAN
    BY <1>0, <1>1, CallUnderWay
  <2> QED BY <1>1, <2>1 DEF CallShape, NoCopyYet
<1>4. /\ \A e \in Nat : Beyond(items, e) => Beyond(items', e)
      /\ \A e \in items : e \in items' \/ Beyond(items', e)
      /\ source'.etag = 0 /\ source' \in Records /\ items' \subseteq 1..version
     
  BY <1>0, <1>1, <1>2
<1>5. CASE Ends(c)
  <2>1. NoCall.copy.etag = 0 /\ NoCall.pc \notin {"evict", "purge"}
    BY NoCallIs
  <2> QED BY <1>0, <1>1, <1>4, <1>5, <2>1, FeedStep DEF Ends
<1>6. CASE r.op = "purge" /\ Goes(c, "purge", NoSource, items)
  <2>1. Moves(c, "purge", NoSource, items, FALSE) /\ "purge" \in Pcs /\ items \in SUBSET (1..version)
    BY <1>0, <1>3, <1>6 DEF Goes, Pcs
  <2>2. PICK r2 : r2 = [op |-> rssCall[c].op, pc |-> "purge", copy |-> NoSource, todo |-> items,
                        guarded |-> FALSE]
    OBVIOUS
  <2>3. CallShape(r2)
    <3>1. r2.op = r.op /\ r2.pc = "purge" /\ r2.copy = NoSource /\ r2.guarded = FALSE
      BY <2>2
    <3> HIDE DEF r
    <3> QED BY <1>6, <3>1 DEF CallShape, NoCopyYet
  <2>4. /\ r2 \in Calls /\ rssCall' = [rssCall EXCEPT ![c] = r2] /\ r2.op = rssCall[c].op
        /\ r2.pc = "purge" /\ r2.copy = NoSource
    <3>1. r2 \in Calls
      BY <1>0, <1>1, <1>2, <2>1, <2>2, <2>3, ACall
    <3>2. rssCall' = [rssCall EXCEPT ![c] = r2]
      BY <2>1, <2>2 DEF Moves
    <3> QED BY <2>2, <3>1, <3>2
  <2>5. r2.copy.etag = 0
    BY <1>2, <2>4
  <2> QED BY <1>0, <1>1, <1>4, <2>4, <2>5, FeedStep
<1> QED BY <1>5, <1>6 DEF DeleteSource

(* An entry of the deleted source is deleted; there is no other call. *)
LEMMA DeleteEntryKeeps == ASSUME RssIInv, NEW c \in Slots, NEW e \in RssEntries, DeleteEntry(c, e)
                        PROVE  RssIInv'
<1> DEFINE r == rssCall[c]
<1>0. /\ RssShape /\ Tags /\ version \in Nat /\ rssCall \in [Slots -> {NoCall} \cup Calls]
  BY Stored DEF RssIInv, RssShape
<1>1. /\ r.pc = "purge" /\ r.pc # "idle" /\ items' = items \ {e}
      /\ Goes(c, "purge", r.copy, r.todo \ {e})
      /\ UNCHANGED <<version, source, torn, rssActs, rssFails>>
  BY DEF DeleteEntry
<1>2. /\ r.op = "purge" /\ r.copy = NoSource /\ r.copy \in Records /\ r.guarded = FALSE
      /\ r.todo \subseteq 1..version /\ c \in UnderWay
  <2>1. /\ CallShape(r) /\ r.copy \in Records /\ r.todo \subseteq 1..version
        /\ r.guarded \in BOOLEAN /\ c \in UnderWay
    BY <1>0, <1>1, CallUnderWay
  <2> QED BY <1>1, <2>1 DEF CallShape, NoCopyYet
<1>3. PICK t \in SUBSET (1..version) : t = r.todo \ {e}
  BY <1>2
<1>4. PICK r2 : r2 = [op |-> rssCall[c].op, pc |-> "purge", copy |-> r.copy, todo |-> t,
                      guarded |-> FALSE]
  OBVIOUS
<1>5. CallShape(r2)
  <2>1. r2.op = r.op /\ r2.pc = "purge" /\ r2.copy = r.copy /\ r2.guarded = FALSE
    BY <1>4
  <2> HIDE DEF r
  <2> QED BY <1>2, <2>1 DEF CallShape, NoCopyYet
<1>6. /\ r2 \in Calls /\ rssCall' = [rssCall EXCEPT ![c] = r2] /\ r2.op = "purge"
      /\ r2.pc = "purge" /\ r2.copy = NoSource
  <2>1. r2 \in Calls
    BY <1>0, <1>1, <1>2, <1>4, <1>5, ACall DEF Pcs
  <2>2. Moves(c, "purge", r.copy, t, FALSE)
    BY <1>1, <1>2, <1>3 DEF Goes
  <2>3. rssCall' = [rssCall EXCEPT ![c] = r2]
    BY <1>4, <2>2 DEF Moves
  <2> QED BY <1>2, <1>4, <2>1, <2>3
<1>7. RssShape'
  <2>1. Records' = Records
    BY <1>1 DEF Records
  <2>2. Calls' = Calls
    BY <1>1, <2>1 DEF Calls
  <2>3. rssCall' \in [Slots -> {NoCall} \cup Calls]
    BY <1>0, <1>6
  <2> QED BY <1>0, <1>1, <2>1, <2>2, <2>3 DEF RssShape
<1>8. Tags'
  <2> SUFFICES ASSUME ~torn PROVE Tags'
    BY <1>1 DEF Tags
  <2>1. UnderWay = {c} /\ source.etag = 0
    <3>1. Removes(rssCall[c].op)
      BY <1>2 DEF Removes
    <3> QED BY <1>0, <1>1, <1>2, <3>1 DEF Tags
  <2>2. \A d \in Slots : rssCall'[d] = IF d = c THEN r2 ELSE rssCall[d]
    BY <1>0, <1>6
  <2>3. \A d \in Slots : d # c => rssCall[d] = NoCall
    BY <1>0, <2>1, NoCallIs DEF UnderWay, Calls
  <2>4. UnderWay' = {c}
    BY <1>6, <2>1, <2>2, <2>3, NoCallIs DEF UnderWay
  <2>5. \A d \in Slots : rssCall'[d].copy.etag = 0 /\ rssCall'[d].pc # "evict"
    BY <1>6, <2>2, <2>3, NoCallIs
  <2>6. Covered(0)'
    BY Documents DEF Covered
  <2>7. Covered(source.etag)'
    BY <1>1, <2>1, <2>6 DEF Covered
  <2>8. \A d \in Slots : Covered(rssCall[d].copy.etag)'
    BY <2>5, <2>6 DEF Covered
  <2>9. source'.etag = 0
    BY <1>1, <2>1
  <2> QED BY <2>4, <2>5, <2>7, <2>8, <2>9 DEF Tags
<1> QED BY <1>7, <1>8 DEF RssIInv

(* The entries of the deleted source are gone. *)
LEMMA EntriesGoneKeeps == ASSUME RssIInv, NEW c \in Slots, EntriesAreGone(c) PROVE RssIInv'
<1>1. /\ rssCall[c].pc = "purge" /\ Ends(c)
      /\ UNCHANGED <<version, source, items, torn, rssActs, rssFails>>
  BY DEF EntriesAreGone
<1>2. torn \in BOOLEAN /\ rssFails \in 0..RssMaxFails
  BY DEF RssIInv, RssShape
<1> QED BY <1>1, <1>2, EndsKeeps

(* A call of the user or of the timer begins, reading what is stored. *)
LEMMA BeginCallKeeps == ASSUME RssIInv, NEW c \in Slots, NEW op \in Ops, BeginCall(c, op)
                    PROVE  RssIInv'
<1> DEFINE p == IF op \in {"subscribe", "subscribeShared"} THEN "fetch"
                ELSE IF Removes(op) THEN "delete" ELSE "read"
<1>0. /\ RssShape /\ Tags /\ source.etag \in Nat
      /\ rssCall \in [Slots -> {NoCall} \cup Calls] /\ rssActs \in 0..RssMaxActs
      /\ version \in Nat
  BY Stored DEF RssIInv, RssShape
<1>1. /\ rssActs < RssMaxActs /\ rssActs' = rssActs + 1 /\ c \notin UnderWay
      /\ torn' = (torn \/ \E d \in UnderWay : Removes(op) \/ Removes(rssCall[d].op))
      /\ UNCHANGED <<version, source, items, rssFails>>
  BY DEF BeginCall
<1>2. PICK r2 : r2 = [op |-> op, pc |-> p, copy |-> NoSource, todo |-> {},
                      guarded |-> FALSE]
  OBVIOUS
<1>3. /\ r2.op = op /\ r2.pc = p /\ r2.copy = NoSource /\ r2.guarded = FALSE
      /\ p \in {"fetch", "delete", "read"}
      /\ p = "fetch" => op \in Subscribes
      /\ p = "delete" => Removes(op)
      /\ p = "read" => op \notin Subscribes /\ ~Removes(op)
      /\ Removes(op) => p = "delete"
  BY <1>2 DEF Subscribes, Removes
<1>4. rssCall' = [rssCall EXCEPT ![c] = r2]
  <2>1. [NoCall EXCEPT !.op = op, !.pc = p] = r2
    <3>1. PICK t, u : t = {} /\ u = FALSE
      OBVIOUS
    <3>2. NoCall = [op |-> "none", pc |-> "idle", copy |-> NoSource, todo |-> t,
                    guarded |-> u]
      BY <3>1 DEF NoCall
    <3>3. r2 = [op |-> op, pc |-> p, copy |-> NoSource, todo |-> t,
              guarded |-> u]
      BY <1>2, <3>1
    <3> DEFINE a == [NoCall EXCEPT !.op = op]
    <3> HIDE DEF p
    <3>4. a = [op |-> op, pc |-> "idle", copy |-> NoSource, todo |-> t,
              guarded |-> u]
      BY <3>2
    <3>5. [a EXCEPT !.pc = p] = r2
      <4> HIDE DEF a
      <4> QED BY <3>3, <3>4
    <3> QED BY <3>5
  <2> QED BY <2>1 DEF BeginCall
<1> HIDE DEF p
<1>5. r2 \in Calls /\ r2 # NoCall
  <2>1. NoSource \in Records
    BY <1>0, Documents DEF Records, Source, NoSource
  <2>2. r2 \in [op : Ops, pc : Pcs, copy : Records, todo : SUBSET (1..version),
                  guarded : BOOLEAN]
    BY <1>2, <1>3, <2>1 DEF Pcs
  <2>3. CallShape(r2)
    BY <1>3 DEF CallShape, NoCopyYet, Subscribes, Removes, Ops
  <2> QED BY <2>2, <2>3, NoCallIs DEF Calls
<1>6. RssShape'
  <2>1. Records' = Records
    BY <1>1 DEF Records
  <2>2. Calls' = Calls
    BY <1>1, <2>1 DEF Calls
  <2>3. rssCall' \in [Slots -> {NoCall} \cup Calls]
    BY <1>0, <1>4, <1>5
  <2>4. rssActs' \in 0..RssMaxActs
    BY <1>0, <1>1, RssAssumption
  <2>5. torn' \in BOOLEAN
    BY <1>1
  <2> QED BY <1>0, <1>1, <2>1, <2>2, <2>3, <2>4, <2>5 DEF RssShape
<1>7. /\ \A d \in Slots : rssCall'[d] = IF d = c THEN r2 ELSE rssCall[d]
      /\ rssCall[c] = NoCall /\ r2.copy.etag = 0 /\ r2.pc \notin {"store", "evict", "purge", "idle"}
      /\ UnderWay' = UnderWay \cup {c}
  <2>1. \A d \in Slots : rssCall'[d] = IF d = c THEN r2 ELSE rssCall[d]
    BY <1>0, <1>4
  <2>2. rssCall[c] = NoCall
    BY <1>0, <1>1, NoCallIs DEF UnderWay, Calls
  <2>3. r2.copy.etag = 0 /\ r2.pc \notin {"store", "evict", "purge", "idle"}
    BY <1>3, NoCallIs
  <2>4. UnderWay' = UnderWay \cup {c}
    BY <2>1, <2>3 DEF UnderWay
  <2> QED BY <2>1, <2>2, <2>3, <2>4
<1>8. Tags'
  <2> SUFFICES ASSUME ~torn' PROVE Tags'
    BY DEF Tags
  <2>1. /\ ~torn
        /\ \A d \in UnderWay : ~Removes(op) /\ ~Removes(rssCall[d].op)
    BY <1>1
  <2>2. /\ Covered(source.etag)
        /\ \A d \in Slots : rssCall[d].pc \notin {"look", "mark"} => Covered(rssCall[d].copy.etag)
        /\ \A d \in Slots : rssCall[d].pc = "evict" => \A e \in rssCall[d].todo : Beyond(items, e)
        /\ \A d \in Slots : rssCall[d].pc = "purge" => source.etag = 0
    BY <1>0, <2>1 DEF Tags
  <2>3. \A e : Kept(e) => Kept(e)'
    <3> SUFFICES ASSUME NEW e, Kept(e) PROVE Kept(e)'
      OBVIOUS
    <3>1. CASE e \in items \/ Beyond(items, e)
      BY <1>1, <3>1 DEF Kept
    <3>2. CASE \E d \in Slots : rssCall[d].pc = "store" /\ e \in rssCall[d].todo
      <4>1. PICK d \in Slots : rssCall[d].pc = "store" /\ e \in rssCall[d].todo
        BY <3>2
      <4>2. d # c
        BY <1>7, <4>1, NoCallIs
      <4> QED BY <1>7, <4>1, <4>2 DEF Kept
    <3> QED BY <3>1, <3>2 DEF Kept
  <2>4. \A v \in Nat : Covered(v) => Covered(v)'
    BY <2>3 DEF Covered
  <2>5. Covered(0)' /\ Covered(source.etag)'
    <3>1. Covered(source.etag)'
      <4>1. PICK v : v = source.etag
        OBVIOUS
      <4>2. Covered(v)'
        BY <1>0, <2>2, <2>4, <4>1
      <4> QED BY <1>1, <4>1, <4>2 DEF Covered
    <3> QED BY <3>1, Documents DEF Covered
  <2>6. \A d \in Slots : rssCall'[d].pc \notin {"look", "mark"} => Covered(rssCall[d].copy.etag)'
    <3> SUFFICES ASSUME NEW d \in Slots, rssCall'[d].pc \notin {"look", "mark"}
                 PROVE  Covered(rssCall[d].copy.etag)'
      OBVIOUS
    <3>1. CASE d = c
      BY <1>7, <2>5, <3>1 DEF Covered
    <3>2. CASE d # c
      <4>1. PICK v : v = rssCall[d].copy.etag
        OBVIOUS
      <4>2. v \in Nat
        <5>1. CASE rssCall[d].pc = "idle"
          BY <1>0, <4>1, <5>1, NoCallIs DEF Calls
        <5>2. CASE rssCall[d].pc # "idle"
          BY <1>0, <4>1, <5>2, CallUnderWay
        <5> QED BY <5>1, <5>2
      <4>3. Covered(v)'
        BY <1>7, <2>2, <2>4, <3>2, <4>1, <4>2
      <4> QED BY <1>7, <3>2, <4>1, <4>3 DEF Covered
    <3> QED BY <3>1, <3>2
  <2>7. \A d \in Slots : rssCall'[d].pc = "evict" => \A e \in rssCall'[d].todo : Beyond(items', e)
    BY <1>1, <1>7, <2>2
  <2>8. \A d \in Slots : rssCall'[d].pc = "purge" => source'.etag = 0
    BY <1>1, <1>7, <2>2
  <2>9. \A d \in UnderWay' : Removes(rssCall'[d].op) => UnderWay' = {d}
    <3> SUFFICES ASSUME NEW d \in UnderWay', Removes(rssCall'[d].op) PROVE UnderWay' = {d}
      OBVIOUS
    <3>1. CASE d = c
      <4>1. Removes(op)
        BY <1>3, <1>7, <3>1 DEF UnderWay
      <4>2. UnderWay = {}
        BY <2>1, <4>1
      <4> QED BY <1>7, <3>1, <4>2
    <3>2. CASE d # c
      BY <1>7, <2>1, <3>2 DEF UnderWay
    <3> QED BY <3>1, <3>2
  <2> QED BY <2>5, <2>6, <2>7, <2>8, <2>9 DEF Tags, Covered
<1> QED BY <1>6, <1>8 DEF RssIInv

(* The feed on the web gets a new version. *)
LEMMA NewDocumentKeeps == ASSUME RssIInv, NewDocument PROVE RssIInv'
<1>0. /\ RssShape /\ Tags /\ version \in Nat /\ version >= 1
      /\ rssCall \in [Slots -> {NoCall} \cup Calls]
  BY Stored DEF RssIInv, RssShape
<1>1. /\ version < MaxVersion /\ version' = version + 1
      /\ UNCHANGED <<source, items, rssCall, torn, rssActs, rssFails>>
  BY DEF NewDocument
<1>2. RssShape'
  <2>1. Records \subseteq Records' /\ 1..version \subseteq 1..version'
    <3>1. \A s \in Source : s.etag <= version => s.etag <= version'
      BY <1>0, <1>1, Documents DEF Source
    <3> QED BY <1>0, <1>1, <3>1 DEF Records
  <2>2. Calls \subseteq Calls'
    <3> SUFFICES ASSUME NEW r \in Calls PROVE r \in Calls'
      OBVIOUS
    <3>1. /\ r \in [op : Ops, pc : Pcs, copy : Records, todo : SUBSET (1..version),
                guarded : BOOLEAN]
          /\ CallShape(r)
      BY DEF Calls
    <3>2. r \in [op : Ops, pc : Pcs, copy : Records', todo : SUBSET (1..version'),
                guarded : BOOLEAN]
      <4>1. r.copy \in Records' /\ r.todo \in SUBSET (1..version')
        BY <2>1, <3>1
      <4> QED BY <3>1, <4>1
    <3> QED BY <3>1, <3>2 DEF Calls
  <2>3. version' \in RssEntries
    BY <1>0, <1>1, Documents DEF RssEntries
  <2>4. source' \in Records' /\ items' \subseteq 1..version'
    BY <1>0, <1>1, <2>1 DEF RssShape
  <2>5. rssCall' \in [Slots -> {NoCall} \cup Calls']
    BY <1>0, <1>1, <2>2
  <2> QED BY <1>0, <1>1, <2>3, <2>4, <2>5 DEF RssShape
<1>3. Tags'
  BY <1>0, <1>1 DEF Tags, Covered, Kept, Beyond, UnderWay
<1> QED BY <1>2, <1>3 DEF RssIInv

(* The tab is closed: its calls are cut short where they stand. *)
LEMMA CloseTabKeeps == ASSUME RssIInv, CloseTab PROVE RssIInv'
<1>1. torn' = TRUE
  BY DEF CloseTab
<1>2. RssShape'
  <2>1. Records' = Records
    BY DEF CloseTab, Records
  <2>2. Calls' = Calls
    BY <2>1 DEF CloseTab, Calls
  <2> QED BY <2>1, <2>2 DEF RssIInv, RssShape, CloseTab
<1>3. Tags'
  BY <1>1 DEF Tags
<1> QED BY <1>2, <1>3 DEF RssIInv

-----------------------------------------------------------------------------
(* The theorems *)

(* The invariant of the feeds holds at the start. *)
LEMMA RssStarts == ASSUME RssInit PROVE RssIInv
<1> DEFINE StartsWell ==
      /\ source \in Source /\ (source.status = "none" => source = NoSource)
      /\ source.etag \in {0, 1} /\ (source.etag = 1 => items = {1}) /\ items \subseteq {1}
<1>1. /\ version = 1 /\ rssCall = [c \in Slots |-> NoCall]
      /\ torn = FALSE /\ rssActs = 0 /\ rssFails = 0
      /\ 1 \in RssEntries /\ 1 \in 0..MaxVersion /\ 0 \in 0..MaxVersion
      /\ RssMaxActs \in Nat /\ RssMaxFails \in Nat
  <2>1. /\ version = 1 /\ rssCall = [c \in Slots |-> NoCall]
        /\ torn = FALSE /\ rssActs = 0 /\ rssFails = 0
    BY DEF RssInit
  <2>2. MaxVersion \in Nat /\ MaxVersion >= 1 /\ RssMaxActs \in Nat /\ RssMaxFails \in Nat
    BY RssAssumption
  <2> QED BY <2>1, <2>2 DEF RssEntries
<1>2. StartsWell
  <2>1. CASE source = NoSource /\ items = {}
    <3>1. NoSource \in Source
      BY <1>1 DEF Source, NoSource
    <3> QED BY <2>1, <3>1, NoCallIs
  <2>2. ASSUME NEW b \in BOOLEAN,
               source = [NoSource EXCEPT !.status = "active", !.etag = 1, !.share = b,
                                         !.shared = IF b THEN << 1 >> ELSE <<>>],
               items = {1}
        PROVE  StartsWell
    <3>1. PICK q \in Seq(RssEntries) : q = IF b THEN << 1 >> ELSE <<>>
      <4>1. << 1 >> \in Seq(RssEntries) /\ <<>> \in Seq(RssEntries)
        BY <1>1
      <4> QED BY <4>1
    <3>2. source = [status |-> "active", share |-> b, shared |-> q, shareError |-> FALSE, etag |-> 1]
      BY <2>2, <3>1 DEF NoSource
    <3>3. source \in Source /\ source.status = "active" /\ source.etag = 1
      BY <1>1, <3>2 DEF Source
    <3> QED BY <2>2, <3>3
  <2> QED BY <2>1, <2>2 DEF RssInit
<1>3. /\ \A c \in Slots : rssCall[c] = NoCall
      /\ UnderWay = {}
  BY <1>1, NoCallIs DEF UnderWay
<1>4. RssShape
  <2>1. source \in Records
    BY <1>1, <1>2 DEF Records
  <2>2. items \subseteq 1..version
    <3>1. 1..version = {1}
      BY <1>1
    <3> QED BY <1>2, <3>1
  <2>3. rssCall \in [Slots -> {NoCall} \cup Calls]
    BY <1>1
  <2>4. version \in RssEntries /\ rssActs \in 0..RssMaxActs /\ rssFails \in 0..RssMaxFails
    BY <1>1
  <2>5. torn \in BOOLEAN
    BY <1>1
  <2> QED BY <2>1, <2>2, <2>3, <2>4, <2>5 DEF RssShape
<1>5. Covered(0) /\ Covered(source.etag)
  <2>1. EntriesOf(1) \subseteq {1} /\ EntriesOf(0) = {}
    <3>1. EntriesOf(1) \subseteq 1..1 /\ EntriesOf(0) = {}
      BY Documents
    <3> QED BY <3>1
  <2> QED BY <1>2, <2>1 DEF Covered, Kept
<1>6. Tags
  BY <1>3, <1>5, NoCallIs DEF Tags
<1> QED BY <1>4, <1>6 DEF RssIInv

(* Every step of the feeds keeps their invariant. *)
LEMMA RssStepKeeps == ASSUME RssIInv, [RssNext]_rssVars PROVE RssIInv'
<1>1. ASSUME NEW c \in Slots, NEW op \in Ops, BeginCall(c, op) PROVE RssIInv'
  BY <1>1, BeginCallKeeps
<1>2. ASSUME NEW c \in Slots,
             \/ ReadSource(c) \/ Refreshes(c) \/ Fetched(c) \/ LooksForSource(c)
             \/ MarkSource(c) \/ ListOldest(c) \/ EntriesAreIn(c) \/ ListToShare(c)
             \/ SaveSource(c) \/ Rejects(c) \/ DeleteSource(c) \/ EntriesAreGone(c)
      PROVE  RssIInv'
  BY <1>2, ReadKeeps, RefreshKeeps, FetchedKeeps, LooksKeeps, MarkKeeps, ListOldestKeeps,
     EntriesInKeeps, ListKeeps, SaveKeeps, RejectsKeeps, DeleteSourceKeeps, EntriesGoneKeeps
<1>3. ASSUME NEW c \in Slots, NEW e \in RssEntries,
             \/ PutEntry(c, e) \/ EvictOldest(c, e) \/ PublishEntry(c, e)
             \/ DeleteEntry(c, e)
      PROVE  RssIInv'
  BY <1>3, PutEntryKeeps, EvictKeeps, PublishKeeps, DeleteEntryKeeps
<1>4. CASE NewDocument \/ CloseTab
  BY <1>4, NewDocumentKeeps, CloseTabKeeps
<1>5. CASE UNCHANGED rssVars
  <2>1. Records' = Records
    BY <1>5 DEF rssVars, Records
  <2>2. Calls' = Calls
    BY <1>5, <2>1 DEF rssVars, Calls
  <2>3. RssShape'
    BY <1>5, <2>1, <2>2 DEF RssIInv, RssShape, rssVars
  <2>4. Tags'
    BY <1>5 DEF RssIInv, Tags, Covered, Kept, Beyond, UnderWay, rssVars
  <2> QED BY <2>3, <2>4 DEF RssIInv
<1> QED BY <1>1, <1>2, <1>3, <1>4, <1>5 DEF RssNext

\* What holds all along in the feeds of an account.
THEOREM RssInvariant == RssSpec => []RssIInv
<1> QED BY RssStarts, RssStepKeeps, PTL DEF RssSpec

\* The type invariant of the feeds: the record, the entries and each call are of
\* their kinds, and the bounds hold.
THEOREM RssTypeCorrect == RssSpec => []RssTypeOK
<1>1. RssIInv => RssTypeOK
  <2> HAVE RssIInv
  <2>1. RssShape /\ version \in Nat /\ version >= 1
    BY Stored DEF RssIInv
  <2>2. 1..version \subseteq RssEntries
    BY <2>1, Documents DEF RssShape, RssEntries
  <2>3. NoSource \in Source /\ Records \subseteq Source
    BY Documents DEF Source, NoSource, Records
  <2> DEFINE C == [op : Ops \cup {"none"},
                   pc : {"idle", "read", "fetch", "look", "mark", "store", "evict", "list",
                         "publish", "save", "delete", "purge"},
                   copy : Source, todo : SUBSET RssEntries, guarded : BOOLEAN]
  <2>4. NoCall \in C
    BY <2>3 DEF NoCall
  <2>5. Calls \subseteq C
    <3> SUFFICES ASSUME NEW r \in Calls PROVE r \in C
      OBVIOUS
    <3>1. r \in [op : Ops, pc : Pcs, copy : Records, todo : SUBSET (1..version),
                  guarded : BOOLEAN]
      BY DEF Calls
    <3> QED BY <2>2, <2>3, <3>1 DEF Pcs
  <2>6. rssCall \in [Slots -> C]
    <3> HIDE DEF C
    <3> QED BY <2>1, <2>4, <2>5 DEF RssShape
  <2> QED BY <2>1, <2>2, <2>3, <2>6 DEF RssShape, RssTypeOK
<1> QED BY <1>1, RssInvariant, PTL

\* The entity tag in the record of a feed never claims more than was imported,
\* whatever calls overlap and overwrite the record of one another and whichever awaits
\* reject, until a removal meets a call, the tab closes in one, or the storage refuses
\* the record or an entry of a document whose tag is taken (doRefresh, saveEntries).
THEOREM TagsAreHonest == RssSpec => []TagIsHonest
<1>1. RssIInv => TagIsHonest
  <2> SUFFICES ASSUME RssIInv, ~torn, NEW e \in EntriesOf(source.etag)
               PROVE  \/ e \in items
                      \/ Cardinality({x \in items : x > e}) >= ItemLimit
                      \/ \E c \in UnderWay : rssCall[c].pc = "store" /\ e \in rssCall[c].todo
    BY DEF TagIsHonest
  <2>1. Kept(e)
    BY DEF RssIInv, Tags, Covered
  <2> QED BY <2>1 DEF Kept, Beyond, UnderWay
<1> QED BY <1>1, RssInvariant, PTL

-----------------------------------------------------------------------------
(* The parts together *)

\* What MailType leaves of the mailbox's types.
MailRest ==
    /\ \A s \in Senders : put[s] = {} \/ \E q \in put[s] : put[s] = {q} /\ q \in Seq(Stanza)
    /\ outcome \in [Stanza -> {"none", "stored", "failed"}]
    /\ asked \in Nat /\ flushes \in Nat /\ flushes + asked <= MaxFlushes

(* The rest of the types of the mailbox holds at the start. *)
LEMMA MailRestStarts == Init => MailRest
BY DhtMailboxAssumption DEF Init, MailRest

(* Every step of the mailbox keeps the rest of its types. *)
LEMMA MailRestKeeps == ASSUME MailIInv, MailIInv', MailRest, [Next]_vars PROVE MailRest'
<1>0. /\ put \in [Senders -> SUBSET Seq(Stanza)] /\ put' \in [Senders -> SUBSET Seq(Stanza)]
      /\ outcome \in [Stanza -> {"none", "stored", "failed"}] /\ MaxFlushes \in Nat
      /\ asked \in Nat /\ flushes \in Nat /\ flushes + asked <= MaxFlushes
      /\ \A s \in Senders : put[s] = {} \/ \E q \in put[s] : put[s] = {q} /\ q \in Seq(Stanza)
  BY DhtMailboxAssumption DEF MailIInv, MailType, MailRest
<1>1. ASSUME NEW s \in Senders, BufferReads(s) PROVE MailRest'
  <2>1. PICK q : put' = [put EXCEPT ![s] = {q}]
    BY <1>1 DEF BufferReads
  <2>2. put'[s] = {q} /\ q \in Seq(Stanza) /\ \A p \in Senders : p # s => put'[p] = put[p]
    BY <1>0, <2>1
  <2>3. \A p \in Senders : put'[p] = {} \/ \E x \in put'[p] : put'[p] = {x} /\ x \in Seq(Stanza)
    BY <1>0, <2>2
  <2> QED BY <1>0, <1>1, <2>3 DEF MailRest, BufferReads, owner
<1>2. ASSUME NEW s \in Senders, BufferReadFails(s) \/ BufferPuts(s) \/ BufferPutFails(s)
      PROVE  MailRest'
  <2>1. PICK result \in {"stored", "failed"} : Settle(s, result)
    BY <1>2 DEF BufferReadFails, BufferPuts, BufferPutFails
  <2>2. outcome' = [outcome EXCEPT ![Head(waiting[s])] = result] /\ put' = [put EXCEPT ![s] = {}]
    BY <2>1 DEF Settle
  <2>3. outcome' \in [Stanza -> {"none", "stored", "failed"}]
    BY <1>0, <2>2
  <2>4. \A p \in Senders : put'[p] = {} \/ \E x \in put'[p] : put'[p] = {x} /\ x \in Seq(Stanza)
    BY <1>0, <2>2
  <2>5. asked' = asked /\ flushes' = flushes
    BY <1>2 DEF BufferReadFails, BufferPuts, BufferPutFails, owner
  <2> QED BY <1>0, <2>3, <2>4, <2>5 DEF MailRest
<1>3. ASSUME NEW s \in Senders, Buffer(s) PROVE MailRest'
  BY <1>0, <1>3 DEF Buffer, MailRest, owner
<1>4. CASE AskFlush \/ FlushReads \/ FlushReadFails
  <2>1. put' = put /\ outcome' = outcome
    BY <1>4 DEF AskFlush, FlushReads, FlushReadFails, senders
  <2>2. asked' \in Nat /\ flushes' \in Nat /\ flushes' + asked' <= MaxFlushes
    <3>1. CASE AskFlush
      BY <1>0, <3>1 DEF AskFlush
    <3>2. CASE FlushReads \/ FlushReadFails
      <4>1. asked > 0 /\ asked' = asked - 1 /\ flushes' = flushes + 1
        BY <3>2 DEF FlushReads, FlushReadFails
      <4> QED BY <1>0, <4>1
    <3> QED BY <1>4, <3>1, <3>2
  <2> QED BY <1>0, <2>1, <2>2 DEF MailRest
<1>5. CASE Handle \/ HandleThrows \/ FlushPuts \/ FlushPutFails \/ Restart \/ Expire
  <2>1. put' = put /\ outcome' = outcome
    BY <1>5 DEF Handle, HandleThrows, FlushPuts, FlushPutFails, Restart, Expire, senders
  <2>2. asked' \in {0, asked} /\ flushes' = flushes
    BY <1>5 DEF Handle, HandleThrows, FlushPuts, FlushPutFails, Restart, Expire, owner
  <2>3. asked' \in Nat /\ flushes' \in Nat /\ flushes' + asked' <= MaxFlushes
    <3>1. PICK a \in {0, asked} : a = asked'
      BY <2>2
    <3>2. a \in Nat /\ a <= asked /\ flushes + a <= MaxFlushes
      <4>1. CASE a = 0
        BY <1>0, <4>1
      <4>2. CASE a = asked
        BY <1>0, <4>2
      <4> QED BY <4>1, <4>2
    <3> QED BY <1>0, <2>2, <3>1, <3>2
  <2> QED BY <1>0, <2>1, <2>3 DEF MailRest
<1>6. CASE UNCHANGED vars
  BY <1>0, <1>6 DEF MailRest, vars, senders, owner
<1> QED BY <1>1, <1>2, <1>3, <1>4, <1>5, <1>6 DEF Next

\* A behaviour of NodeRecords is one of each part: what is proved of a part alone
\* holds of the node's records.
THEOREM RecordsRunAlone ==
    RecordsSpec =>
        Spec /\ ChatSpec /\ HistSpec /\ TopicSpec /\ BridgeSpec /\ PageSpec /\ RssSpec
<1>1. RecordsInit =>
          Init /\ ChatInit /\ HistInit /\ TopicInit /\ BridgeInit /\ PageInit /\ RssInit
  BY DEF RecordsInit
<1>2. [RecordsNext]_recordVars =>
          /\ [Next]_vars /\ [ChatNext]_chatVars /\ [HistNext]_histVars /\ [TopicNext]_topicVars
          /\ [BridgeNext]_bridgeVars /\ [PageNext]_pageVars /\ [RssNext]_rssVars
  BY DEF RecordsNext, MailboxActs, ChatHistoryActs, GroupHistoryActs, TopicsAct, ServerActs,
         PageActs, RssActs, recordVars
<1> QED
  BY <1>1, <1>2, PTL
  DEF RecordsSpec, Spec, ChatSpec, HistSpec, TopicSpec, BridgeSpec, PageSpec, RssSpec

\* The type invariant of the mailbox, of its callers and of its flush.
THEOREM MailTypeCorrect == Spec => []TypeOK
<1>1. MailIInv /\ MailIInv' /\ MailRest /\ [Next]_vars => MailRest'
  BY MailRestKeeps
<1>2. ASSUME MailIInv, MailRest PROVE TypeOK
  <2>1. mailbox \in Seq(Stanza) /\ flush.queue \in Seq(Stanza)
    BY <1>2 DEF MailIInv, Copies
  <2>2. flush.stage \in {"idle", "handle", "put"}
    BY <1>2 DEF MailIInv, MailType, Flushes
  <2>3. flushes \in 0..MaxFlushes
    BY <1>2, DhtMailboxAssumption DEF MailRest
  <2> QED BY <1>2, <2>1, <2>2, <2>3 DEF MailIInv, MailType, MailRest, TypeOK
<1> QED BY InitMail, NextMail, MailRestStarts, <1>1, <1>2, PTL DEF Spec

\* The type invariants of the records that a node keeps, all together.
THEOREM RecordsTypeCorrect == RecordsSpec => []RecordsTypeOK
<1>1. TopicSpec => []TopicTypeOK
  <2>1. TopicIInv => TopicTypeOK
    BY DEF TopicIInv
  <2> QED BY InitTopic, NextTopic, <2>1, PTL DEF TopicSpec
<1>2. BridgeSpec => []BridgeTypeOK
  <2>1. BridgeIInv => BridgeTypeOK
    BY DEF BridgeIInv
  <2> QED BY InitBridge, NextBridge, <2>1, PTL DEF BridgeSpec
<1>3. RecordsSpec => [](part \in Parts)
  <2>1. RecordsInit => part \in Parts
    BY DEF RecordsInit
  <2>2. part \in Parts /\ [RecordsNext]_recordVars => (part \in Parts)'
    BY DEF RecordsNext, MailboxActs, ChatHistoryActs, GroupHistoryActs, TopicsAct, ServerActs,
           PageActs, RssActs, recordVars
  <2> QED BY <2>1, <2>2, PTL DEF RecordsSpec
<1>4. (TypeOK /\ ChatTypeOK /\ HistTypeOK /\ TopicTypeOK /\ BridgeTypeOK /\ PageTypeOK
       /\ RssTypeOK /\ part \in Parts) => RecordsTypeOK
  BY DEF RecordsTypeOK
<1> QED BY RecordsRunAlone, MailTypeCorrect, ChatTypeCorrect, HistTypeCorrect, <1>1, <1>2,
           PageTypeCorrect, RssTypeCorrect, <1>3, <1>4, PTL
=============================================================================
