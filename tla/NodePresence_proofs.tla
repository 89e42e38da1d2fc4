------------------------- MODULE NodePresence_proofs -------------------------
(*****************************************************************************)
(* Proofs about the three parts of NodePresence, and about all of them       *)
(* together.  Of the roster, for every choice of the users that act and any  *)
(* bound on what they do and on how often the stream is lost; of the         *)
(* uploads, for any number of nodes and failures; of the rooms, for any      *)
(* number of members and acts.                                               *)
(*****************************************************************************)
EXTENDS NodePresence, TLAPS

-----------------------------------------------------------------------------
(* The roster *)

-----------------------------------------------------------------------------
(* Sequences and nodes *)

\* What the operations do to the sequences keeps their elements in a set.
LEMMA Cut ==
    ASSUME NEW S, NEW s \in Seq(S), s # <<>>
    PROVE  Head(s) \in S /\ Tail(s) \in Seq(S)
OBVIOUS

(* A sequence over a set stays one when an element of the set is added. *)
LEMMA Add ==
    ASSUME NEW S, NEW s \in Seq(S), NEW x \in S
    PROVE  Append(s, x) \in Seq(S)
OBVIOUS

(* So does the concatenation of two of them. *)
LEMMA Join ==
    ASSUME NEW S, NEW s \in Seq(S), NEW t \in Seq(S)
    PROVE  s \o t \in Seq(S)
OBVIOUS

(* A sequence over a set is one over any larger set. *)
LEMMA Widen ==
    ASSUME NEW S, NEW T, S \subseteq T, NEW s \in Seq(S)
    PROVE  s \in Seq(T)
OBVIOUS

(* The other node is a node, is another one, and this one is its other node. *)
LEMMA Peers ==
    ASSUME NEW n \in Node
    PROVE  Peer(n) \in Node /\ Peer(n) # n /\ Peer(Peer(n)) = n
BY DEF Node, Peer

-----------------------------------------------------------------------------
(* What is warranted *)

\* A user who asks makes more things warranted, and nothing less.
LEMMA AskingOnlyAdds ==
    ASSUME NEW n \in Node, \A m \in Node : asked[m] => asked'[m]
    PROVE  /\ Warranted(n) \subseteq Warranted(n)'
           /\ WarrantedEntry(n) \subseteq WarrantedEntry(n)'
           /\ WarrantedTask(n) \subseteq WarrantedTask(n)'
<1>1. Warranted(n) \subseteq Warranted(n)' /\ Warranted(Peer(n)) \subseteq Warranted(Peer(n))'
  BY Peers DEF Warranted
<1>2. WarrantedEntry(n) \subseteq WarrantedEntry(n)'
  BY Peers DEF WarrantedEntry
<1>3. WarrantedTask(n) \subseteq WarrantedTask(n)'
  BY <1>1, Peers DEF WarrantedTask
<1> QED BY <1>1, <1>2, <1>3

\* IInv is preserved by a step after which the parts of the two nodes that it
\* changes are warranted.
LEMMA Kept ==
    ASSUME IInv,
           asked' \in [Node -> BOOLEAN], \A m \in Node : asked[m] => asked'[m],
           \A m \in Node : entry'[m] \in WarrantedEntry(m)' \/ entry'[m] = entry[m],
           \A m \in Node : tasks'[m] \in Seq(WarrantedTask(m)') \/ tasks'[m] = tasks[m],
           \A m \in Node : wire'[m] \in Seq(Warranted(m)') \/ wire'[m] = wire[m],
           entry' = [m \in Node |-> entry'[m]],
           tasks' = [m \in Node |-> tasks'[m]],
           wire' = [m \in Node |-> wire'[m]],
           linked' \in BOOLEAN, acts' \in [Node -> 0..MaxActs], drops' \in 0..MaxDrops,
           last' \in [Node -> {"nothing", "subscribe", "unsubscribe", "remove"}]
    PROVE  IInv'
<1>1. ASSUME NEW m \in Node
      PROVE  /\ entry'[m] \in WarrantedEntry(m)'
             /\ tasks'[m] \in Seq(WarrantedTask(m)')
             /\ wire'[m] \in Seq(Warranted(m)')
  <2>1. entry[m] \in WarrantedEntry(m)'
    BY AskingOnlyAdds DEF IInv
  <2>2. tasks[m] \in Seq(WarrantedTask(m)')
    BY AskingOnlyAdds, Widen DEF IInv
  <2>3. wire[m] \in Seq(Warranted(m)')
    BY AskingOnlyAdds, Widen DEF IInv
  <2> QED BY <2>1, <2>2, <2>3
<1>2. ASSUME NEW m \in Node
      PROVE  entry'[m] \in Entry /\ tasks'[m] \in Seq(Task) /\ wire'[m] \in Seq(Presence)
  <2>1. /\ WarrantedEntry(m)' \subseteq Entry
        /\ WarrantedTask(m)' \subseteq Task
        /\ Warranted(m)' \subseteq Presence
    BY DEF WarrantedEntry, WarrantedTask, Warranted
  <2> QED BY <1>1, <2>1, Widen
<1>3. /\ entry' \in [Node -> Entry]
      /\ tasks' \in [Node -> Seq(Task)]
      /\ wire' \in [Node -> Seq(Presence)]
  BY <1>2
<1>4. TypeOK'
  BY <1>3 DEF TypeOK
<1> QED BY <1>1, <1>4 DEF IInv

-----------------------------------------------------------------------------
(* What the operations are made of *)

\* A handler with warranted flags makes a warranted entry, and an answer that
\* its peer has asked for.
LEMMA HandlerWarranted ==
    ASSUME NEW n \in Node, NEW t \in WarrantedTask(n), t.stage = "update"
    PROVE  Updated(t) \in WarrantedEntry(n) /\ Answer(t) \in Seq(WarrantedTask(n))
<1>1. /\ t.kind \in Requests /\ t.to \in BOOLEAN /\ t.from \in BOOLEAN
      /\ t.to => asked[n]
      /\ t.from => asked[Peer(n)]
      /\ t.kind = "subscribe" => asked[Peer(n)]
      /\ t.kind = "subscribed" => asked[n]
  BY DEF WarrantedTask, Warranted, Task
<1>2. Updated(t) \in WarrantedEntry(n)
  <2>1. CASE t.kind = "subscribe"
    BY <1>1, <2>1 DEF Updated, WarrantedEntry, Entry
  <2>2. CASE t.kind = "subscribed"
    BY <1>1, <2>2 DEF Updated, WarrantedEntry, Entry
  <2>3. CASE t.kind = "unsubscribe"
    BY <1>1, <2>3 DEF Updated, WarrantedEntry, Entry
  <2>4. CASE t.kind = "unsubscribed"
    BY <1>1, <2>4 DEF Updated, WarrantedEntry, Entry
  <2> QED BY <1>1, <2>1, <2>2, <2>3, <2>4 DEF Requests
<1>3. t.kind = "subscribe" => Send("subscribed") \in WarrantedTask(n)
  BY <1>1, Peers DEF Send, WarrantedTask, Warranted, Task, Requests, Presence
<1>4. Send("unsubscribed") \in WarrantedTask(n)
  BY Peers DEF Send, WarrantedTask, Warranted, Task, Requests, Presence
<1>5. Answer(t) \in Seq(WarrantedTask(n))
  <2>1. CASE t.kind = "subscribe"
    BY <1>3, <2>1 DEF Answer
  <2>2. CASE t.kind = "unsubscribe"
    BY <1>4, <2>2 DEF Answer
  <2>3. CASE t.kind \notin {"subscribe", "unsubscribe"}
    BY <2>3 DEF Answer
  <2> QED BY <2>1, <2>2, <2>3
<1> QED BY <1>2, <1>5

\* What a warranted presence is sent as is warranted.
LEMMA FramesWarranted ==
    ASSUME NEW n \in Node, NEW kind \in Warranted(n)
    PROVE  Frames(kind) \in Seq(Warranted(n))
<1>1. "presence" \in Warranted(n)
  BY DEF Warranted, Presence
<1> QED BY <1>1 DEF Frames

\* A pending request of a warranted entry may be sent again.
LEMMA AskAgainWarranted ==
    ASSUME NEW n \in Node, NEW e \in WarrantedEntry(n)
    PROVE  <<"presence">> \o AskAgain(e) \in Seq(Warranted(Peer(n)))
<1>1. "presence" \in Warranted(Peer(n))
  BY DEF Warranted, Presence
<1>2. CASE e.ask = "none"
  <2>1. AskAgain(e) = <<>>
    BY <1>2 DEF AskAgain
  <2> QED BY <1>1, <2>1
<1>3. CASE e.ask # "none"
  <2>1. e.ask \in Warranted(Peer(n))
    BY <1>3, Peers DEF WarrantedEntry, Entry, Warranted, Presence, Requests
  <2>2. AskAgain(e) = <<e.ask>>
    BY <1>3 DEF AskAgain
  <2> QED BY <1>1, <2>1, <2>2, Join
<1> QED BY <1>2, <1>3

-----------------------------------------------------------------------------
(* The steps *)

\* Nothing is known or asked at first.
LEMMA InitIInv == Init => IInv
<1> SUFFICES ASSUME Init PROVE IInv
  OBVIOUS
<1>1. TypeOK
  <2>1. NoEntry \in Entry
    BY DEF NoEntry, Entry
  <2>2. entry \in [Node -> Entry]
    BY <2>1 DEF Init
  <2>3. tasks \in [Node -> Seq(Task)] /\ wire \in [Node -> Seq(Presence)]
    BY DEF Init
  <2>4. acts \in [Node -> 0..MaxActs] /\ drops \in 0..MaxDrops
    BY RosterAssumption DEF Init
  <2>5. /\ linked \in BOOLEAN /\ asked \in [Node -> BOOLEAN]
        /\ last \in [Node -> {"nothing", "subscribe", "unsubscribe", "remove"}]
    BY DEF Init
  <2> QED BY <2>2, <2>3, <2>4, <2>5 DEF TypeOK
<1>2. ASSUME NEW n \in Node
      PROVE  /\ entry[n] \in WarrantedEntry(n)
             /\ tasks[n] \in Seq(WarrantedTask(n))
             /\ wire[n] \in Seq(Warranted(n))
  BY <1>2 DEF Init, NoEntry, WarrantedEntry, Entry
<1> QED BY <1>1, <1>2 DEF IInv

\* An act leaves the other node's history alone and forgets nothing.
LEMMA ActsHistory ==
    ASSUME TypeOK, NEW n \in Node, NEW what \in {"subscribe", "unsubscribe", "remove"},
           Acts(n, what)
    PROVE  /\ asked' \in [Node -> BOOLEAN]
           /\ \A m \in Node : asked[m] => asked'[m]
           /\ what = "subscribe" => asked'[n]
           /\ acts' \in [Node -> 0..MaxActs]
           /\ last' \in [Node -> {"nothing", "subscribe", "unsubscribe", "remove"}]
<1>1. acts' \in [Node -> 0..MaxActs]
  BY RosterAssumption DEF Acts, TypeOK
<1>2. last' \in [Node -> {"nothing", "subscribe", "unsubscribe", "remove"}]
  BY DEF Acts, TypeOK
<1>3. (asked[n] \/ what = "subscribe") \in BOOLEAN
  OBVIOUS
<1>4. asked' \in [Node -> BOOLEAN]
  BY <1>3, Zenon DEF Acts, TypeOK
<1>5. /\ asked'[n] <=> (asked[n] \/ what = "subscribe")
      /\ \A m \in Node \ {n} : asked'[m] = asked[m]
  BY Zenon DEF Acts, TypeOK
<1> QED BY <1>1, <1>2, <1>4, <1>5

(* A user asks to subscribe: the request that travels is warranted by the asking itself. *)
LEMMA SubscribeStep ==
    ASSUME IInv, NEW n \in Node, Subscribe(n)
    PROVE  IInv'
<1>1. TypeOK
  BY DEF IInv
<1>2. /\ asked' \in [Node -> BOOLEAN]
      /\ \A m \in Node : asked[m] => asked'[m]
      /\ asked'[n]
      /\ acts' \in [Node -> 0..MaxActs]
      /\ last' \in [Node -> {"nothing", "subscribe", "unsubscribe", "remove"}]
  BY <1>1, ActsHistory DEF Subscribe
<1>3. /\ entry'[n] = [known |-> TRUE, to |-> TRUE, from |-> FALSE, ask |-> "subscribe"]
      /\ entry'[n] \in WarrantedEntry(n)'
  BY <1>1, <1>2 DEF Subscribe, TypeOK, WarrantedEntry, Entry
<1>4. tasks'[n] = Append(tasks[n], Send("subscribe"))
  BY <1>1 DEF Subscribe, TypeOK
<1>5. Send("subscribe") \in WarrantedTask(n)'
  BY <1>2, Peers DEF Send, WarrantedTask, Warranted, Task, Requests, Presence
<1>6. tasks[n] \in Seq(WarrantedTask(n)')
  BY <1>2, AskingOnlyAdds, Widen DEF IInv
<1>7. tasks'[n] \in Seq(WarrantedTask(n)')
  BY <1>4, <1>5, <1>6, Add
<1>8. /\ \A m \in Node \ {n} : entry'[m] = entry[m] /\ tasks'[m] = tasks[m]
      /\ entry' = [m \in Node |-> entry'[m]]
      /\ tasks' = [m \in Node |-> tasks'[m]]
      /\ wire' = wire /\ linked' = linked /\ drops' = drops
      /\ wire' = [m \in Node |-> wire'[m]]
  BY <1>1 DEF Subscribe, TypeOK
<1>9. linked' \in BOOLEAN /\ drops' \in 0..MaxDrops
  BY <1>1, <1>8 DEF TypeOK
<1> QED BY <1>2, <1>3, <1>7, <1>8, <1>9, Kept

(* A user unsubscribes: the entry only loses, and the presence that travels gives nothing. *)
LEMMA UnsubscribeStep ==
    ASSUME IInv, NEW n \in Node, Unsubscribe(n)
    PROVE  IInv'
<1>1. TypeOK
  BY DEF IInv
<1>2. /\ asked' \in [Node -> BOOLEAN]
      /\ \A m \in Node : asked[m] => asked'[m]
      /\ acts' \in [Node -> 0..MaxActs]
      /\ last' \in [Node -> {"nothing", "subscribe", "unsubscribe", "remove"}]
  BY <1>1, ActsHistory DEF Unsubscribe
<1>3. /\ entry'[n] = [known |-> TRUE, to |-> FALSE, from |-> FALSE, ask |-> "unsubscribe"]
      /\ entry'[n] \in WarrantedEntry(n)'
  BY <1>1 DEF Unsubscribe, TypeOK, WarrantedEntry, Entry
<1>4. tasks'[n] = Append(tasks[n], Send("unsubscribe"))
  BY <1>1 DEF Unsubscribe, TypeOK
<1>5. Send("unsubscribe") \in WarrantedTask(n)'
  BY DEF Send, WarrantedTask, Warranted, Task, Requests, Presence
<1>6. tasks[n] \in Seq(WarrantedTask(n)')
  BY <1>2, AskingOnlyAdds, Widen DEF IInv
<1>7. tasks'[n] \in Seq(WarrantedTask(n)')
  BY <1>4, <1>5, <1>6, Add
<1>8. /\ \A m \in Node \ {n} : entry'[m] = entry[m] /\ tasks'[m] = tasks[m]
      /\ entry' = [m \in Node |-> entry'[m]]
      /\ tasks' = [m \in Node |-> tasks'[m]]
      /\ wire' = wire /\ linked' = linked /\ drops' = drops
      /\ wire' = [m \in Node |-> wire'[m]]
  BY <1>1 DEF Unsubscribe, TypeOK
<1>9. linked' \in BOOLEAN /\ drops' \in 0..MaxDrops
  BY <1>1, <1>8 DEF TypeOK
<1> QED BY <1>2, <1>3, <1>7, <1>8, <1>9, Kept

(* A user removes the contact: the entry is empty and what travels only takes away. *)
LEMMA RemoveStep ==
    ASSUME IInv, NEW n \in Node, Remove(n)
    PROVE  IInv'
<1>1. TypeOK
  BY DEF IInv
<1>2. /\ asked' \in [Node -> BOOLEAN]
      /\ \A m \in Node : asked[m] => asked'[m]
      /\ acts' \in [Node -> 0..MaxActs]
      /\ last' \in [Node -> {"nothing", "subscribe", "unsubscribe", "remove"}]
  BY <1>1, ActsHistory DEF Remove
<1>3. entry'[n] \in WarrantedEntry(n)'
  BY <1>1 DEF Remove, TypeOK, WarrantedEntry, Entry, NoEntry
<1>4. ASSUME NEW m \in Node
      PROVE  wire'[m] \in Seq(Warranted(m)') \/ wire'[m] = wire[m]
  <2>1. "unsubscribe" \in Warranted(m)'
    BY DEF Warranted, Presence, Requests
  <2>2. wire[m] \in Seq(Warranted(m)')
    BY <1>2, AskingOnlyAdds, Widen DEF IInv
  <2>3. wire'[m] = Append(wire[m], "unsubscribe") \/ wire'[m] = wire[m]
    BY <1>1, Peers DEF Remove, TypeOK
  <2> QED BY <2>1, <2>2, <2>3, Add
<1>5. /\ \A m \in Node \ {n} : entry'[m] = entry[m]
      /\ entry' = [m \in Node |-> entry'[m]]
      /\ tasks' = tasks /\ linked' = linked /\ drops' = drops
      /\ tasks' = [m \in Node |-> tasks'[m]]
      /\ wire' = [m \in Node |-> wire'[m]]
  BY <1>1 DEF Remove, TypeOK
<1>6. linked' \in BOOLEAN /\ drops' \in 0..MaxDrops
  BY <1>1, <1>5 DEF TypeOK
<1> QED BY <1>2, <1>3, <1>4, <1>5, <1>6, Kept

\* A presence that arrives is followed by nothing, or by the change of a handler
\* that has read the flags of a warranted entry.
LEMMA ReceiveStep ==
    ASSUME IInv, NEW n \in Node, Receive(n)
    PROVE  IInv'
<1> DEFINE kind == Head(wire[n])
           e == [entry[n] EXCEPT !.known = TRUE]
<1>1. TypeOK /\ UNCHANGED <<linked, drops, acts, asked, last>>
  BY DEF IInv, Receive, history
<1>2. kind \in Warranted(n) /\ Tail(wire[n]) \in Seq(Warranted(n))
  BY Cut DEF IInv, Receive
<1>3. e \in WarrantedEntry(n)
  BY DEF IInv, WarrantedEntry, Entry
<1>4. kind # "presence" => Update(kind, e) \in WarrantedTask(n)
  <2>1. e.to \in BOOLEAN /\ e.from \in BOOLEAN
    BY <1>3 DEF WarrantedEntry, Entry
  <2>2. (e.to => asked[n]) /\ (e.from => asked[Peer(n)])
    BY <1>3 DEF WarrantedEntry
  <2>3. kind # "presence" => kind \in Requests
    BY <1>2 DEF Warranted, Presence
  <2> HIDE DEF e, kind
  <2> QED BY <1>2, <2>1, <2>2, <2>3 DEF Update, WarrantedTask, Task
<1>5. /\ entry' = [entry EXCEPT ![n] = e]
      /\ wire' = [wire EXCEPT ![n] = Tail(@)]
      /\ tasks' = tasks \/ (kind # "presence"
                              /\ tasks' = [tasks EXCEPT ![n] = Append(@, Update(kind, e))])
  BY DEF Receive
<1> HIDE DEF e, kind
<1>6. \A m \in Node : entry'[m] \in WarrantedEntry(m)' \/ entry'[m] = entry[m]
  BY <1>1, <1>3, <1>5 DEF TypeOK, WarrantedEntry
<1>7. \A m \in Node : wire'[m] \in Seq(Warranted(m)') \/ wire'[m] = wire[m]
  BY <1>1, <1>2, <1>5 DEF TypeOK, Warranted
<1>8. WarrantedTask(n)' = WarrantedTask(n)
  BY <1>1 DEF WarrantedTask, Warranted
<1>9. \A m \in Node : tasks'[m] \in Seq(WarrantedTask(m)') \/ tasks'[m] = tasks[m]
  <2>1. tasks[n] \in Seq(WarrantedTask(n))
    BY DEF IInv
  <2>2. CASE kind # "presence" /\ tasks' = [tasks EXCEPT ![n] = Append(@, Update(kind, e))]
    <3>1. Append(tasks[n], Update(kind, e)) \in Seq(WarrantedTask(n)')
      BY <1>4, <1>8, <2>1, <2>2, Add
    <3> QED BY <1>1, <2>2, <3>1 DEF TypeOK
  <2> QED BY <1>5, <2>2
<1>10. /\ entry' = [m \in Node |-> entry'[m]]
       /\ tasks' = [m \in Node |-> tasks'[m]]
       /\ wire' = [m \in Node |-> wire'[m]]
  BY <1>1, <1>5 DEF TypeOK
<1>11. /\ asked' \in [Node -> BOOLEAN] /\ \A m \in Node : asked[m] => asked'[m]
       /\ linked' \in BOOLEAN /\ acts' \in [Node -> 0..MaxActs] /\ drops' \in 0..MaxDrops
       /\ last' \in [Node -> {"nothing", "subscribe", "unsubscribe", "remove"}]
  BY <1>1 DEF TypeOK
<1> QED BY <1>6, <1>7, <1>9, <1>10, <1>11, Kept

\* A handler makes its change and leaves its answer to be sent.
LEMMA UpdateEntryStep ==
    ASSUME IInv, NEW n \in Node, UpdateEntry(n)
    PROVE  IInv'
<1> DEFINE t == Head(tasks[n])
<1>1. TypeOK /\ UNCHANGED <<wire, linked, drops, acts, asked, last>>
  BY DEF IInv, UpdateEntry, history
<1>2. t \in WarrantedTask(n) /\ Tail(tasks[n]) \in Seq(WarrantedTask(n))
  BY Cut DEF IInv, UpdateEntry
<1>3. /\ t.stage = "update"
      /\ entry' = [entry EXCEPT ![n] = Updated(t)]
      /\ tasks' = [tasks EXCEPT ![n] = Tail(@) \o Answer(t)]
  BY DEF UpdateEntry
<1> HIDE DEF t
<1>4. Updated(t) \in WarrantedEntry(n) /\ Answer(t) \in Seq(WarrantedTask(n))
  BY <1>2, <1>3, HandlerWarranted
<1>5. Tail(tasks[n]) \o Answer(t) \in Seq(WarrantedTask(n))
  BY <1>2, <1>4, Join
<1>6. /\ WarrantedTask(n)' = WarrantedTask(n)
      /\ WarrantedEntry(n)' = WarrantedEntry(n)
  BY <1>1 DEF WarrantedTask, WarrantedEntry, Warranted
<1>7. /\ \A m \in Node : entry'[m] \in WarrantedEntry(m)' \/ entry'[m] = entry[m]
      /\ \A m \in Node : tasks'[m] \in Seq(WarrantedTask(m)') \/ tasks'[m] = tasks[m]
  BY <1>1, <1>3, <1>4, <1>5, <1>6 DEF TypeOK
<1>8. /\ entry' = [m \in Node |-> entry'[m]]
      /\ tasks' = [m \in Node |-> tasks'[m]]
      /\ wire' = [m \in Node |-> wire'[m]]
  BY <1>1, <1>3 DEF TypeOK
<1>9. /\ asked' \in [Node -> BOOLEAN] /\ \A m \in Node : asked[m] => asked'[m]
      /\ linked' \in BOOLEAN /\ acts' \in [Node -> 0..MaxActs] /\ drops' \in 0..MaxDrops
      /\ last' \in [Node -> {"nothing", "subscribe", "unsubscribe", "remove"}]
  BY <1>1 DEF TypeOK
<1> QED BY <1>1, <1>7, <1>8, <1>9, Kept

\* What is sent was warranted as long as it waited.
LEMMA SendPresenceStep ==
    ASSUME IInv, NEW n \in Node, SendPresence(n)
    PROVE  IInv'
<1> DEFINE t == Head(tasks[n])
<1>1. TypeOK /\ UNCHANGED <<entry, linked, drops, acts, asked, last>>
  BY DEF IInv, SendPresence, history
<1>2. t \in WarrantedTask(n) /\ Tail(tasks[n]) \in Seq(WarrantedTask(n))
  BY Cut DEF IInv, SendPresence
<1>3. /\ t.stage = "send"
      /\ tasks' = [tasks EXCEPT ![n] = Tail(@)]
      /\ wire' = wire \/ wire' = [wire EXCEPT ![Peer(n)] = @ \o Frames(t.kind)]
  BY DEF SendPresence
<1> HIDE DEF t
<1>4. Frames(t.kind) \in Seq(Warranted(Peer(n)))
  BY <1>2, <1>3, FramesWarranted, Peers DEF WarrantedTask
<1>5. wire[Peer(n)] \o Frames(t.kind) \in Seq(Warranted(Peer(n)))
  BY <1>4, Join, Peers DEF IInv
<1>6. WarrantedTask(n)' = WarrantedTask(n) /\ Warranted(Peer(n))' = Warranted(Peer(n))
  BY <1>1 DEF WarrantedTask, Warranted
<1>7. \A m \in Node : tasks'[m] \in Seq(WarrantedTask(m)') \/ tasks'[m] = tasks[m]
  BY <1>1, <1>2, <1>3, <1>6 DEF TypeOK
<1>8. \A m \in Node : wire'[m] \in Seq(Warranted(m)') \/ wire'[m] = wire[m]
  BY <1>1, <1>3, <1>5, <1>6, Peers DEF TypeOK
<1>9. /\ entry' = [m \in Node |-> entry'[m]]
      /\ tasks' = [m \in Node |-> tasks'[m]]
      /\ wire' = [m \in Node |-> wire'[m]]
  BY <1>1, <1>3 DEF TypeOK
<1>10. /\ asked' \in [Node -> BOOLEAN] /\ \A m \in Node : asked[m] => asked'[m]
       /\ linked' \in BOOLEAN /\ acts' \in [Node -> 0..MaxActs] /\ drops' \in 0..MaxDrops
       /\ last' \in [Node -> {"nothing", "subscribe", "unsubscribe", "remove"}]
  BY <1>1 DEF TypeOK
<1> QED BY <1>1, <1>7, <1>8, <1>9, <1>10, Kept

\* A new stream carries what was asked before.
LEMMA ConnectStep ==
    ASSUME IInv, Connect
    PROVE  IInv'
<1>1. TypeOK /\ UNCHANGED <<entry, tasks, drops, acts, asked, last>>
  BY DEF IInv, Connect, history
<1>2. linked' = TRUE /\ wire' = [m \in Node |-> <<"presence">> \o AskAgain(entry[Peer(m)])]
  BY DEF Connect
<1>3. ASSUME NEW m \in Node PROVE wire'[m] \in Seq(Warranted(m)')
  <2>1. entry[Peer(m)] \in WarrantedEntry(Peer(m))
    BY Peers DEF IInv
  <2>2. <<"presence">> \o AskAgain(entry[Peer(m)]) \in Seq(Warranted(Peer(Peer(m))))
    BY <2>1, AskAgainWarranted, Peers
  <2>3. Warranted(m)' = Warranted(m)
    BY <1>1 DEF Warranted
  <2> QED BY <1>2, <2>2, <2>3, Peers
<1>4. /\ entry' = [m \in Node |-> entry'[m]]
      /\ tasks' = [m \in Node |-> tasks'[m]]
      /\ wire' = [m \in Node |-> wire'[m]]
  BY <1>1, <1>2 DEF TypeOK
<1>5. /\ asked' \in [Node -> BOOLEAN] /\ \A m \in Node : asked[m] => asked'[m]
      /\ linked' \in BOOLEAN /\ acts' \in [Node -> 0..MaxActs] /\ drops' \in 0..MaxDrops
      /\ last' \in [Node -> {"nothing", "subscribe", "unsubscribe", "remove"}]
  BY <1>1, <1>2 DEF TypeOK
<1> QED BY <1>1, <1>3, <1>4, <1>5, Kept

(* A lost stream loses presences in flight, and nothing that is left is new. *)
LEMMA DisconnectStep ==
    ASSUME IInv, Disconnect
    PROVE  IInv'
<1>1. TypeOK /\ UNCHANGED <<entry, tasks, acts, asked, last>>
  BY DEF IInv, Disconnect, history
<1>2. linked' = FALSE /\ wire' = [m \in Node |-> <<>>] /\ drops' \in 0..MaxDrops
  BY <1>1, RosterAssumption DEF Disconnect, TypeOK
<1>3. ASSUME NEW m \in Node PROVE wire'[m] \in Seq(Warranted(m)')
  BY <1>2
<1>4. /\ entry' = [m \in Node |-> entry'[m]]
      /\ tasks' = [m \in Node |-> tasks'[m]]
      /\ wire' = [m \in Node |-> wire'[m]]
  BY <1>1, <1>2 DEF TypeOK
<1>5. /\ asked' \in [Node -> BOOLEAN] /\ \A m \in Node : asked[m] => asked'[m]
      /\ linked' \in BOOLEAN /\ acts' \in [Node -> 0..MaxActs]
      /\ last' \in [Node -> {"nothing", "subscribe", "unsubscribe", "remove"}]
  BY <1>1, <1>2 DEF TypeOK
<1> QED BY <1>1, <1>2, <1>3, <1>4, <1>5, Kept

(* Every step of the two rosters keeps the invariant. *)
LEMMA NextIInv == IInv /\ [Next]_vars => IInv'
<1> SUFFICES ASSUME IInv, [Next]_vars PROVE IInv'
  OBVIOUS
<1>1. CASE \E n \in Node : Subscribe(n)
  BY <1>1, SubscribeStep
<1>2. CASE \E n \in Node : Unsubscribe(n)
  BY <1>2, UnsubscribeStep
<1>3. CASE \E n \in Node : Remove(n)
  BY <1>3, RemoveStep
<1>4. CASE \E n \in Node : Receive(n)
  BY <1>4, ReceiveStep
<1>5. CASE \E n \in Node : UpdateEntry(n)
  BY <1>5, UpdateEntryStep
<1>6. CASE \E n \in Node : SendPresence(n)
  BY <1>6, SendPresenceStep
<1>7. CASE Connect
  BY <1>7, ConnectStep
<1>8. CASE Disconnect
  BY <1>8, DisconnectStep
<1>9. CASE UNCHANGED vars
  <2>1. UNCHANGED <<entry, tasks, wire, linked, drops, acts, asked, last>>
    BY <1>9 DEF vars, history
  <2>2. TypeOK'
    BY <2>1 DEF IInv, TypeOK
  <2>3. ASSUME NEW n \in Node
        PROVE  /\ Warranted(n)' = Warranted(n)
               /\ WarrantedEntry(n)' = WarrantedEntry(n)
               /\ WarrantedTask(n)' = WarrantedTask(n)
    BY <2>1 DEF Warranted, WarrantedEntry, WarrantedTask
  <2> QED BY <2>1, <2>2, <2>3 DEF IInv
<1> QED BY <1>1, <1>2, <1>3, <1>4, <1>5, <1>6, <1>7, <1>8, <1>9 DEF Next

-----------------------------------------------------------------------------
(* The theorems *)

\* Everything that can still change an entry is warranted by what the users
\* have asked for, in every reachable state.
THEOREM Warrants == Spec => []IInv
BY InitIInv, NextIInv, PTL DEF Spec

\* The state has its type.
THEOREM TypeCorrect == Spec => []TypeOK
<1>1. IInv => TypeOK
  BY DEF IInv
<1> QED BY <1>1, Warrants, PTL

\* No entry lists a node as subscribed, or its peer as a subscriber, without
\* the user concerned having asked, whatever the order in which saves end,
\* presences arrive and streams come and go.
THEOREM GrantedOnlyOnRequest == Spec => []GrantedOnlyToWhoAsked
<1>1. IInv => GrantedOnlyToWhoAsked
  BY DEF IInv, GrantedOnlyToWhoAsked, WarrantedEntry
<1> QED BY <1>1, Warrants, PTL

-----------------------------------------------------------------------------
(* The uploads *)

Phases == [pc : {"idle", "try", "meta", "blob"}, list : Lists, todo : Lists]

\* Lists on their way to each node.
Mail(F) == F = [n \in Providers |-> F[n]] /\ \A n \in Providers : IsABag(F[n])

\* What the proof needs to know of the shape of the state.
Shape ==
    /\ \A S \in {up, object, storing, told, wiped, forgot} : S \subseteq Providers
    /\ listed \in [Providers -> Lists]
    /\ looking \in [Providers -> Seq(Lists)]
    /\ Mail(inFlight)
    /\ fetch \in [Providers -> [Purposes -> Phases]]

\* Every list, wherever it is kept, names nodes that have the object, or had one that
\* a failing write took away; and so are those who are about to announce their upload.
Held == object \cup wiped
OnlyHolders(list) == list \subseteq Held

HoldersOnly ==
    /\ \A n \in Providers :
          /\ OnlyHolders(listed[n])
          /\ \A list \in DOMAIN inFlight[n] : OnlyHolders(list)
          /\ \A i \in 1..Len(looking[n]) : OnlyHolders(looking[n][i])
          /\ \A p \in Purposes : OnlyHolders(fetch[n][p].list)
    /\ OnlyHolders(storing)

\* An announcement stays with those that were up, on its way or on their list.
Remembered ==
    \A n \in up \ forgot : \A m \in (up \cap told) \ {n} :
        m \in listed[n] \/ \E list \in DOMAIN inFlight[n] : m \in list

UploadIInv == Shape /\ HoldersOnly /\ Remembered

\* One occurrence more, or less.
LEMMA OneMoreInBag ==
    ASSUME NEW B, IsABag(B), NEW x
    PROVE  IsABag(BagAdd(B, x)) /\ DOMAIN BagAdd(B, x) = DOMAIN B \cup {x}
BY DEF IsABag, BagAdd

(* A bag from which one copy was taken holds what it held, but perhaps for that element. *)
LEMMA OneLessInBag ==
    ASSUME NEW B, IsABag(B), NEW x
    PROVE  /\ IsABag(BagRemove(B, x)) /\ DOMAIN BagRemove(B, x) \subseteq DOMAIN B
           /\ DOMAIN B \subseteq DOMAIN BagRemove(B, x) \cup {x}
<1>1. CASE x \notin DOMAIN B
  BY <1>1 DEF BagRemove
<1>2. CASE x \in DOMAIN B /\ B[x] = 1
  BY <1>2 DEF IsABag, BagRemove
<1>3. CASE x \in DOMAIN B /\ B[x] # 1
  <2>1. B[x] - 1 \in {n \in Nat : n > 0}
    BY <1>3 DEF IsABag
  <2>2. BagRemove(B, x) = [e \in DOMAIN B |-> IF e = x THEN B[e] - 1 ELSE B[e]]
    BY <1>3 DEF BagRemove
  <2> QED BY <2>1, <2>2 DEF IsABag
<1> QED BY <1>1, <1>2, <1>3

(* The empty bag is a bag that holds nothing. *)
LEMMA NoneInBag == IsABag(EmptyBag) /\ DOMAIN EmptyBag = {}
BY DEF IsABag, EmptyBag, SetToBag

\* What announcing does to the lists on their way.
LEMMA AnnouncedLists ==
    ASSUME Shape, NEW n \in Providers, NEW list
    PROVE  /\ Mail(Announced(n, list))
           /\ \A m \in Providers :
                 DOMAIN Announced(n, list)[m] =
                      IF m \in up \ {n} THEN DOMAIN inFlight[m] \cup {list \cup {n}}
                      ELSE DOMAIN inFlight[m]
BY OneMoreInBag DEF Announced, Shape, Mail

\* What changes one node's alone does.
LEMMA OneMailbox ==
    ASSUME NEW F, Mail(F), NEW n \in Providers, NEW B, IsABag(B)
    PROVE  /\ Mail([F EXCEPT ![n] = B]) /\ [F EXCEPT ![n] = B][n] = B
           /\ \A m \in Providers \ {n} : [F EXCEPT ![n] = B][m] = F[m]
BY DEF Mail


\* What a node remembers or is fetching keeps its type.
LEMMA FetchTyped ==
    ASSUME Shape, NEW n \in Providers, NEW p \in Purposes, NEW f \in Phases,
           fetch' = [fetch EXCEPT ![n][p] = f]
    PROVE  /\ fetch' \in [Providers -> [Purposes -> Phases]]
           /\ fetch'[n][p] = f
           /\ \A m \in Providers, q \in Purposes :
                 (m # n \/ q # p) => fetch'[m][q] = fetch[m][q]
BY DEF Shape

(* A fetch that is not under way has its type and an empty list. *)
LEMMA NoFetchTyped == NoFetch \in Phases /\ NoFetch.list = {}
BY DEF NoFetch, Phases, Lists

\* A prefetch has the list it is given.
LEMMA PrefetchTyped ==
    ASSUME Shape, NEW n \in Providers, NEW list \in Lists, StartsPrefetch(n, list)
    PROVE  /\ fetch' \in [Providers -> [Purposes -> Phases]]
           /\ \A m \in Providers, q \in Purposes :
                 fetch'[m][q] = fetch[m][q] \/ (m = n /\ fetch'[m][q].list = list)
<1> DEFINE f == [pc |-> "try", list |-> list, todo |-> list]
<1>1. f \in Phases /\ f.list = list /\ "prefetch" \in Purposes
  BY DEF Phases, Purposes, Lists
<1>2. fetch' = [fetch EXCEPT ![n]["prefetch"] = f] \/ fetch' = fetch
  BY DEF StartsPrefetch, Fetching
<1> HIDE DEF f
<1>3. CASE fetch' = [fetch EXCEPT ![n]["prefetch"] = f]
  <2>1. /\ fetch' \in [Providers -> [Purposes -> Phases]]
        /\ fetch'[n]["prefetch"] = f
        /\ \A m \in Providers, q \in Purposes :
              (m # n \/ q # "prefetch") => fetch'[m][q] = fetch[m][q]
    <3>1. fetch \in [Providers -> [Purposes -> Phases]]
      BY DEF Shape
    <3> QED BY <1>1, <1>3, <3>1
  <2> QED BY <1>1, <2>1
<1>4. CASE fetch' = fetch
  BY <1>4 DEF Shape
<1> QED BY <1>2, <1>3, <1>4

(* Every step keeps the shapes of what travels and of the fetches. *)
LEMMA ShapeStep == ASSUME Shape, UploadNext PROVE Shape'
<1> DEFINE Sets == \A S \in {up, object, storing, told, wiped, forgot} : S \subseteq Providers
<1>0. /\ Sets /\ listed \in [Providers -> Lists] /\ looking \in [Providers -> Seq(Lists)]
      /\ Mail(inFlight) /\ fetch \in [Providers -> [Purposes -> Phases]]
  BY DEF Shape
<1>1. PICK n \in Providers :
        \/ \E list \in Lists : HearsList(n, list)
        \/ FindsOwnCopy(n) \/ GetFetches(n)
        \/ UserUploads(n) \/ AnnouncesUpload(n) \/ ClosesNode(n)
        \/ \E p \in Purposes :
              \/ HasNoProvider(n, p) \/ StoresMeta(n, p) \/ StoresCopy(n, p)
              \/ \E q \in Providers : TriesProvider(n, p, q)
  BY DEF UploadNext
<1>2. ASSUME NEW list \in Lists, HearsList(n, list) PROVE Shape'
  <2> DEFINE merged == Merged(n, list)
  <2>1. merged \in Lists
    BY <1>0 DEF Merged, Lists
  <2>2. /\ listed' = [listed EXCEPT ![n] = merged]
        /\ looking' = [looking EXCEPT ![n] = Append(@, merged)] \/ looking' = looking
        /\ StartsPrefetch(n, merged) \/ fetch' = fetch
        /\ inFlight' = [inFlight EXCEPT ![n] = BagRemove(@, list)]
        /\ UNCHANGED <<up, object, storing, told, wiped, forgot>>
    BY <1>2 DEF HearsList
  <2> HIDE DEF merged
  <2>3. fetch' \in [Providers -> [Purposes -> Phases]]
    BY <1>0, <2>1, <2>2, PrefetchTyped
  <2>4. Mail(inFlight')
    <3>1. IsABag(BagRemove(inFlight[n], list))
      BY <1>0, OneLessInBag DEF Mail
    <3>2. inFlight' = [inFlight EXCEPT ![n] = BagRemove(inFlight[n], list)]
      BY <2>2
    <3> QED BY <1>0, <3>1, <3>2, OneMailbox
  <2>5. listed' \in [Providers -> Lists] /\ looking' \in [Providers -> Seq(Lists)]
    <3>1. Append(looking[n], merged) \in Seq(Lists)
      BY <1>0, <2>1
    <3> DEFINE s == Append(looking[n], merged)
    <3>2. looking' = [looking EXCEPT ![n] = s] \/ looking' = looking
      BY <2>2
    <3> HIDE DEF s
    <3>3. s \in Seq(Lists)
      BY <3>1 DEF s
    <3>4. looking' \in [Providers -> Seq(Lists)]
      BY <1>0, <3>2, <3>3
    <3> QED BY <1>0, <2>1, <2>2, <3>4
  <2> QED BY <1>0, <2>2, <2>3, <2>4, <2>5 DEF Shape
<1>3. ASSUME FindsOwnCopy(n) PROVE Shape'
  <2> DEFINE merged == Head(looking[n])
  <2>1. merged \in Lists /\ looking' \in [Providers -> Seq(Lists)]
    BY <1>0, <1>3 DEF FindsOwnCopy
  <2>2. \/ /\ listed' = [listed EXCEPT ![n] = merged \cup {n}]
           /\ forgot' \subseteq forgot \cup {n} /\ told' = told \cup {n}
           /\ inFlight' = Announced(n, merged) /\ fetch' = fetch
        \/ StartsPrefetch(n, merged) /\ UNCHANGED <<listed, inFlight, told, forgot>>
    BY <1>3 DEF FindsOwnCopy
  <2>3. UNCHANGED <<up, object, storing, wiped>>
    BY <1>3 DEF FindsOwnCopy
  <2> HIDE DEF merged
  <2>4. fetch' \in [Providers -> [Purposes -> Phases]]
    BY <1>0, <2>1, <2>2, PrefetchTyped
  <2>5. Mail(inFlight')
    BY <1>0, <2>1, <2>2, AnnouncedLists
  <2>6. listed' \in [Providers -> Lists]
    BY <1>0, <2>1, <2>2 DEF Lists
  <2>7. Sets'
    BY <1>0, <2>2, <2>3
  <2> QED BY <2>1, <2>4, <2>5, <2>6, <2>7 DEF Shape
<1>4. ASSUME GetFetches(n) PROVE Shape'
  <2> DEFINE f == [pc |-> "try", list |-> listed[n], todo |-> listed[n]]
  <2>1. f \in Phases /\ "get" \in Purposes
    BY <1>0 DEF Phases, Purposes
  <2>2. /\ fetch' = [fetch EXCEPT ![n]["get"] = f]
        /\ UNCHANGED <<up, object, listed, looking, storing, inFlight, told, wiped, forgot>>
    BY <1>4 DEF GetFetches, Fetching
  <2> HIDE DEF f
  <2>3. fetch' \in [Providers -> [Purposes -> Phases]]
    BY <2>1, <2>2, FetchTyped
  <2> QED BY <1>0, <2>2, <2>3 DEF Shape
<1>5. ASSUME NEW p \in Purposes,
             \/ HasNoProvider(n, p) \/ StoresMeta(n, p) \/ StoresCopy(n, p)
             \/ \E q \in Providers : TriesProvider(n, p, q)
      PROVE  Shape'
  <2>1. PICK f \in Phases : fetch' = [fetch EXCEPT ![n][p] = f]
    <3>1. fetch[n][p].list \in Lists /\ fetch[n][p].todo \in Lists
      BY <1>0 DEF Phases
    <3> DEFINE g(pc, todo) == [pc |-> pc, list |-> fetch[n][p].list, todo |-> todo]
    <3>2. /\ \A q : g("try", fetch[n][p].todo \ {q}) \in Phases
          /\ g("meta", {}) \in Phases /\ g("blob", {}) \in Phases
      BY <3>1 DEF Phases, Lists
    <3> QED BY <1>5, <3>2, NoFetchTyped
            DEF HasNoProvider, StoresMeta, StoresCopy, TriesProvider, Fetching, FetchEnds
  <2>2. fetch' \in [Providers -> [Purposes -> Phases]]
    BY <2>1, FetchTyped
  <2>3. /\ UNCHANGED <<up, listed, looking, storing, forgot>>
        /\ object' \subseteq object \cup {n} /\ wiped' \subseteq wiped \cup {n}
        /\ told' \subseteq told \cup {n}
        /\ inFlight' = inFlight \/ inFlight' = Announced(n, fetch[n][p].list)
    BY <1>5 DEF HasNoProvider, StoresMeta, StoresCopy, TriesProvider
  <2>4. Mail(inFlight')
    BY <1>0, <2>3, AnnouncedLists
  <2>5. Sets'
    BY <1>0, <2>3
  <2> QED BY <1>0, <2>2, <2>3, <2>4, <2>5 DEF Shape
<1>6. ASSUME UserUploads(n) PROVE Shape'
  BY <1>0, <1>6 DEF UserUploads, Shape
<1>7. ASSUME AnnouncesUpload(n) PROVE Shape'
  <2>1. /\ UNCHANGED <<up, object, looking, fetch, wiped>>
        /\ storing' \subseteq storing /\ told' \subseteq told \cup {n}
        /\ forgot' \subseteq forgot \cup {n}
        /\ listed' = listed \/ listed' = [listed EXCEPT ![n] = {}]
        /\ inFlight' = inFlight \/ inFlight' = Announced(n, {})
    BY <1>7 DEF AnnouncesUpload
  <2>2. Mail(inFlight')
    BY <1>0, <2>1, AnnouncedLists
  <2>3. listed' \in [Providers -> Lists]
    BY <1>0, <2>1 DEF Lists
  <2>4. Sets'
    BY <1>0, <2>1
  <2> QED BY <1>0, <2>1, <2>2, <2>3, <2>4 DEF Shape
<1>8. ASSUME ClosesNode(n) PROVE Shape'
  <2>1. /\ up' = up \ {n} /\ storing' = storing \ {n}
        /\ inFlight' = [inFlight EXCEPT ![n] = EmptyBag]
        /\ looking' = [looking EXCEPT ![n] = <<>>]
        /\ fetch' = [fetch EXCEPT ![n] = [p \in Purposes |-> NoFetch]]
        /\ UNCHANGED <<object, listed, told, wiped, forgot>>
    BY <1>8 DEF ClosesNode
  <2>2. fetch' \in [Providers -> [Purposes -> Phases]]
    BY <1>0, <2>1, NoFetchTyped
  <2>3. looking' \in [Providers -> Seq(Lists)]
    BY <1>0, <2>1
  <2>4. Mail(inFlight')
    BY <1>0, <2>1, NoneInBag, OneMailbox
  <2> QED BY <1>0, <2>1, <2>2, <2>3, <2>4 DEF Shape
<1> QED BY <1>1, <1>2, <1>3, <1>4, <1>5, <1>6, <1>7, <1>8

\* A step may put lists of those who hold, then, where lists are kept; and nothing
\* that was held is held no more.
HeldGrows == Held \subseteq Held'
ListedHolders == \A m \in Providers : listed'[m] = listed[m] \/ listed'[m] \subseteq Held'
MailedHolders == \A m \in Providers : \A l \in DOMAIN inFlight'[m] :
                    l \in DOMAIN inFlight[m] \/ l \subseteq Held'
LookedHolders == \A m \in Providers :
                    looking'[m] = looking[m]
                    \/ \A i \in 1..Len(looking'[m]) : looking'[m][i] \subseteq Held'
FetchHolders == \A m \in Providers, p \in Purposes :
                    fetch'[m][p].list = fetch[m][p].list \/ fetch'[m][p].list \subseteq Held'

(* When holders are not lost, and every list a step stores, sends or keeps names holders only,
   the lists go on naming holders only. *)
LEMMA HoldersKept ==
    ASSUME HoldersOnly, HeldGrows, ListedHolders, MailedHolders, LookedHolders,
           FetchHolders, storing' \subseteq Held'
    PROVE  HoldersOnly'
<1>1. \A m \in Providers : listed'[m] \subseteq Held'
  BY DEF HoldersOnly, OnlyHolders, HeldGrows, ListedHolders
<1>2. \A m \in Providers : \A l \in DOMAIN inFlight'[m] : l \subseteq Held'
  BY DEF HoldersOnly, OnlyHolders, HeldGrows, MailedHolders
<1>3. \A m \in Providers : \A i \in 1..Len(looking'[m]) : looking'[m][i] \subseteq Held'
  <2> TAKE m \in Providers
  <2>1. CASE looking'[m] = looking[m]
    BY <2>1 DEF HoldersOnly, OnlyHolders, HeldGrows
  <2> QED BY <2>1 DEF LookedHolders
<1>4. \A m \in Providers, p \in Purposes : fetch'[m][p].list \subseteq Held'
  BY DEF HoldersOnly, OnlyHolders, HeldGrows, FetchHolders
<1> QED BY <1>1, <1>2, <1>3, <1>4 DEF HoldersOnly, OnlyHolders

\* Nothing that was held is held no more, and who announces a list holds.
LEMMA HoldersStep == ASSUME UploadIInv, UploadNext PROVE HoldersOnly'
<1>0. Shape /\ HoldersOnly
  BY DEF UploadIInv
<1>1. PICK n \in Providers :
        \/ \E list \in Lists : HearsList(n, list)
        \/ FindsOwnCopy(n) \/ GetFetches(n)
        \/ UserUploads(n) \/ AnnouncesUpload(n) \/ ClosesNode(n)
        \/ \E p \in Purposes :
              \/ HasNoProvider(n, p) \/ StoresMeta(n, p) \/ StoresCopy(n, p)
              \/ \E q \in Providers : TriesProvider(n, p, q)
  BY DEF UploadNext
<1>3. /\ \A m \in Providers :
            /\ listed[m] \subseteq Held
            /\ \A list \in DOMAIN inFlight[m] : list \subseteq Held
            /\ \A i \in 1..Len(looking[m]) : looking[m][i] \subseteq Held
            /\ \A p \in Purposes : fetch[m][p].list \subseteq Held
      /\ storing \subseteq Held
  BY <1>0 DEF HoldersOnly, OnlyHolders
\* Who announces a list of holders, and holds.
<1>5. ASSUME NEW list, list \subseteq Held', n \in Held',
             inFlight' = inFlight \/ inFlight' = Announced(n, list)
      PROVE  MailedHolders
  <2>1. list \cup {n} \subseteq Held'
    BY <1>5
  <2>2. CASE inFlight' = Announced(n, list)
    <3>1. \A m \in Providers :
            DOMAIN Announced(n, list)[m] =
              IF m \in up \ {n} THEN DOMAIN inFlight[m] \cup {list \cup {n}}
              ELSE DOMAIN inFlight[m]
      BY <1>0, AnnouncedLists
    <3>2. \A m \in Providers : DOMAIN inFlight'[m] \subseteq DOMAIN inFlight[m] \cup {list \cup {n}}
      BY <2>2, <3>1
    <3> QED BY <2>1, <3>2 DEF MailedHolders
  <2> QED BY <1>5, <2>2 DEF MailedHolders
<1>6. ASSUME NEW list \in Lists, HearsList(n, list) PROVE HoldersOnly'
  <2> DEFINE merged == Merged(n, list)
  <2>1. /\ list \in DOMAIN inFlight[n]
        /\ listed' = [listed EXCEPT ![n] = merged]
        /\ looking' = [looking EXCEPT ![n] = Append(@, merged)] \/ looking' = looking
        /\ StartsPrefetch(n, merged) \/ fetch' = fetch
        /\ inFlight' = [inFlight EXCEPT ![n] = BagRemove(@, list)]
        /\ UNCHANGED <<up, object, storing, told, wiped, forgot>>
    BY <1>6 DEF HearsList, BagIn, BagToSet
  <2>2. Held' = Held
    BY <2>1 DEF Held
  <2>3. merged \subseteq Held' /\ merged \in Lists
    BY <1>0, <1>3, <2>1, <2>2 DEF Merged, Shape, Lists
  <2> HIDE DEF merged
  <2>4. \A m \in Providers, p \in Purposes :
           fetch'[m][p].list = fetch[m][p].list \/ fetch'[m][p].list = merged
    BY <1>0, <2>1, <2>3, PrefetchTyped
  <2>5. \A m \in Providers : DOMAIN inFlight'[m] \subseteq DOMAIN inFlight[m]
    <3>1. Mail(inFlight)
      BY <1>0 DEF Shape
    <3>2. IsABag(BagRemove(inFlight[n], list))
          /\ DOMAIN BagRemove(inFlight[n], list) \subseteq DOMAIN inFlight[n]
      BY <3>1, OneLessInBag DEF Mail
    <3>3. inFlight' = [inFlight EXCEPT ![n] = BagRemove(inFlight[n], list)]
      BY <2>1
    <3> QED BY <3>1, <3>2, <3>3, OneMailbox
  <2>6. LookedHolders
    <3>1. Append(looking[n], merged) \in Seq(Lists)
          /\ \A i \in 1..Len(Append(looking[n], merged)) :
                Append(looking[n], merged)[i] \in {looking[n][j] : j \in 1..Len(looking[n])}
                                                  \cup {merged}
      BY <1>0, <2>3 DEF Shape
    <3>2. \A i \in 1..Len(Append(looking[n], merged)) :
             Append(looking[n], merged)[i] \subseteq Held'
      BY <1>3, <2>2, <2>3, <3>1
    <3> DEFINE s == Append(looking[n], merged)
    <3>3. (looking' = [looking EXCEPT ![n] = s] \/ looking' = looking)
          /\ looking \in [Providers -> Seq(Lists)]
      BY <1>0, <2>1 DEF Shape
    <3>4. \A i \in 1..Len(s) : s[i] \subseteq Held'
      BY <3>2
    <3> HIDE DEF s
    <3> QED BY <3>3, <3>4 DEF LookedHolders
  <2>7. ListedHolders
    BY <1>0, <2>1, <2>3 DEF Shape, ListedHolders
  <2> QED BY <1>0, <1>3, <2>1, <2>2, <2>3, <2>4, <2>5, <2>6, <2>7, HoldersKept
         DEF HeldGrows, ListedHolders, MailedHolders, LookedHolders, FetchHolders
<1>7. ASSUME FindsOwnCopy(n) PROVE HoldersOnly'
  <2> DEFINE merged == Head(looking[n])
  <2>1. /\ looking[n] # <<>> /\ looking' = [looking EXCEPT ![n] = Tail(@)]
        /\ UNCHANGED <<up, object, storing, wiped>>
        /\ \/ /\ listed' = [listed EXCEPT ![n] = merged \cup {n}] /\ n \in object
              /\ inFlight' = Announced(n, merged) /\ fetch' = fetch
           \/ StartsPrefetch(n, merged) /\ UNCHANGED <<listed, inFlight>>
    BY <1>7 DEF FindsOwnCopy
  <2>2. Held' = Held /\ (n \in object => n \in Held')
    BY <2>1 DEF Held
  <2>3. merged \subseteq Held' /\ merged \in Lists
    <3>1. looking[n] \in Seq(Lists)
      BY <1>0 DEF Shape
    <3>2. merged = looking[n][1] /\ 1 \in 1..Len(looking[n]) /\ merged \in Lists
      BY <2>1, <3>1
    <3> QED BY <1>3, <2>2, <3>2
  <2> HIDE DEF merged
  <2>4. \A m \in Providers, p \in Purposes :
           fetch'[m][p].list = fetch[m][p].list \/ fetch'[m][p].list = merged
    BY <1>0, <2>1, <2>3, PrefetchTyped
  <2>5. MailedHolders
    <3>1. CASE inFlight' = inFlight
      BY <3>1 DEF MailedHolders
    <3>2. CASE inFlight' = Announced(n, merged) /\ n \in Held'
      BY <1>5, <2>3, <3>2
    <3> QED BY <2>1, <2>2, <3>1, <3>2
  <2>6. LookedHolders
    <3> DEFINE s == Tail(looking[n])
    <3>1. looking[n] \in Seq(Lists) /\ looking[n] # <<>> /\ looking \in [Providers -> Seq(Lists)]
      BY <1>0, <2>1 DEF Shape
    <3>2. \A i \in 1..Len(s) : i + 1 \in 1..Len(looking[n]) /\ s[i] = looking[n][i + 1]
      BY <3>1
    <3>3. \A i \in 1..Len(s) : s[i] \subseteq Held'
      BY <1>3, <2>2, <3>2
    <3>4. looking' = [looking EXCEPT ![n] = s]
      BY <2>1
    <3> HIDE DEF s
    <3> QED BY <3>1, <3>3, <3>4 DEF LookedHolders
  <2>7. ListedHolders
    BY <1>0, <2>1, <2>2, <2>3 DEF Shape, ListedHolders
  <2> QED BY <1>0, <1>3, <2>1, <2>2, <2>3, <2>4, <2>5, <2>6, <2>7, HoldersKept
         DEF HeldGrows, ListedHolders, MailedHolders, LookedHolders, FetchHolders
<1>8. ASSUME GetFetches(n) PROVE HoldersOnly'
  <2> DEFINE f == [pc |-> "try", list |-> listed[n], todo |-> listed[n]]
  <2>1. f \in Phases /\ f.list = listed[n] /\ "get" \in Purposes
    BY <1>0 DEF Phases, Purposes, Shape
  <2>2. /\ fetch' = [fetch EXCEPT ![n]["get"] = f]
        /\ UNCHANGED <<up, object, listed, looking, storing, inFlight, told, wiped, forgot>>
    BY <1>8 DEF GetFetches, Fetching
  <2>3. Held' = Held
    BY <2>2 DEF Held
  <2> HIDE DEF f
  <2>4. /\ fetch'[n]["get"] = f
        /\ \A m \in Providers, q \in Purposes :
              (m # n \/ q # "get") => fetch'[m][q] = fetch[m][q]
    <3>1. fetch \in [Providers -> [Purposes -> Phases]]
      BY <1>0 DEF Shape
    <3>2. fetch' = [fetch EXCEPT ![n]["get"] = f]
      BY <2>2
    <3> QED BY <2>1, <3>1, <3>2
  <2> QED BY <1>0, <1>3, <2>1, <2>2, <2>3, <2>4, HoldersKept
         DEF HeldGrows, ListedHolders, MailedHolders, LookedHolders, FetchHolders
<1>9. ASSUME \E p \in Purposes :
                \/ HasNoProvider(n, p) \/ StoresMeta(n, p) \/ StoresCopy(n, p)
                \/ \E q \in Providers : TriesProvider(n, p, q)
      PROVE  HoldersOnly'
  <2>0. PICK p \in Purposes : \/ HasNoProvider(n, p) \/ StoresMeta(n, p) \/ StoresCopy(n, p)
                              \/ \E q \in Providers : TriesProvider(n, p, q)
    BY <1>9
  <2>1. PICK f \in Phases : fetch' = [fetch EXCEPT ![n][p] = f]
                            /\ f.list \in {fetch[n][p].list, {}}
    <3>1. fetch[n][p].list \in Lists /\ fetch[n][p].todo \in Lists
      BY <1>0 DEF Phases, Shape
    <3> DEFINE g(pc, todo) == [pc |-> pc, list |-> fetch[n][p].list, todo |-> todo]
    <3>2. /\ \A q : g("try", fetch[n][p].todo \ {q}) \in Phases
          /\ g("meta", {}) \in Phases /\ g("blob", {}) \in Phases
          /\ \A pc, todo : g(pc, todo).list = fetch[n][p].list
      BY <3>1 DEF Phases, Lists
    <3>3. CASE HasNoProvider(n, p) \/ StoresCopy(n, p)
      <4>1. fetch' = [fetch EXCEPT ![n][p] = NoFetch]
        BY <3>3 DEF HasNoProvider, StoresCopy, FetchEnds
      <4> QED BY <4>1, NoFetchTyped
    <3>4. CASE StoresMeta(n, p)
      <4>1. \/ fetch' = [fetch EXCEPT ![n][p] = g("blob", {})]
            \/ fetch' = [fetch EXCEPT ![n][p] = NoFetch]
        BY <3>4 DEF StoresMeta, Fetching, FetchEnds
      <4> QED BY <4>1, <3>2, NoFetchTyped
    <3>5. ASSUME NEW q \in Providers, TriesProvider(n, p, q)
          PROVE  \E x \in Phases : /\ fetch' = [fetch EXCEPT ![n][p] = x]
                                   /\ x.list \in {fetch[n][p].list, {}}
      <4>1. \/ fetch' = [fetch EXCEPT ![n][p] = g("try", fetch[n][p].todo \ {q})]
            \/ fetch' = [fetch EXCEPT ![n][p] = g("meta", {})]
        BY <3>5 DEF TriesProvider, Fetching
      <4> DEFINE x == g("try", fetch[n][p].todo \ {q})
                 y == g("meta", {})
      <4>2. x \in Phases /\ x.list = fetch[n][p].list /\ y \in Phases /\ y.list = fetch[n][p].list
        BY <3>2
      <4>3. fetch' = [fetch EXCEPT ![n][p] = x] \/ fetch' = [fetch EXCEPT ![n][p] = y]
        BY <4>1
      <4> HIDE DEF x, y
      <4> QED BY <4>2, <4>3
    <3> QED BY <2>0, <3>3, <3>4, <3>5
  <2>2. /\ fetch'[n][p] = f
        /\ \A m \in Providers, q \in Purposes :
              (m # n \/ q # p) => fetch'[m][q] = fetch[m][q]
    <3>1. fetch' = [fetch EXCEPT ![n][p] = f]
      BY <2>1
    <3>2. fetch \in [Providers -> [Purposes -> Phases]]
      BY <1>0 DEF Shape
    <3> QED BY <3>1, <3>2
  <2>3. /\ UNCHANGED <<up, listed, looking, storing, forgot>>
        /\ \/ object' = object \ {n} /\ wiped' = wiped \cup (object \cap {n})
           \/ object' \in {object, object \cup {n}} /\ wiped' = wiped
        /\ inFlight' = inFlight
           \/ (inFlight' = Announced(n, fetch[n][p].list) /\ n \in object')
    BY <2>0 DEF HasNoProvider, StoresMeta, StoresCopy, TriesProvider
  <2>4. Held \subseteq Held' /\ (n \in object' => n \in Held')
    BY <2>3 DEF Held
  <2>5. MailedHolders
    <3>1. CASE inFlight' = inFlight
      BY <3>1 DEF MailedHolders
    <3>2. CASE inFlight' = Announced(n, fetch[n][p].list) /\ n \in Held'
      BY <1>3, <1>5, <2>4, <3>2
    <3> QED BY <2>3, <2>4, <3>1, <3>2
  <2>6. \A m \in Providers, q \in Purposes :
           fetch'[m][q].list = fetch[m][q].list \/ fetch'[m][q].list = {}
    BY <2>1, <2>2
  <2> QED BY <1>0, <1>3, <2>3, <2>4, <2>5, <2>6, HoldersKept
         DEF HeldGrows, ListedHolders, MailedHolders, LookedHolders, FetchHolders
<1>10. ASSUME UserUploads(n) PROVE HoldersOnly'
  <2>1. /\ object' = object \cup {n} /\ storing' = storing \cup {n}
        /\ UNCHANGED <<up, listed, looking, fetch, inFlight, told, wiped, forgot>>
    BY <1>10 DEF UserUploads
  <2>2. Held' = Held \cup {n}
    BY <2>1 DEF Held
  <2> QED BY <1>0, <1>3, <2>1, <2>2, HoldersKept
         DEF HeldGrows, ListedHolders, MailedHolders, LookedHolders, FetchHolders
<1>11. ASSUME AnnouncesUpload(n) PROVE HoldersOnly'
  <2>1. /\ UNCHANGED <<up, object, looking, fetch, wiped>>
        /\ n \in storing /\ storing' \subseteq storing
        /\ listed' = listed \/ listed' = [listed EXCEPT ![n] = {}]
        /\ inFlight' = inFlight \/ inFlight' = Announced(n, {})
    BY <1>11 DEF AnnouncesUpload
  <2>2. Held' = Held
    BY <2>1 DEF Held
  <2>3. n \in Held'
    BY <1>3, <2>1, <2>2
  <2>4. MailedHolders
    BY <1>5, <2>1, <2>3
  <2>5. ListedHolders
    BY <1>0, <2>1 DEF Shape, ListedHolders
  <2> QED BY <1>0, <1>3, <2>1, <2>2, <2>4, <2>5, HoldersKept
         DEF HeldGrows, ListedHolders, MailedHolders, LookedHolders, FetchHolders
<1>12. ASSUME ClosesNode(n) PROVE HoldersOnly'
  <2>1. /\ storing' = storing \ {n}
        /\ inFlight' = [inFlight EXCEPT ![n] = EmptyBag]
        /\ looking' = [looking EXCEPT ![n] = <<>>]
        /\ fetch' = [fetch EXCEPT ![n] = [p \in Purposes |-> NoFetch]]
        /\ UNCHANGED <<object, listed, told, wiped, forgot>>
    BY <1>12 DEF ClosesNode
  <2>2. Held' = Held
    BY <2>1 DEF Held
  <2>3. \A m \in Providers : DOMAIN inFlight'[m] \subseteq DOMAIN inFlight[m]
    BY <1>0, <2>1, NoneInBag, OneMailbox DEF Shape
  <2>4. LookedHolders
    BY <1>0, <2>1 DEF Shape, LookedHolders
  <2>5. \A m \in Providers, q \in Purposes :
           fetch'[m][q].list = fetch[m][q].list \/ fetch'[m][q].list = {}
    BY <1>0, <2>1, NoFetchTyped DEF Shape
  <2> QED BY <1>0, <1>3, <2>1, <2>2, <2>3, <2>4, <2>5, HoldersKept
         DEF HeldGrows, ListedHolders, MailedHolders, LookedHolders, FetchHolders
<1> QED BY <1>1, <1>6, <1>7, <1>8, <1>9, <1>10, <1>11, <1>12

\* That x knows, or will hear, of the copy of m.
Knows(x, m) == m \in listed[x] \/ \E list \in DOMAIN inFlight[x] : m \in list

\* A step may not let one who stays up, and does not forget, know less of the others;
\* and all who are up must know of one who announces.
NobodyForgets ==
    \A x \in up' \ forgot' : \A m \in up \ {x} : Knows(x, m) => Knows(x, m)'
AllAreTold == \A m \in told' \ told : \A x \in up \ {m} : Knows(x, m)'

(* When no list forgets anybody, and whoever has just told of its copy is on all lists, the
   lists go on naming all holders. *)
LEMMA RememberedKept ==
    ASSUME Remembered, up' \subseteq up, forgot \subseteq forgot', NobodyForgets, AllAreTold
    PROVE  Remembered'
<1>1. \A x \in up' \ forgot' : \A m \in (up' \cap told') \ {x} : Knows(x, m)'
  <2> TAKE x \in up' \ forgot'
  <2> TAKE m \in (up' \cap told') \ {x}
  <2>1. CASE m \in told
    BY <2>1 DEF Remembered, Knows, NobodyForgets
  <2>2. CASE m \notin told
    BY <2>2 DEF AllAreTold
  <2> QED BY <2>1, <2>2
<1> QED BY <1>1 DEF Remembered, Knows

\* Who announces tells all the others, and takes nothing from them.
LEMMA AnnouncedIsKnown ==
    ASSUME Shape, NEW n \in up, NEW list, inFlight' = Announced(n, list),
           told' = told \cup {n},
           \A x \in Providers : listed'[x] = listed[x] \/ x = n,
           n \in forgot' \/ listed[n] \subseteq listed'[n], up' = up
    PROVE  NobodyForgets /\ AllAreTold
<1>1. up \subseteq Providers /\ n \in Providers
  BY DEF Shape
<1>2. \A m \in Providers :
         DOMAIN inFlight'[m] = IF m \in up \ {n} THEN DOMAIN inFlight[m] \cup {list \cup {n}}
                               ELSE DOMAIN inFlight[m]
  <2>1. \A m \in Providers :
           DOMAIN Announced(n, list)[m] =
             IF m \in up \ {n} THEN DOMAIN inFlight[m] \cup {list \cup {n}}
             ELSE DOMAIN inFlight[m]
    BY <1>1, AnnouncedLists
  <2> QED BY <2>1
<1>3. \A x \in up \ {n} : Knows(x, n)'
  <2> TAKE x \in up \ {n}
  <2>1. list \cup {n} \in DOMAIN inFlight'[x]
    BY <1>1, <1>2
  <2>2. n \in list \cup {n}
    OBVIOUS
  <2> QED BY <2>1, <2>2 DEF Knows
<1>4. AllAreTold
  BY <1>3 DEF AllAreTold
<1>5. \A x \in up : DOMAIN inFlight[x] \subseteq DOMAIN inFlight'[x]
  BY <1>1, <1>2
<1>6. \A x \in up \ forgot' : listed[x] \subseteq listed'[x]
  BY <1>1
<1>7. NobodyForgets
  BY <1>5, <1>6 DEF NobodyForgets, Knows
<1> QED BY <1>4, <1>7

\* What is on its way is on the list once it is heard, and no list is lost.
LEMMA RememberedStep == ASSUME UploadIInv, UploadNext PROVE Remembered'
<1>0. Shape /\ Remembered
  BY DEF UploadIInv
<1>1. PICK n \in Providers :
        \/ \E list \in Lists : HearsList(n, list)
        \/ FindsOwnCopy(n) \/ GetFetches(n)
        \/ UserUploads(n) \/ AnnouncesUpload(n) \/ ClosesNode(n)
        \/ \E p \in Purposes :
              \/ HasNoProvider(n, p) \/ StoresMeta(n, p) \/ StoresCopy(n, p)
              \/ \E q \in Providers : TriesProvider(n, p, q)
  BY DEF UploadNext
<1>2. ASSUME UNCHANGED <<up, listed, inFlight, told, forgot>> PROVE Remembered'
  BY <1>0, <1>2 DEF Remembered
<1>3. ASSUME NEW list \in Lists, HearsList(n, list) PROVE Remembered'
  <2>1. /\ list \in DOMAIN inFlight[n]
        /\ listed' = [listed EXCEPT ![n] = listed[n] \cup list]
        /\ inFlight' = [inFlight EXCEPT ![n] = BagRemove(inFlight[n], list)]
        /\ UNCHANGED <<up, told, forgot>>
    BY <1>3 DEF HearsList, Merged, BagIn, BagToSet
  <2>2. up \subseteq Providers /\ Mail(inFlight) /\ listed \in [Providers -> Lists]
    BY <1>0 DEF Shape
  <2>3. /\ IsABag(BagRemove(inFlight[n], list))
        /\ DOMAIN inFlight[n] \subseteq DOMAIN BagRemove(inFlight[n], list) \cup {list}
    BY <2>2, OneLessInBag DEF Mail
  <2>4. /\ DOMAIN inFlight[n] \subseteq DOMAIN inFlight'[n] \cup {list}
        /\ \A x \in Providers \ {n} : inFlight'[x] = inFlight[x]
    BY <2>1, <2>2, <2>3, OneMailbox
  <2>5. /\ listed'[n] = listed[n] \cup list
        /\ \A x \in Providers \ {n} : listed'[x] = listed[x]
    BY <2>1, <2>2
  <2>6. NobodyForgets
    BY <2>1, <2>2, <2>4, <2>5 DEF NobodyForgets, Knows
  <2>7. AllAreTold
    BY <2>1 DEF AllAreTold
  <2> QED BY <1>0, <2>1, <2>6, <2>7, RememberedKept
<1>4. ASSUME FindsOwnCopy(n) PROVE Remembered'
  <2> DEFINE merged == Head(looking[n])
  <2>1. CASE n \in object /\ n \notin merged
    <3>1. /\ n \in up /\ inFlight' = Announced(n, merged) /\ told' = told \cup {n}
          /\ listed' = [listed EXCEPT ![n] = merged \cup {n}]
          /\ forgot' = IF listed[n] \subseteq merged \cup {n} THEN forgot
                       ELSE forgot \cup {n}
          /\ up' = up
      BY <1>4, <2>1 DEF FindsOwnCopy
    <3>2. listed \in [Providers -> Lists]
      BY <1>0 DEF Shape
    <3> HIDE DEF merged
    <3>3. /\ \A x \in Providers : listed'[x] = listed[x] \/ x = n
          /\ n \in forgot' \/ listed[n] \subseteq listed'[n]
          /\ forgot \subseteq forgot'
      BY <3>1, <3>2
    <3>4. NobodyForgets /\ AllAreTold
      BY <1>0, <3>1, <3>3, AnnouncedIsKnown
    <3> QED BY <1>0, <3>1, <3>3, <3>4, RememberedKept
  <2>2. CASE ~(n \in object /\ n \notin merged)
    BY <1>2, <1>4, <2>2 DEF FindsOwnCopy
  <2> QED BY <2>1, <2>2
<1>5. ASSUME \/ GetFetches(n) \/ UserUploads(n)
             \/ \E p \in Purposes :
                   \/ HasNoProvider(n, p) \/ StoresMeta(n, p)
                   \/ \E q \in Providers : TriesProvider(n, p, q)
      PROVE  Remembered'
  BY <1>2, <1>5 DEF GetFetches, UserUploads, HasNoProvider, StoresMeta, TriesProvider
<1>6. ASSUME NEW p \in Purposes, StoresCopy(n, p) PROVE Remembered'
  <2>1. /\ n \in up /\ UNCHANGED <<up, listed, forgot>>
        /\ \/ inFlight' = Announced(n, fetch[n][p].list) /\ told' = told \cup {n}
           \/ UNCHANGED <<inFlight, told>>
    BY <1>6 DEF StoresCopy
  <2>2. CASE inFlight' = Announced(n, fetch[n][p].list) /\ told' = told \cup {n}
    <3>1. NobodyForgets /\ AllAreTold
      BY <1>0, <2>1, <2>2, AnnouncedIsKnown
    <3> QED BY <1>0, <2>1, <3>1, RememberedKept
  <2> QED BY <1>2, <2>1, <2>2
<1>7. ASSUME AnnouncesUpload(n) PROVE Remembered'
  <2>1. n \in up /\ up' = up
    BY <1>7 DEF AnnouncesUpload
  <2>2. CASE /\ listed' = [listed EXCEPT ![n] = {}]
             /\ forgot' = IF listed[n] = {} THEN forgot ELSE forgot \cup {n}
             /\ inFlight' = Announced(n, {}) /\ told' = told \cup {n}
    <3>1. listed \in [Providers -> Lists]
      BY <1>0 DEF Shape
    <3>2. /\ \A x \in Providers : listed'[x] = listed[x] \/ x = n
          /\ n \in forgot' \/ listed[n] \subseteq listed'[n]
          /\ forgot \subseteq forgot'
      BY <2>2, <3>1
    <3>3. NobodyForgets /\ AllAreTold
      BY <1>0, <2>1, <2>2, <3>2, AnnouncedIsKnown
    <3> QED BY <1>0, <2>1, <3>2, <3>3, RememberedKept
  <2> QED BY <1>2, <1>7, <2>1, <2>2 DEF AnnouncesUpload
<1>8. ASSUME ClosesNode(n) PROVE Remembered'
  <2>1. /\ up' = up \ {n} /\ inFlight' = [inFlight EXCEPT ![n] = EmptyBag]
        /\ UNCHANGED <<listed, told, forgot>>
    BY <1>8 DEF ClosesNode
  <2>2. Mail(inFlight)
    BY <1>0 DEF Shape
  <2>3. \A x \in Providers \ {n} : inFlight'[x] = inFlight[x]
    BY <2>1, <2>2, NoneInBag, OneMailbox
  <2>4. up \subseteq Providers
    BY <1>0 DEF Shape
  <2>5. NobodyForgets
    BY <2>1, <2>3, <2>4 DEF NobodyForgets, Knows
  <2>6. AllAreTold
    BY <2>1 DEF AllAreTold
  <2> QED BY <1>0, <2>1, <2>5, <2>6, RememberedKept
<1> QED BY <1>1, <1>3, <1>4, <1>5, <1>6, <1>7, <1>8

(* In every behaviour of the uploads the lists name holders, and all of those who told. *)
THEOREM UploadInvariant == UploadSpec => []UploadIInv
<1>1. UploadInit => UploadIInv
  <2> SUFFICES ASSUME UploadInit PROVE UploadIInv
    OBVIOUS
  <2>1. /\ up \subseteq Providers
        /\ object = {} /\ storing = {} /\ told = {} /\ wiped = {} /\ forgot = {}
        /\ listed = [n \in Providers |-> {}]
        /\ looking = [n \in Providers |-> <<>>]
        /\ fetch = [n \in Providers |-> [p \in Purposes |-> NoFetch]]
        /\ inFlight = [n \in Providers |-> EmptyBag]
    BY DEF UploadInit
  <2>2. Mail(inFlight) /\ \A n \in Providers : DOMAIN inFlight[n] = {}
    BY <2>1, NoneInBag DEF Mail
  <2>3. fetch \in [Providers -> [Purposes -> Phases]]
        /\ \A n \in Providers, p \in Purposes : fetch[n][p].list = {}
    BY <2>1, NoFetchTyped
  <2>4. listed \in [Providers -> Lists] /\ looking \in [Providers -> Seq(Lists)]
    BY <2>1 DEF Lists
  <2>5. Shape
    BY <2>1, <2>2, <2>3, <2>4 DEF Shape
  <2>6. HoldersOnly
    BY <2>1, <2>2, <2>3 DEF HoldersOnly, OnlyHolders
  <2>7. Remembered
    BY <2>1 DEF Remembered
  <2> QED BY <2>5, <2>6, <2>7 DEF UploadIInv
<1>2. UploadIInv /\ [UploadNext]_uploadVars => UploadIInv'
  <2>1. ASSUME UploadIInv, UploadNext PROVE UploadIInv'
    BY <2>1, ShapeStep, HoldersStep, RememberedStep DEF UploadIInv
  <2>2. ASSUME UploadIInv, UNCHANGED uploadVars PROVE UploadIInv'
    BY <2>2 DEF uploadVars, UploadIInv, Shape, HoldersOnly, OnlyHolders, Held, Remembered
  <2> QED BY <2>1, <2>2
<1> QED BY <1>1, <1>2, PTL DEF UploadSpec

\* Lists name nodes that have the object, and all of them are on the lists of those
\* that are up: in whatever order copies are fetched, announced and looked for.
THEOREM ListsMatch == UploadSpec => []ListsMatchCopies
<1>1. UploadIInv => ListsMatchCopies
  <2> SUFFICES ASSUME UploadIInv PROVE ListsMatchCopies
    OBVIOUS
  <2>1. ListedIsHeld
    BY DEF UploadIInv, HoldersOnly, OnlyHolders, Held, ListedIsHeld
  <2>2. HeldIsListed
    BY DEF UploadIInv, Remembered, HeldIsListed
  <2> QED BY <2>1, <2>2 DEF ListsMatchCopies
<1> QED BY <1>1, UploadInvariant, PTL

-----------------------------------------------------------------------------
(* The rooms *)

\* What a node that did not let a join and a leave overlap can rely on.
Subscribed(n) ==
    /\ join[n] = 0 \/ leave[n].pc = 0
    /\ leave[n].pc = 0 =>
          /\ \A i \in 1..3 : i < join[n] => JoinOrder[i] \in subs[n]
          /\ joined[n] => subs[n] = MucTopics

RoomIInv == MucTypeOK /\ \A n \in Members : overlap[n] \/ Subscribed(n)

\* Presence on its way.
Air == [Members -> [Members -> Seq({"available", "unavailable"})]]

(* A presence sent to all members leaves the air well typed. *)
LEMMA BroadcastTyped ==
    ASSUME NEW a \in Air, NEW n \in Members, NEW kind \in {"available", "unavailable"}
    PROVE  Broadcast(a, n, kind) \in Air
<1>1. ASSUME NEW m \in Members PROVE Behind(a[m][n], kind) \in Seq({"available", "unavailable"})
  BY DEF Behind, Air
<1>2. ASSUME NEW m \in Members
      PROVE  [a[m] EXCEPT ![n] = Behind(@, kind)]
                \in [Members -> Seq({"available", "unavailable"})]
  BY <1>1 DEF Air
<1> QED BY <1>2 DEF Broadcast, Air

\* Another field of a leave under way.
Leaves == [pc : 0..4, topic : MucNames, same : BOOLEAN]

(* A leaving that goes on, stays one. *)
LEMMA LeaveTyped ==
    ASSUME NEW L \in [Members -> Leaves], NEW n \in Members
    PROVE  /\ [L EXCEPT ![n].same = FALSE] \in [Members -> Leaves]
           /\ \A k \in 0..4 : [L EXCEPT ![n].pc = k] \in [Members -> Leaves]
           /\ \A t \in MucNames : [L EXCEPT ![n].topic = t] \in [Members -> Leaves]
<1>1. L[n] \in Leaves
  OBVIOUS
<1>2. /\ [L[n] EXCEPT !.same = FALSE] \in Leaves
      /\ \A k \in 0..4 : [L[n] EXCEPT !.pc = k] \in Leaves
      /\ \A t \in MucNames : [L[n] EXCEPT !.topic = t] \in Leaves
  BY <1>1 DEF Leaves
<1> HIDE DEF Leaves
<1> QED BY <1>2

\* A message less.
LEMMA AirTail ==
    ASSUME NEW a \in Air, NEW n \in Members, NEW m \in Members, a[n][m] # <<>>
    PROVE  [a EXCEPT ![n][m] = Tail(@)] \in Air
<1>1. Tail(a[n][m]) \in Seq({"available", "unavailable"})
  BY DEF Air
<1> QED BY <1>1 DEF Air

(* Every step of the rooms keeps the types. *)
LEMMA RoomStepTyped == ASSUME MucTypeOK, MucNext PROVE MucTypeOK'
<1> USE DEF MucTypeOK
<1>0. air \in Air /\ MucMaxActs \in Nat /\ MucMaxLosses \in Nat
  BY MucAssumption DEF Air
<1>1. PICK n \in Members :
        \/ StartJoin(n) \/ SubscribeNext(n) \/ EnterRoom(n)
        \/ StartLeave(n) \/ UnsubscribeNext(n) \/ ExitRoom(n)
        \/ Vanish(n) \/ Interval(n) \/ SetSubject(n) \/ SendGroupMessage(n)
        \/ \E m \in Members : HearPresence(n, m) \/ LosePresence(n, m)
  BY DEF MucNext
<1>2. Announce(air, n) \in Air /\ Broadcast(air, n, "unavailable") \in Air
  BY <1>0, BroadcastTyped DEF Announce
<1>3. CASE StartJoin(n)
  BY <1>0, <1>3 DEF StartJoin
<1>4. CASE SubscribeNext(n)
  <2>1. JoinOrder[join[n]] \in MucTopics
    BY <1>4 DEF SubscribeNext, JoinOrder, MucTopics
  <2> QED BY <1>4, <2>1 DEF SubscribeNext
<1>5. CASE EnterRoom(n)
  <2>1. air' \in Air
    BY <1>2, <1>5 DEF EnterRoom
  <2>2. leave' \in [Members -> Leaves]
    <3>1. leave \in [Members -> Leaves] /\ leave' = [leave EXCEPT ![n].same = FALSE]
      BY <1>5 DEF EnterRoom, Leaves
    <3> QED BY <3>1, LeaveTyped
  <2>3. UNCHANGED <<subs, post, mucActs, mucLosses>> /\ ghost' \in SUBSET Members
        /\ joined' \in [Members -> BOOLEAN] /\ overlap' \in [Members -> BOOLEAN]
    BY <1>5 DEF EnterRoom
  <2>4. topic' \in [Members -> MucNames] /\ seen' \in [Members -> SUBSET Members]
        /\ join' \in [Members -> 0..4]
    BY <1>5 DEF EnterRoom, MucNames
  <2> QED BY <2>1, <2>2, <2>3, <2>4 DEF Air, Leaves
<1>6. CASE StartLeave(n)
  <2>1. air' \in Air
    BY <1>2, <1>6 DEF StartLeave
  <2> QED BY <1>0, <1>6, <2>1 DEF StartLeave, MucNames, Air
<1>7. CASE UnsubscribeNext(n)
  <2>1. leave[n].pc \in 1..3 /\ leave \in [Members -> Leaves]
    BY <1>7 DEF UnsubscribeNext, Leaves
  <2>2. leave[n].pc + 1 \in 0..4
    BY <2>1
  <2>3. leave' = [leave EXCEPT ![n].pc = leave[n].pc + 1]
    BY <1>7 DEF UnsubscribeNext
  <2>4. leave' \in [Members -> Leaves]
    <3> DEFINE k == leave[n].pc + 1
    <3>1. k \in 0..4 /\ leave' = [leave EXCEPT ![n].pc = k]
      BY <2>2, <2>3
    <3> HIDE DEF k
    <3> QED BY <2>1, <3>1, LeaveTyped
  <2>5. subs' \in [Members -> SUBSET MucTopics]
    BY <1>7 DEF UnsubscribeNext
  <2> QED BY <1>7, <2>4, <2>5 DEF UnsubscribeNext, Leaves
<1>8. CASE ExitRoom(n)
  BY <1>8 DEF ExitRoom, NoLeave, MucNames
<1>9. CASE Vanish(n)
  BY <1>0, <1>9 DEF Vanish, NoLeave, MucNames
<1>10. CASE Interval(n)
  <2>1. air' \in Air
    BY <1>2, <1>10 DEF Interval
  <2> QED BY <1>10, <2>1 DEF Interval, Late, Air
<1>11. CASE SetSubject(n)
  <2>1. PICK t \in MucNames : leave' = [leave EXCEPT ![n].topic = t]
    <3>1. leave' = [leave EXCEPT ![n].topic = IF leave[n].same THEN "subject"
                                              ELSE leave[n].topic]
      BY <1>11 DEF SetSubject
    <3>2. "subject" \in MucNames /\ leave[n].topic \in MucNames
      BY DEF MucNames
    <3> QED BY <3>1, <3>2
  <2>2. leave \in [Members -> Leaves]
    BY DEF Leaves
  <2>3. leave' \in [Members -> Leaves]
    BY <2>1, <2>2, LeaveTyped
  <2>4. mucActs' \in 0..MucMaxActs /\ topic' \in [Members -> MucNames]
    BY <1>0, <1>11 DEF SetSubject, MucNames
  <2> QED BY <1>11, <2>3, <2>4 DEF SetSubject, Leaves
<1>12. CASE SendGroupMessage(n)
  BY <1>0, <1>12 DEF SendGroupMessage, Audience
<1>13. ASSUME NEW m \in Members, HearPresence(n, m) PROVE MucTypeOK'
  <2> DEFINE rest == [air EXCEPT ![n][m] = Tail(@)]
  <2>1. rest \in Air /\ Announce(rest, n) \in Air
    BY <1>0, <1>13, AirTail, BroadcastTyped DEF HearPresence, Announce
  <2>2. air' \in {rest, Announce(rest, n)} /\ ghost' \in {ghost, Late(n)}
    BY <1>13 DEF HearPresence
  <2> HIDE DEF rest
  <2>3. air' \in Air /\ ghost' \in SUBSET Members
    BY <2>1, <2>2 DEF Late
  <2>4. seen' \in [Members -> SUBSET Members]
    BY <1>13 DEF HearPresence
  <2>5. UNCHANGED <<joined, topic, subs, join, leave, post, overlap, mucActs, mucLosses>>
    BY <1>13 DEF HearPresence
  <2> QED BY <2>3, <2>4, <2>5 DEF Air
<1>14. ASSUME NEW m \in Members, LosePresence(n, m) PROVE MucTypeOK'
  <2>1. air' \in Air
    BY <1>0, <1>14, AirTail DEF LosePresence
  <2> QED BY <1>0, <1>14, <2>1 DEF LosePresence, Air
<1> QED BY <1>1, <1>3, <1>4, <1>5, <1>6, <1>7, <1>8, <1>9, <1>10, <1>11, <1>12, <1>13, <1>14

\* What the other steps of the room leave as it was.
LEMMA SubscribedKept ==
    ASSUME NEW m, UNCHANGED <<join[m], leave[m].pc, subs[m], joined[m], overlap[m]>>,
           overlap[m] \/ Subscribed(m)
    PROVE  (overlap[m] \/ Subscribed(m))'
BY DEF Subscribed

(* Every step keeps a member subscribed to the topic of the room it is in, unless its calls
   overlap. *)
LEMMA RoomStep ==
    ASSUME RoomIInv, MucNext, NEW m \in Members PROVE (overlap[m] \/ Subscribed(m))'
<1> USE DEF MucTypeOK
<1>0. MucTypeOK /\ (overlap[m] \/ Subscribed(m))
  BY DEF RoomIInv
<1>1. PICK n \in Members :
        \/ StartJoin(n) \/ SubscribeNext(n) \/ EnterRoom(n)
        \/ StartLeave(n) \/ UnsubscribeNext(n) \/ ExitRoom(n)
        \/ Vanish(n) \/ Interval(n) \/ SetSubject(n) \/ SendGroupMessage(n)
        \/ \E o \in Members : HearPresence(n, o) \/ LosePresence(n, o)
  BY DEF MucNext
\* Of another node nothing changes; of n, what the step does to it.
<1>2. ASSUME UNCHANGED <<join, leave, subs, joined, overlap>>
      PROVE  (overlap[m] \/ Subscribed(m))'
  BY <1>0, <1>2, SubscribedKept
<1>3. CASE StartJoin(n)
  <2>1. /\ join[n] = 0 /\ join'[n] = 1
        /\ overlap[n] \/ leave[n].pc # 0 => overlap'[n]
        /\ UNCHANGED <<joined, subs, leave>>
    BY <1>0, <1>3 DEF StartJoin
  <2>2. m # n => UNCHANGED <<join[m], overlap[m]>>
    BY <1>0, <1>3 DEF StartJoin
  <2>3. CASE m # n
    BY <1>0, <2>1, <2>2, <2>3, SubscribedKept
  <2>4. CASE m = n
    <3>1. overlap'[m] \/ (leave[m].pc = 0 /\ Subscribed(m))
      BY <1>0, <2>1, <2>4
    <3> QED BY <1>0, <2>1, <2>4, <3>1 DEF Subscribed
  <2> QED BY <2>3, <2>4
<1>4. CASE SubscribeNext(n)
  <2>1. /\ join[n] \in 1..3 /\ join'[n] = join[n] + 1
        /\ subs'[n] = subs[n] \cup {JoinOrder[join[n]]}
        /\ UNCHANGED <<joined, leave, overlap>>
    BY <1>0, <1>4 DEF SubscribeNext
  <2>2. m # n => UNCHANGED <<join[m], subs[m]>>
    BY <1>0, <1>4 DEF SubscribeNext
  <2>3. CASE m # n
    BY <1>0, <2>1, <2>2, <2>3, SubscribedKept
  <2>4. CASE m = n
    <3>1. overlap[m] \/ (leave[m].pc = 0 /\ Subscribed(m))
      BY <1>0, <2>1, <2>4 DEF Subscribed
    <3>2. JoinOrder[join[n]] \in MucTopics
      BY <2>1 DEF JoinOrder, MucTopics
    <3>3. subs[m] \subseteq MucTopics
      BY <1>0
    <3>4. \A i \in 1..3 : i < join[m] + 1 => i < join[m] \/ i = join[m]
      BY <2>1, <2>4
    <3> QED BY <2>1, <2>4, <3>1, <3>2, <3>3, <3>4 DEF Subscribed
  <2> QED BY <2>3, <2>4
<1>5. CASE EnterRoom(n)
  <2>1. /\ join[n] = 4 /\ join'[n] = 0
        /\ leave[n].pc # 0 \/ (overlap[n] /\ subs[n] # MucTopics) => overlap'[n]
        /\ UNCHANGED subs
    BY <1>0, <1>5 DEF EnterRoom
  <2>2. leave'[m].pc = leave[m].pc
    BY <1>0, <1>5 DEF EnterRoom
  <2>3. m # n => UNCHANGED <<join[m], joined[m], overlap[m]>>
    BY <1>0, <1>5 DEF EnterRoom
  <2>4. CASE m # n
    BY <1>0, <2>1, <2>2, <2>3, <2>4, SubscribedKept
  <2>5. CASE m = n
    <3>1. subs[m] \subseteq MucTopics
      BY <1>0
    <3>2. ASSUME ~overlap[m], leave[m].pc = 0 PROVE MucTopics \subseteq subs[m]
      BY <1>0, <2>1, <2>5, <3>2 DEF Subscribed, JoinOrder, MucTopics
    <3>3. overlap'[m] \/ (leave[m].pc = 0 /\ subs[m] = MucTopics)
      BY <2>1, <2>5, <3>1, <3>2
    <3> QED BY <2>1, <2>2, <2>5, <3>3 DEF Subscribed
  <2> QED BY <2>4, <2>5
<1>6. CASE StartLeave(n)
  <2>1. /\ leave'[n].pc = 1
        /\ overlap[n] \/ join[n] # 0 => overlap'[n]
        /\ UNCHANGED <<joined, subs, join>>
    BY <1>0, <1>6 DEF StartLeave
  <2>2. m # n => UNCHANGED <<leave[m], overlap[m]>>
    BY <1>0, <1>6 DEF StartLeave
  <2>3. CASE m # n
    BY <1>0, <2>1, <2>2, <2>3, SubscribedKept
  <2>4. CASE m = n
    <3>1. overlap'[m] \/ join[m] = 0
      BY <2>1, <2>4
    <3> QED BY <1>0, <2>1, <2>4, <3>1 DEF Subscribed
  <2> QED BY <2>3, <2>4
<1>7. CASE UnsubscribeNext(n)
  <2>1. /\ leave[n].pc # 0 /\ leave'[n].pc # 0
        /\ UNCHANGED <<joined, join, overlap>>
    BY <1>0, <1>7 DEF UnsubscribeNext
  <2>2. m # n => UNCHANGED <<leave[m], subs[m]>>
    BY <1>0, <1>7 DEF UnsubscribeNext
  <2>3. CASE m # n
    BY <1>0, <2>1, <2>2, <2>3, SubscribedKept
  <2>4. CASE m = n
    BY <1>0, <2>1, <2>4 DEF Subscribed
  <2> QED BY <2>3, <2>4
<1>8. CASE ExitRoom(n)
  <2>1. /\ leave[n].pc = 4 /\ leave'[n].pc = 0 /\ joined'[n] = FALSE
        /\ UNCHANGED <<subs, join, overlap>>
    BY <1>0, <1>8 DEF ExitRoom, NoLeave
  <2>2. m # n => UNCHANGED <<leave[m], joined[m]>>
    BY <1>0, <1>8 DEF ExitRoom
  <2>3. CASE m # n
    BY <1>0, <2>1, <2>2, <2>3, SubscribedKept
  <2>4. CASE m = n
    <3>1. join[m] = 0 \/ overlap[m]
      BY <1>0, <2>1, <2>4 DEF Subscribed
    <3>2. \A i \in 1..3 : ~(i < 0)
      OBVIOUS
    <3> QED BY <2>1, <2>4, <3>1, <3>2 DEF Subscribed
  <2> QED BY <2>3, <2>4
<1>9. CASE Vanish(n)
  <2>1. join'[n] = 0 /\ leave'[n].pc = 0 /\ joined'[n] = FALSE
    BY <1>0, <1>9 DEF Vanish, NoLeave
  <2>2. m # n => UNCHANGED <<join[m], leave[m], subs[m], joined[m], overlap[m]>>
    BY <1>0, <1>9 DEF Vanish
  <2>3. CASE m # n
    BY <1>0, <2>2, <2>3, SubscribedKept
  <2>4. CASE m = n
    <3>1. \A i \in 1..3 : ~(i < 0)
      OBVIOUS
    <3> QED BY <1>0, <2>1, <2>4, <3>1 DEF Subscribed
  <2> QED BY <2>3, <2>4
<1>10. CASE Interval(n)
  BY <1>2, <1>10 DEF Interval
<1>11. CASE SetSubject(n)
  <2>1. leave' = [leave EXCEPT ![n].topic = IF leave[n].same THEN "subject" ELSE @]
        /\ UNCHANGED <<joined, subs, join, overlap>>
    BY <1>11 DEF SetSubject
  <2>2. leave'[m].pc = leave[m].pc
    BY <2>1
  <2> QED BY <1>0, <2>1, <2>2, SubscribedKept
<1>12. CASE SendGroupMessage(n)
  BY <1>2, <1>12 DEF SendGroupMessage
<1>13. CASE \E o \in Members : HearPresence(n, o) \/ LosePresence(n, o)
  BY <1>2, <1>13 DEF HearPresence, LosePresence
<1> QED BY <1>1, <1>3, <1>4, <1>5, <1>6, <1>7, <1>8, <1>9, <1>10, <1>11, <1>12, <1>13

(* In every behaviour of the rooms the types and the subscriptions hold. *)
THEOREM RoomInvariant == MucSpec => []RoomIInv
<1>1. MucInit => RoomIInv
  <2> SUFFICES ASSUME MucInit PROVE RoomIInv
    OBVIOUS
  <2>1. MucTypeOK
    BY MucAssumption DEF MucInit, MucTypeOK, NoLeave, MucNames
  <2>2. \A n \in Members : join[n] = 0 /\ joined[n] = FALSE
    BY DEF MucInit
  <2> QED BY <2>1, <2>2 DEF RoomIInv, Subscribed
<1>2. RoomIInv /\ [MucNext]_mucVars => RoomIInv'
  <2>1. ASSUME RoomIInv, MucNext PROVE RoomIInv'
    BY <2>1, RoomStepTyped, RoomStep DEF RoomIInv
  <2>2. ASSUME RoomIInv, UNCHANGED mucVars PROVE RoomIInv'
    BY <2>2 DEF RoomIInv, mucVars, MucTypeOK, Subscribed
  <2> QED BY <2>1, <2>2
<1> QED BY <1>1, <1>2, PTL DEF MucSpec

\* Whatever the rooms keep has its type, and the bounds bound it.
THEOREM RoomTypeCorrect == MucSpec => []MucTypeOK
<1>1. RoomIInv => MucTypeOK
  BY DEF RoomIInv
<1> QED BY <1>1, RoomInvariant, PTL

\* A member hears its room unless a join and a leave of it overlapped: joinRoom awaits
\* its three subscriptions before the room is entered, and only leaveRoom cancels them.
THEOREM MembersHear == MucSpec => []MemberHearsRoom
<1>1. RoomIInv => MemberHearsRoom
  BY DEF RoomIInv, Subscribed, MemberHearsRoom, Idle
<1> QED BY <1>1, RoomInvariant, PTL

-----------------------------------------------------------------------------
(* The parts together *)

\* A behaviour of NodePresence is one of each part: what is proved of a part alone
\* holds of the managers of a node.
THEOREM PartsRunAlone == PresenceSpec => Spec /\ MucSpec /\ UploadSpec
<1>1. PresenceInit => Init /\ MucInit /\ UploadInit
  BY DEF PresenceInit
<1>2. [RosterActs \/ RoomsAct \/ UploadsAct]_presenceVars
        => [Next]_vars /\ [MucNext]_mucVars /\ [UploadNext]_uploadVars
  BY DEF RosterActs, RoomsAct, UploadsAct, presenceVars
<1> QED BY <1>1, <1>2, PTL DEF PresenceSpec, Spec, MucSpec, UploadSpec
=============================================================================
