-------------------------------- MODULE Roster --------------------------------
(***************************************************************************)
(* The entries two nodes keep of one another and the presences by which    *)
(* they subscribe and unsubscribe (src/core/xmpp-roster.ts).               *)
(*                                                                         *)
(* upsertRosterEntry changes the entry at once and then awaits the save    *)
(* queue, which is one per node and first in, first out: what a handler    *)
(* does afterwards waits in `tasks`, in the order in which the changes     *)
(* were made.  A handler computes the new subscription from the entry its  *)
(* first change returned, however old it is by then.                       *)
(*                                                                         *)
(* Names, groups, nicknames and the contents of a presence are left out.   *)
(* So are the presences that a resumed stream sends again.                 *)
(***************************************************************************)
EXTENDS Naturals, Sequences

CONSTANTS
    Users,      \* the nodes whose users act
    MaxActs,    \* bound: what each of them does
    MaxDrops    \* bound: how often the stream is lost

Node == {"a", "b"}
Peer(n) == IF n = "a" THEN "b" ELSE "a"

ASSUME RosterAssumption == Users \subseteq Node /\ MaxActs \in Nat /\ MaxDrops \in Nat

Requests == {"subscribe", "subscribed", "unsubscribe", "unsubscribed"}
Presence == Requests \union {"presence"}

\* The subscription as its two flags; an entry that is not known is not in the
\* map, and createRosterEntry would start it with these values.
Entry == [known : BOOLEAN, to : BOOLEAN, from : BOOLEAN,
          ask : {"none", "subscribe", "unsubscribe"}]

NoEntry == [known |-> FALSE, to |-> FALSE, from |-> FALSE, ask |-> "none"]

\* What waits for the save queue: a handler that has still to update the entry,
\* with the flags it has read, or a presence that has still to be sent.
Task == [stage : {"update", "send"}, kind : Requests, to : BOOLEAN, from : BOOLEAN]

Update(kind, e) == [stage |-> "update", kind |-> kind, to |-> e.to, from |-> e.from]
Send(kind) == [stage |-> "send", kind |-> kind, to |-> FALSE, from |-> FALSE]

VARIABLES
    entry,      \* entry[n]: what n keeps of its peer
    tasks,      \* tasks[n]: what waits for the save queue of n, oldest first
    wire,       \* wire[n]: the presences in flight towards n
    linked,     \* both nodes have registered a stream to each other
    acts,       \* acts[n]: what the user of n has done so far
    drops,      \* how often the stream was lost
    asked,      \* asked[n]: the user of n has ever asked to subscribe
    last        \* last[n]: what the user of n did last

history == <<acts, asked, last>>
vars == <<entry, tasks, wire, linked, drops, history>>

TypeOK ==
    /\ entry \in [Node -> Entry]
    /\ tasks \in [Node -> Seq(Task)]
    /\ wire \in [Node -> Seq(Presence)]
    /\ linked \in BOOLEAN
    /\ acts \in [Node -> 0..MaxActs]
    /\ drops \in 0..MaxDrops
    /\ asked \in [Node -> BOOLEAN]
    /\ last \in [Node -> {"nothing", "subscribe", "unsubscribe", "remove"}]

Init ==
    /\ entry = [n \in Node |-> NoEntry]
    /\ tasks = [n \in Node |-> <<>>]
    /\ wire = [n \in Node |-> <<>>]
    /\ linked = FALSE
    /\ acts = [n \in Node |-> 0]
    /\ drops = 0
    /\ asked = [n \in Node |-> FALSE]
    /\ last = [n \in Node |-> "nothing"]

-----------------------------------------------------------------------------
(* Plausible slips in the operators below *)

\* A request is granted by the flag of the other direction.
UpdatedSwapped(t) ==
    CASE t.kind = "subscribe"    -> [known |-> TRUE, to |-> TRUE, from |-> t.from, ask |-> "none"]
      [] t.kind = "subscribed"   -> [known |-> TRUE, to |-> t.to, from |-> TRUE, ask |-> "none"]
      [] t.kind = "unsubscribe"  -> [known |-> TRUE, to |-> t.to, from |-> FALSE, ask |-> "none"]
      [] t.kind = "unsubscribed" -> [known |-> TRUE, to |-> FALSE, from |-> t.from, ask |-> "none"]

\* A handler keeps the ask that is pending.
UpdatedKeepsAsk(t) ==
    CASE t.kind = "subscribe"    -> [known |-> TRUE, to |-> t.to, from |-> TRUE, ask |-> "none"]
      [] t.kind = "subscribed"   -> [known |-> TRUE, to |-> TRUE, from |-> t.from, ask |-> "subscribe"]
      [] t.kind = "unsubscribe"  -> [known |-> TRUE, to |-> FALSE, from |-> t.from, ask |-> "none"]
      [] t.kind = "unsubscribed" -> [known |-> TRUE, to |-> t.to, from |-> FALSE, ask |-> "none"]

-----------------------------------------------------------------------------
(* What the operations are made of *)

\* The second change of a handler: one flag is set or cleared, the other is the
\* one the handler has read.
Updated(t) ==
    CASE t.kind = "subscribe"    -> [known |-> TRUE, to |-> t.to, from |-> TRUE, ask |-> "none"]
      [] t.kind = "subscribed"   -> [known |-> TRUE, to |-> TRUE, from |-> t.from, ask |-> "none"]
      [] t.kind = "unsubscribe"  -> [known |-> TRUE, to |-> FALSE, from |-> t.from, ask |-> "none"]
      [] t.kind = "unsubscribed" -> [known |-> TRUE, to |-> t.to, from |-> FALSE, ask |-> "none"]

\* What a handler does after its second change: requests are answered.
Answer(t) ==
    CASE t.kind = "subscribe"   -> <<Send("subscribed")>>
      [] t.kind = "unsubscribe" -> <<Send("unsubscribed")>>
      [] OTHER                  -> <<>>

\* An approval is followed by the current presence.
Frames(kind) == IF kind = "subscribed" THEN <<"subscribed", "presence">> ELSE <<kind>>

\* flushRosterPresenceForPeer: a request that is still pending is sent again.
AskAgain(e) == IF e.ask = "none" THEN <<>> ELSE <<e.ask>>

-----------------------------------------------------------------------------
(* What the user does *)

Acts(n, what) ==
    /\ n \in Users
    /\ acts[n] < MaxActs
    /\ acts' = [acts EXCEPT ![n] = @ + 1]
    /\ asked' = [asked EXCEPT ![n] = @ \/ what = "subscribe"]
    /\ last' = [last EXCEPT ![n] = what]

\* addRosterEntry, or subscribePresence over an open stream.  The new entry
\* says "to", whatever it said before.
Subscribe(n) ==
    /\ Acts(n, "subscribe")
    /\ entry' = [entry EXCEPT ![n] =
                    [known |-> TRUE, to |-> TRUE, from |-> FALSE, ask |-> "subscribe"]]
    /\ tasks' = [tasks EXCEPT ![n] = Append(@, Send("subscribe"))]
    /\ UNCHANGED <<wire, linked, drops>>

\* unsubscribePresence; without a stream it would fail before any change.
Unsubscribe(n) ==
    /\ linked
    /\ Acts(n, "unsubscribe")
    /\ entry' = [entry EXCEPT ![n] =
                    [known |-> TRUE, to |-> FALSE, from |-> FALSE, ask |-> "unsubscribe"]]
    /\ tasks' = [tasks EXCEPT ![n] = Append(@, Send("unsubscribe"))]
    /\ UNCHANGED <<wire, linked, drops>>

\* removeRosterEntry: the peer is told only if there is a stream.
Remove(n) ==
    /\ Acts(n, "remove")
    /\ entry' = [entry EXCEPT ![n] = NoEntry]
    /\ wire' = IF linked THEN [wire EXCEPT ![Peer(n)] = Append(@, "unsubscribe")] ELSE wire
    /\ UNCHANGED <<tasks, linked, drops>>

-----------------------------------------------------------------------------
(* What the node does *)

\* A presence arrives: recordPresence, or the first change of a handler, both
\* of which make an entry where there was none.
Receive(n) ==
    LET kind == Head(wire[n])
        e    == [entry[n] EXCEPT !.known = TRUE]
    IN  /\ wire[n] # <<>>
        /\ wire' = [wire EXCEPT ![n] = Tail(@)]
        /\ entry' = [entry EXCEPT ![n] = e]
        /\ tasks' = IF kind = "presence" THEN tasks
                    ELSE [tasks EXCEPT ![n] = Append(@, Update(kind, e))]
        /\ UNCHANGED <<linked, drops, history>>

\* The save that a handler waits for is done: it makes its second change.
UpdateEntry(n) ==
    LET t == Head(tasks[n])
    IN  /\ tasks[n] # <<>>
        /\ t.stage = "update"
        /\ entry' = [entry EXCEPT ![n] = Updated(t)]
        /\ tasks' = [tasks EXCEPT ![n] = Tail(@) \o Answer(t)]
        /\ UNCHANGED <<wire, linked, drops, history>>

\* The save is done and a presence goes out, if there is a stream.
SendPresence(n) ==
    LET t == Head(tasks[n])
    IN  /\ tasks[n] # <<>>
        /\ t.stage = "send"
        /\ wire' = IF linked THEN [wire EXCEPT ![Peer(n)] = @ \o Frames(t.kind)] ELSE wire
        /\ tasks' = [tasks EXCEPT ![n] = Tail(@)]
        /\ UNCHANGED <<entry, linked, drops, history>>

\* registerStream at both nodes: each sends its presence and a pending request.
Connect ==
    /\ ~linked
    /\ linked' = TRUE
    /\ wire' = [n \in Node |-> <<"presence">> \o AskAgain(entry[Peer(n)])]
    /\ UNCHANGED <<entry, tasks, drops, history>>

\* The stream is lost with what was in flight.
Disconnect ==
    /\ linked
    /\ drops < MaxDrops
    /\ drops' = drops + 1
    /\ linked' = FALSE
    /\ wire' = [n \in Node |-> <<>>]
    /\ UNCHANGED <<entry, tasks, history>>

Next ==
    \/ \E n \in Node : \/ Subscribe(n) \/ Unsubscribe(n) \/ Remove(n)
                       \/ Receive(n) \/ UpdateEntry(n) \/ SendPresence(n)
    \/ Connect
    \/ Disconnect

Spec == Init /\ [][Next]_vars

\* What arrived is read and saves end.  Nobody is obliged to act or to connect.
Fairness == \A n \in Node : /\ WF_vars(Receive(n))
                            /\ WF_vars(UpdateEntry(n)) /\ WF_vars(SendPresence(n))

FairSpec == Spec /\ Fairness

-----------------------------------------------------------------------------
(* Properties *)

\* A node lists its peer as a subscriber only if the peer has asked for it, and
\* itself as subscribed only if its own user has asked: however handlers with
\* old flags overlap, no request is taken for one of the other direction.
GrantedOnlyToWhoAsked ==
    \A n \in Node : /\ entry[n].to => asked[n]
                    /\ entry[n].from => asked[Peer(n)]

\* Its strengthening: a request, or its approval, is in flight or waits only if
\* there was an act that asked for it, and the flags a handler still carries are
\* of such acts as well.
Warranted(n) == {kind \in Presence : /\ kind = "subscribe" => asked[Peer(n)]
                                     /\ kind = "subscribed" => asked[n]}
WarrantedEntry(n) == {e \in Entry : /\ e.to \/ e.ask = "subscribe" => asked[n]
                                    /\ e.from => asked[Peer(n)]}
WarrantedTask(n) == {t \in Task : /\ t.to => asked[n]
                                  /\ t.from => asked[Peer(n)]
                                  /\ t.stage = "update" => t.kind \in Warranted(n)
                                  /\ t.stage = "send" => t.kind \in Warranted(Peer(n))}

\* GrantedOnlyToWhoAsked, made inductive: everything that can still change an
\* entry is warranted by what was asked.
IInv ==
    /\ TypeOK
    /\ \A n \in Node : /\ entry[n] \in WarrantedEntry(n)
                        /\ tasks[n] \in Seq(WarrantedTask(n))
                        /\ wire[n] \in Seq(Warranted(n))

\* A pending request is settled, unless the stream is lost.
AskIsSettled ==
    \A n \in Node : (entry[n].ask # "none") ~> (entry[n].ask = "none" \/ ~linked)

Quiet == /\ linked
         /\ \A n \in Node : wire[n] = <<>> /\ tasks[n] = <<>>

\* (README: "Roster & Presence (RFC 6121 / XEP-0144)"; tests/roster.ts waits
\* until the entry of the peer says "from" as the own one says "to".)  When the
\* user has unsubscribed and nothing is in flight any more, the peer no longer
\* lists this node among those it shows itself to.
UnsubscribeIsHonoured ==
    \A n \in Node : (Quiet /\ last[n] = "unsubscribe") => ~entry[Peer(n)].from
=============================================================================
