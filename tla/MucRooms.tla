------------------------------ MODULE MucRooms ------------------------------
(***************************************************************************)
(* The members of one group chat room, each holding its own view of it      *)
(* (src/core/xmpp-muc.ts).  There is no room server: presence and messages  *)
(* are published on pubsub topics named after the room.  joinRoom and       *)
(* leaveRoom await between their steps, so calls of one node may overlap.   *)
(*                                                                         *)
(* A nickname is unique in the room and stands for its node.  Presence is   *)
(* published on two topics that every member follows; the two copies count  *)
(* as one.  Delivery from one member to another keeps the order, and may    *)
(* lose what was published.                                                 *)
(***************************************************************************)
EXTENDS Integers, Sequences

CONSTANTS
    Members,
    MucMaxActs,     \* bound: calls of the user in a behaviour
    MucMaxLosses    \* bound: presences lost in transit

ASSUME MucAssumption == MucMaxActs \in Nat /\ MucMaxLosses \in Nat

MucTopics == {"base", "messages", "presence"}
MucNames  == {"room", "subject"}    \* what roomState.topic was set to

NoLeave == [pc |-> 0, topic |-> "room", same |-> FALSE]

VARIABLES
    joined,     \* joined[n]: n has a roomState
    topic,      \* topic[n]: the prefix of the topics n publishes messages on
    seen,       \* seen[n]: roomState.occupants
    subs,       \* subs[n]: which of the room's three topics n is subscribed to
    join,       \* join[n]: progress of joinRoom, 0 when none is under way
    leave,      \* leave[n]: progress of leaveRoom and the roomState it captured
    air,        \* air[n][m]: presence published by m on its way to n
    post,       \* post[n]: who should have, and who has, got n's message
    overlap,    \* history: n let a join and a leave overlap
    ghost,      \* history: members whose farewell was lost, missing or overtaken
    mucActs, mucLosses      \* bounds

mucVars == <<joined, topic, seen, subs, join, leave, air, post, overlap,
             ghost, mucActs, mucLosses>>

MucTypeOK ==
    /\ joined \in [Members -> BOOLEAN]
    /\ topic \in [Members -> MucNames]
    /\ seen \in [Members -> SUBSET Members]
    /\ subs \in [Members -> SUBSET MucTopics]
    /\ join \in [Members -> 0..4]
    /\ leave \in [Members -> [pc : 0..4, topic : MucNames, same : BOOLEAN]]
    /\ air \in [Members -> [Members -> Seq({"available", "unavailable"})]]
    /\ post \in [Members -> [to : SUBSET Members, got : SUBSET Members]]
    /\ overlap \in [Members -> BOOLEAN]
    /\ ghost \in SUBSET Members
    /\ mucActs \in 0..MucMaxActs /\ mucLosses \in 0..MucMaxLosses

MucInit ==
    /\ joined = [n \in Members |-> FALSE]
    /\ topic = [n \in Members |-> "room"]
    /\ seen = [n \in Members |-> {}]
    /\ subs = [n \in Members |-> {}]
    /\ join = [n \in Members |-> 0]
    /\ leave = [n \in Members |-> NoLeave]
    /\ air = [n \in Members |-> [m \in Members |-> <<>>]]
    /\ post = [n \in Members |-> [to |-> {}, got |-> {}]]
    /\ overlap = [n \in Members |-> FALSE]
    /\ ghost = {}
    /\ mucActs = 0 /\ mucLosses = 0

-----------------------------------------------------------------------------
(* Publishing *)

\* Bound: two equal presences in a row count as one.
Behind(q, kind) == IF q # <<>> /\ q[Len(q)] = kind THEN q ELSE Append(q, kind)

\* Slip: a farewell is not published.
BroadcastsNoFarewell(a, n, kind) ==
    [m \in Members |->
        IF m # n /\ kind = "available" /\ subs[m] \cap {"base", "presence"} # {}
        THEN [a[m] EXCEPT ![n] = Behind(@, kind)] ELSE a[m]]

\* broadcastPresence: to every other node that follows one of the two topics.
Broadcast(a, n, kind) ==
    [m \in Members |->
        IF m # n /\ subs[m] \cap {"base", "presence"} # {}
        THEN [a[m] EXCEPT ![n] = Behind(@, kind)] ELSE a[m]]

\* Slip: nothing repeats or answers a presence.
NeverAnnounces(a, n) == a

\* What the interval and the answer to a newcomer publish.
Announce(a, n) == Broadcast(a, n, "available")

\* An announcement made while n is leaving follows its farewell.
Late(n) == IF leave[n].pc # 0 THEN ghost \cup {n} ELSE ghost

-----------------------------------------------------------------------------
(* joinRoom *)

StartJoin(n) ==
    /\ mucActs < MucMaxActs
    /\ join[n] = 0
    /\ join' = [join EXCEPT ![n] = 1]
    /\ overlap' = [overlap EXCEPT ![n] = @ \/ leave[n].pc # 0]
    /\ mucActs' = mucActs + 1
    /\ UNCHANGED <<joined, topic, seen, subs, leave, air, post, ghost, mucLosses>>

\* Slip: the join forgets the presence topic.
JoinForgetsPresence == <<"base", "messages", "messages">>

JoinOrder == <<"base", "messages", "presence">>

\* The settings were read; each subscription is awaited before the next.
SubscribeNext(n) ==
    /\ join[n] \in 1..3
    /\ subs' = [subs EXCEPT ![n] = @ \cup {JoinOrder[join[n]]}]
    /\ join' = [join EXCEPT ![n] = @ + 1]
    /\ UNCHANGED <<joined, topic, seen, leave, air, post, overlap, ghost,
                   mucActs, mucLosses>>

\* A new roomState takes the place of the old one, if any, and is announced.
EnterRoom(n) ==
    /\ join[n] = 4
    /\ joined' = [joined EXCEPT ![n] = TRUE]
    /\ topic' = [topic EXCEPT ![n] = "room"]
    /\ seen' = [seen EXCEPT ![n] = {}]
    /\ leave' = [leave EXCEPT ![n].same = FALSE]
    /\ join' = [join EXCEPT ![n] = 0]
    /\ air' = Announce(air, n)
    /\ ghost' = IF leave[n].pc # 0 THEN ghost \cup {n} ELSE ghost \ {n}
    /\ overlap' = [overlap EXCEPT ![n] = leave[n].pc # 0 \/ (@ /\ subs[n] # MucTopics)]
    /\ UNCHANGED <<subs, post, mucActs, mucLosses>>

-----------------------------------------------------------------------------
(* leaveRoom *)

StartLeave(n) ==
    /\ mucActs < MucMaxActs
    /\ joined[n] /\ leave[n].pc = 0
    /\ leave' = [leave EXCEPT ![n] = [pc |-> 1, topic |-> topic[n], same |-> TRUE]]
    /\ air' = Broadcast(air, n, "unavailable")
    /\ overlap' = [overlap EXCEPT ![n] = @ \/ join[n] # 0]
    /\ mucActs' = mucActs + 1
    /\ UNCHANGED <<joined, topic, seen, subs, join, post, ghost, mucLosses>>

\* The topics are taken from the captured roomState: once its topic has been
\* overwritten, the room's own topics stay subscribed.
UnsubscribeNext(n) ==
    /\ leave[n].pc \in 1..3
    /\ subs' = [subs EXCEPT ![n] =
                   IF leave[n].topic = "room" THEN @ \ {JoinOrder[leave[n].pc]} ELSE @]
    /\ leave' = [leave EXCEPT ![n].pc = @ + 1]
    /\ UNCHANGED <<joined, topic, seen, join, air, post, overlap, ghost,
                   mucActs, mucLosses>>

\* rooms.delete takes whatever roomState is there by then.
ExitRoom(n) ==
    /\ leave[n].pc = 4
    /\ leave' = [leave EXCEPT ![n] = NoLeave]
    /\ joined' = [joined EXCEPT ![n] = FALSE]
    /\ seen' = [seen EXCEPT ![n] = {}]
    /\ topic' = [topic EXCEPT ![n] = "room"]
    /\ UNCHANGED <<subs, join, air, post, overlap, ghost, mucActs, mucLosses>>

\* The program ends without leaving; nothing removes the occupant elsewhere.
Vanish(n) ==
    /\ mucActs < MucMaxActs
    /\ joined[n] \/ join[n] # 0
    /\ joined' = [joined EXCEPT ![n] = FALSE]
    /\ topic' = [topic EXCEPT ![n] = "room"]
    /\ seen' = [seen EXCEPT ![n] = {}]
    /\ subs' = [subs EXCEPT ![n] = {}]
    /\ join' = [join EXCEPT ![n] = 0]
    /\ leave' = [leave EXCEPT ![n] = NoLeave]
    /\ overlap' = [overlap EXCEPT ![n] = FALSE]
    /\ ghost' = ghost \cup {n}
    /\ mucActs' = mucActs + 1
    /\ UNCHANGED <<air, post, mucLosses>>

-----------------------------------------------------------------------------
(* Presence *)

\* The interval of the constructor announces every room that is joined, the
\* ones being left included.
Interval(n) ==
    /\ joined[n]
    /\ air' = Announce(air, n)
    /\ ghost' = Late(n)
    /\ UNCHANGED <<joined, topic, seen, subs, join, leave, post, overlap,
                   mucActs, mucLosses>>

\* handleIncomingElement, presence: without a roomState it is dropped; an
\* occupant that is new is answered with n's own presence.
HearPresence(n, m) ==
    LET rest == [air EXCEPT ![n][m] = Tail(@)]
        kind == Head(air[n][m])
        new  == joined[n] /\ kind = "available" /\ m \notin seen[n]
    IN  /\ air[n][m] # <<>>
        /\ seen' = [seen EXCEPT ![n] =
                       IF ~joined[n] THEN @
                       ELSE IF kind = "available" THEN @ \cup {m} ELSE @ \ {m}]
        /\ air' = IF new THEN Announce(rest, n) ELSE rest
        /\ ghost' = IF new THEN Late(n) ELSE ghost
        /\ UNCHANGED <<joined, topic, subs, join, leave, post, overlap,
                       mucActs, mucLosses>>

LosePresence(n, m) ==
    /\ mucLosses < MucMaxLosses
    /\ air[n][m] # <<>>
    /\ air' = [air EXCEPT ![n][m] = Tail(@)]
    /\ ghost' = IF Head(air[n][m]) = "unavailable" THEN ghost \cup {m} ELSE ghost
    /\ mucLosses' = mucLosses + 1
    /\ UNCHANGED <<joined, topic, seen, subs, join, leave, post, overlap, mucActs>>

-----------------------------------------------------------------------------
(* Settings and messages *)

\* setRoomSettings, from updateMucRoomSettings: the subject the user typed
\* becomes roomState.topic, which is also the prefix of the pubsub topics.
SetSubject(n) ==
    /\ mucActs < MucMaxActs
    /\ joined[n]
    /\ mucActs' = mucActs + 1
    /\ topic' = [topic EXCEPT ![n] = "subject"]
    /\ leave' = [leave EXCEPT ![n].topic = IF leave[n].same THEN "subject" ELSE @]
    /\ UNCHANGED <<joined, seen, subs, join, air, post, overlap, ghost, mucLosses>>

\* Members that are in the room and hear it.
Audience(n) == {m \in Members \ {n} : joined[m] /\ subs[m] = MucTopics}

\* sendGroupMessage: published on roomState.topic and its /messages topic,
\* which the others follow only under the room's own name.
SendGroupMessage(n) ==
    /\ mucActs < MucMaxActs
    /\ joined[n]
    /\ mucActs' = mucActs + 1
    /\ post' = [post EXCEPT ![n] =
           [to  |-> Audience(n),
            got |-> IF topic[n] = "room"
                    THEN {m \in Members \ {n} :
                             joined[m] /\ subs[m] \cap {"base", "messages"} # {}}
                    ELSE {}]]
    /\ UNCHANGED <<joined, topic, seen, subs, join, leave, air, overlap, ghost,
                   mucLosses>>

MucNext ==
    \E n \in Members :
        \/ StartJoin(n) \/ SubscribeNext(n) \/ EnterRoom(n)
        \/ StartLeave(n) \/ UnsubscribeNext(n) \/ ExitRoom(n)
        \/ Vanish(n) \/ Interval(n) \/ SetSubject(n) \/ SendGroupMessage(n)
        \/ \E m \in Members : HearPresence(n, m) \/ LosePresence(n, m)

MucSpec == MucInit /\ [][MucNext]_mucVars

\* The event loop resolves what a call awaits, the interval keeps firing and
\* pubsub delivers; nobody has to join or leave, and a restart is no duty.
MucFairness ==
    /\ \A n \in Members :
          WF_mucVars(SubscribeNext(n) \/ EnterRoom(n))
    /\ \A n \in Members :
          WF_mucVars(UnsubscribeNext(n) \/ ExitRoom(n))
    /\ \A n \in Members : WF_mucVars(Interval(n))
    /\ \A n \in Members : \A m \in Members \ {n} : WF_mucVars(HearPresence(n, m))

MucFairSpec == MucSpec /\ MucFairness

-----------------------------------------------------------------------------
(* Properties *)

Idle(n) == join[n] = 0 /\ leave[n].pc = 0

\* A node that is in a room hears the room, unless it let a join and a leave
\* run at the same time: the leave then cancels the subscriptions of the join.
MemberHearsRoom ==
    \A n \in Members : (joined[n] /\ Idle(n) /\ ~overlap[n]) => subs[n] = MucTopics

\* Two members that stay in the room come to see each other, whatever was lost
\* and whoever entered first: the interval repeats what one broadcast missed.
MembersMeet ==
    \A n, m \in Members : n # m =>
        ((joined[n] /\ joined[m]) ~>
            (m \in seen[n] \/ ~joined[n] \/ ~joined[m] \/ subs[n] # MucTopics))

\* A member that has left is struck off every list, unless its farewell was
\* lost, it vanished, or it announced itself again while it left.
LeaverIsForgotten ==
    \A n, m \in Members : n # m =>
        (~joined[m] ~> (m \notin seen[n] \/ joined[m] \/ m \in ghost \/ subs[n] # MucTopics))

\* README.md:27 "Serverless chat rooms where states, rosters, and messages are
\* synchronized via Gossipsub": what a member sends reaches those in the room.
MessageReachesRoom == \A n \in Members : post[n].to \subseteq post[n].got
=============================================================================
