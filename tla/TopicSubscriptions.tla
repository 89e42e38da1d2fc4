-------------------------- MODULE TopicSubscriptions --------------------------
(***************************************************************************)
(* Who keeps a node subscribed to the feed topics of other peers: the       *)
(* previews of nearby peers, the feeds the user follows                     *)
(* (src/core/xmpp-feed.ts) and the collections that aggregate feeds         *)
(* (src/core/xmpp-collection.ts).  All three subscribe and unsubscribe the  *)
(* same pubsub topic, and each awaits between that and its own record.      *)
(* One collection stands for any; no operation touches two of them.         *)
(***************************************************************************)
EXTENDS Naturals, FiniteSets

CONSTANTS
    Feeds,          \* the peers, each with its feed topic
    FollowLimit,    \* SUBSCRIPTION_HISTORY_LIMIT
    TopicMaxActs    \* bound: operations begun in a behaviour

ASSUME TopicAssumption == FollowLimit \in Nat \ {0} /\ TopicMaxActs \in Nat

VARIABLES
    heard,      \* feeds whose topic the node is subscribed to
    followed,   \* feedSubscriptions
    public,     \* those of them with the visibility "public"
    preview,    \* discoveredFeedPeers
    declared,   \* feeds for which "follows publicly" was the last declaration sent
    previewing, \* previewDiscoveredFeed has subscribed and not recorded
    following,  \* progress and visibility of subscribeFeed
    leaving,    \* progress of unsubscribeFeed
    declares,   \* declarations that setFeedSubscriptionVisibility still owes
    members,    \* collection.members
    index,      \* the feeds that collectionFeedIndex gives to the collection
    adding,     \* addFeedToCollection has read the collection and subscribed
    copy,       \* copy[f]: the members that it read
    cut,        \* history: unsubscribed between subscribing and recording
    stray,      \* history: subscribed again while the record was being deleted, or
                \* left subscribed when the limit pushed the record out
    rival,      \* history: two changes overlapped, a public follow was made private
                \* by following anew, or the limit pushed it out
    clobbered,  \* history: members lost to an overlapping addition
    topicActs   \* bound

topicVars == <<heard, followed, public, preview, declared, previewing, following,
               leaving, declares, members, index, adding, copy, cut, stray, rival,
               clobbered, topicActs>>

Vis == {"public", "private"}
NotFollowing == [pc |-> 0, vis |-> "private"]

TopicTypeOK ==
    /\ heard \subseteq Feeds /\ followed \subseteq Feeds /\ public \subseteq followed
    /\ preview \subseteq Feeds /\ declared \subseteq Feeds /\ previewing \subseteq Feeds
    /\ following \in [Feeds -> [pc : 0..2, vis : Vis]]
    /\ leaving \in [Feeds -> 0..2]
    /\ declares \in [Feeds -> SUBSET Vis]
    /\ members \subseteq Feeds /\ index \subseteq Feeds
    /\ adding \subseteq Feeds /\ copy \in [Feeds -> SUBSET Feeds]
    /\ cut \subseteq Feeds /\ stray \subseteq Feeds
    /\ rival \subseteq Feeds /\ clobbered \subseteq Feeds
    /\ topicActs \in 0..TopicMaxActs

TopicInit ==
    /\ heard = {} /\ followed = {} /\ public = {} /\ preview = {} /\ declared = {}
    /\ previewing = {}
    /\ following = [f \in Feeds |-> NotFollowing]
    /\ leaving = [f \in Feeds |-> 0]
    /\ declares = [f \in Feeds |-> {}]
    /\ members = {} /\ index = {}
    /\ adding = {} /\ copy = [f \in Feeds |-> {}]
    /\ cut = {} /\ stray = {} /\ rival = {} /\ clobbered = {}
    /\ topicActs = 0

\* A change of the subscription to f is under way.
Changing(f) == following[f].pc # 0 \/ leaving[f] # 0 \/ declares[f] # {}

Settling(f) == Changing(f) \/ f \in previewing \/ f \in adding

Act == topicActs < TopicMaxActs /\ topicActs' = topicActs + 1

\* pubsub.subscribe and pubsub.unsubscribe act at once.
Hear(f) == /\ heard' = heard \cup {f}
           /\ cut' = cut \ {f}
           /\ stray' = IF leaving[f] = 2 THEN stray \cup {f} ELSE stray

Unhear(f) == /\ heard' = heard \ {f}
             /\ cut' = IF following[f].pc = 1 THEN cut \cup {f} ELSE cut
             /\ stray' = stray \ {f}

-----------------------------------------------------------------------------
(* Slips *)

StopPreviewCarelessly(f) ==
    /\ Act /\ f \in preview
    /\ preview' = preview \ {f}
    /\ Unhear(f)
    /\ UNCHANGED <<followed, public, declared, previewing, following, leaving,
                   declares, members, index, adding, copy, rival, clobbered>>

FollowNeverDeclares(f) ==
    /\ following[f].pc = 2
    /\ following' = [following EXCEPT ![f] = NotFollowing]
    /\ UNCHANGED <<heard, followed, public, preview, declared, previewing, leaving,
                   declares, members, index, adding, copy, cut, stray, rival, clobbered,
                   topicActs>>

-----------------------------------------------------------------------------
(* Previews *)

\* A nearby peer is discovered: nothing to do for a feed that is followed or
\* previewed already.
StartPreview(f) ==
    /\ Act
    /\ f \notin followed /\ f \notin preview /\ f \notin previewing
    /\ previewing' = previewing \cup {f}
    /\ Hear(f)
    /\ UNCHANGED <<followed, public, preview, declared, following, leaving, declares,
                   members, index, adding, copy, rival, clobbered>>

RecordPreview(f) ==
    /\ f \in previewing
    /\ previewing' = previewing \ {f}
    /\ preview' = preview \cup {f}
    /\ UNCHANGED <<heard, followed, public, declared, following, leaving, declares,
                   members, index, adding, copy, cut, stray, rival, clobbered, topicActs>>

\* The peer disconnected: a feed that is followed stays subscribed.
StopPreview(f) ==
    /\ Act /\ f \in preview
    /\ preview' = preview \ {f}
    /\ IF f \in followed THEN UNCHANGED <<heard, cut, stray>> ELSE Unhear(f)
    /\ UNCHANGED <<followed, public, declared, previewing, following, leaving,
                   declares, members, index, adding, copy, rival, clobbered>>

-----------------------------------------------------------------------------
(* Following *)

\* subscribeFeed, and setFeedSubscriptionVisibility for a feed not followed.
StartFollow(f, vis) ==
    /\ Act
    /\ following[f].pc = 0
    /\ following' = [following EXCEPT ![f] = [pc |-> 1, vis |-> vis]]
    /\ Hear(f)
    /\ rival' = IF Changing(f) \/ (f \in public /\ vis = "private")
                THEN rival \cup {f} ELSE rival
    /\ UNCHANGED <<followed, public, preview, declared, previewing, leaving, declares,
                   members, index, adding, copy, clobbered>>

\* The records that the limit may push out for that of f: one, if f is new and the
\* limit reached.  The code takes the oldest; any but the new one is allowed here.
PushedOut(f) ==
    IF Cardinality(followed \cup {f}) > FollowLimit
    THEN {{g} : g \in followed \ {f}} ELSE {{}}

\* The record; then the follower topic and the history of the peer are awaited.  A
\* record that is pushed out leaves its topic subscribed and its owner untold.
RecordFollow(f) ==
    /\ following[f].pc = 1
    /\ following' = [following EXCEPT ![f].pc = 2]
    /\ \E out \in PushedOut(f) :
          /\ followed' = (followed \cup {f}) \ out
          /\ public' = (IF following[f].vis = "public" THEN public \cup {f}
                                                       ELSE public \ {f}) \ out
          /\ stray' = stray \cup (out \cap heard)
          /\ rival' = rival \cup out
    /\ UNCHANGED <<heard, preview, declared, previewing, leaving, declares, members,
                   index, adding, copy, cut, clobbered, topicActs>>

EndFollow(f) ==
    /\ following[f].pc = 2
    /\ declared' = IF following[f].vis = "public" THEN declared \cup {f} ELSE declared
    /\ following' = [following EXCEPT ![f] = NotFollowing]
    /\ UNCHANGED <<heard, followed, public, preview, previewing, leaving, declares,
                   members, index, adding, copy, cut, stray, rival, clobbered, topicActs>>

\* setFeedSubscriptionVisibility records, then awaits a stream to the owner.
SetVisibility(f, vis) ==
    /\ Act
    /\ f \in followed
    /\ public' = IF vis = "public" THEN public \cup {f} ELSE public \ {f}
    /\ declares' = [declares EXCEPT ![f] = @ \cup {vis}]
    /\ rival' = IF Changing(f) THEN rival \cup {f} ELSE rival \ {f}
    /\ UNCHANGED <<heard, followed, preview, declared, previewing, following, leaving,
                   members, index, adding, copy, cut, stray, clobbered>>

\* Two such calls get their streams in either order.
Declare(f, vis) ==
    /\ vis \in declares[f]
    /\ declares' = [declares EXCEPT ![f] = @ \ {vis}]
    /\ declared' = IF vis = "public" THEN declared \cup {f} ELSE declared \ {f}
    /\ UNCHANGED <<heard, followed, public, preview, previewing, following, leaving,
                   members, index, adding, copy, cut, stray, rival, clobbered, topicActs>>

\* A new stream to the owner: announcePublicSubscriptionsForPeer.
AnnouncePublic(f) ==
    /\ f \in public
    /\ declared' = declared \cup {f}
    /\ rival' = IF leaving[f] # 0 THEN rival \cup {f}
                ELSE IF Changing(f) THEN rival ELSE rival \ {f}
    /\ UNCHANGED <<heard, followed, public, preview, previewing, following, leaving,
                   declares, members, index, adding, copy, cut, stray, clobbered, topicActs>>

\* unsubscribeFeed tells the owner if the feed was followed publicly.
StartUnfollow(f) ==
    /\ Act
    /\ leaving[f] = 0
    /\ leaving' = [leaving EXCEPT ![f] = 1]
    /\ declared' = IF f \in public THEN declared \ {f} ELSE declared
    /\ rival' = IF Changing(f) THEN rival \cup {f}
                ELSE IF f \in public THEN rival \ {f} ELSE rival
    /\ UNCHANGED <<heard, followed, public, preview, previewing, following, declares,
                   members, index, adding, copy, cut, stray, clobbered>>

\* It unsubscribes without asking who else needs the topic.
Unfollow(f) ==
    /\ leaving[f] = 1
    /\ leaving' = [leaving EXCEPT ![f] = 2]
    /\ Unhear(f)
    /\ UNCHANGED <<followed, public, preview, declared, previewing, following,
                   declares, members, index, adding, copy, rival, clobbered, topicActs>>

EndUnfollow(f) ==
    /\ leaving[f] = 2
    /\ leaving' = [leaving EXCEPT ![f] = 0]
    /\ followed' = followed \ {f} /\ public' = public \ {f}
    /\ UNCHANGED <<heard, preview, declared, previewing, following, declares, members,
                   index, adding, copy, cut, stray, rival, clobbered, topicActs>>

-----------------------------------------------------------------------------
(* The collection *)

\* addFeedToCollection has its stream, reads the collection and subscribes.
StartAdd(f) ==
    /\ Act
    /\ f \notin adding
    /\ adding' = adding \cup {f} /\ copy' = [copy EXCEPT ![f] = members]
    /\ Hear(f)
    /\ UNCHANGED <<followed, public, preview, declared, previewing, following,
                   leaving, declares, members, index, rival, clobbered>>

\* It stores the members it read with the new one: what was added meanwhile is
\* gone from the collection, though not from the index.
AddStores(f) ==
    /\ f \in adding
    /\ members' = copy[f] \cup {f}
    /\ clobbered' = (clobbered \cup members) \ members'
    /\ index' = (index \ copy[f]) \cup members'
    /\ adding' = adding \ {f} /\ copy' = [copy EXCEPT ![f] = {}]
    /\ UNCHANGED <<heard, followed, public, preview, declared, previewing, following,
                   leaving, declares, cut, stray, rival, topicActs>>

-----------------------------------------------------------------------------
(* Starting again *)

\* The records are loaded and restoreFeedSubscriptions,
\* restoreCollectionSubscriptions and the loading of the index redo the rest.
RestartTopics ==
    /\ Act
    /\ heard' = followed \cup members
    /\ declared' = declared \cup public
    /\ preview' = {} /\ previewing' = {}
    /\ following' = [f \in Feeds |-> NotFollowing]
    /\ leaving' = [f \in Feeds |-> 0]
    /\ declares' = [f \in Feeds |-> {}]
    /\ adding' = {} /\ copy' = [f \in Feeds |-> {}]
    /\ index' = members
    /\ cut' = {} /\ stray' = {} /\ clobbered' = {}
    /\ rival' = (rival \cup {f \in Feeds : Changing(f)}) \ public
    /\ UNCHANGED <<followed, public, members>>

TopicNext ==
    \/ \E f \in Feeds :
          \/ StartPreview(f) \/ RecordPreview(f) \/ StopPreview(f)
          \/ \E vis \in Vis : StartFollow(f, vis) \/ SetVisibility(f, vis) \/ Declare(f, vis)
          \/ RecordFollow(f) \/ EndFollow(f) \/ AnnouncePublic(f)
          \/ StartUnfollow(f) \/ Unfollow(f) \/ EndUnfollow(f)
          \/ StartAdd(f) \/ AddStores(f)
    \/ RestartTopics

TopicSpec == TopicInit /\ [][TopicNext]_topicVars

-----------------------------------------------------------------------------
(* Properties *)

\* A feed that is followed is heard, whatever previews, collections and earlier
\* follows did to its topic, unless a preview was stopped or the feed unfollowed
\* in the moment between the subscription and the record of the follow.
FollowedIsHeard ==
    \A f \in followed : (~Settling(f) /\ f \notin cut) => f \in heard

\* No topic stays subscribed for nobody, unless it was subscribed again while the
\* record of the follow was about to be deleted, or the limit pushed the record out.
HeardForAReason ==
    \A f \in heard : (~Settling(f) /\ f \notin stray) =>
        f \in followed \cup preview \cup members \cup index

\* The owner of a feed was told what the record says, public or not followed so,
\* through any sequence of changes, restarts and new streams.  Four things may part
\* the two: changes that overlap, a public follow followed again in private, a record
\* pushed out by the limit, and an announcement on a new stream amid an unfollow;
\* until a change of visibility, an unfollow, a new stream or a restart that meets
\* no other change makes it good.
DeclaredAsRecorded ==
    \A f \in Feeds : (~Changing(f) /\ f \notin rival) =>
        (f \in declared <=> f \in public)

\* However additions overlap, each member of the collection is in the index
\* that passes posts on, and beyond them only members lost to an overlap.
MembersAreIndexed == members \subseteq index /\ index \subseteq members \cup clobbered
=============================================================================
