----------------------------- MODULE NodeRecords -----------------------------
(***************************************************************************)
(* The parts that keep records beside each other: the mailbox in the DHT,   *)
(* the archives of direct and of group messages, the topics of the feeds,   *)
(* the connection to a server, the page of a conversation and the sources   *)
(* of RSS.  None reads the state of another, so what holds of each alone    *)
(* holds of all: a behaviour of this module follows the one that `part`     *)
(* names and leaves the others at rest.                                     *)
(***************************************************************************)
EXTENDS DhtMailbox, ChatHistory, MucHistory, TopicSubscriptions, ServerBridge,
        ChatPage, RssFeeds

VARIABLE part       \* the one that this behaviour follows

Parts == {"mailbox", "chatHistory", "groupHistory", "topics", "server", "page", "rss"}

recordVars == <<vars, chatVars, histVars, topicVars, bridgeVars, pageVars, rssVars,
                part>>

RecordsInit ==
    /\ Init /\ ChatInit /\ HistInit /\ TopicInit /\ BridgeInit /\ PageInit
    /\ RssInit
    /\ part \in Parts
    /\ part # "rss" => source = NoSource      \* at rest: one state is enough

MailboxActs ==
    /\ part = "mailbox" /\ Next
    /\ UNCHANGED <<chatVars, histVars, topicVars, bridgeVars, pageVars, rssVars,
                   part>>

ChatHistoryActs ==
    /\ part = "chatHistory" /\ ChatNext
    /\ UNCHANGED <<vars, histVars, topicVars, bridgeVars, pageVars, rssVars,
                   part>>

GroupHistoryActs ==
    /\ part = "groupHistory" /\ HistNext
    /\ UNCHANGED <<vars, chatVars, topicVars, bridgeVars, pageVars, rssVars,
                   part>>

TopicsAct ==
    /\ part = "topics" /\ TopicNext
    /\ UNCHANGED <<vars, chatVars, histVars, bridgeVars, pageVars, rssVars,
                   part>>

ServerActs ==
    /\ part = "server" /\ BridgeNext
    /\ UNCHANGED <<vars, chatVars, histVars, topicVars, pageVars, rssVars,
                   part>>

PageActs ==
    /\ part = "page" /\ PageNext
    /\ UNCHANGED <<vars, chatVars, histVars, topicVars, bridgeVars, rssVars,
                   part>>

RssActs ==
    /\ part = "rss" /\ RssNext
    /\ UNCHANGED <<vars, chatVars, histVars, topicVars, bridgeVars, pageVars,
                   part>>

RecordsNext ==
    \/ MailboxActs \/ ChatHistoryActs \/ GroupHistoryActs
    \/ TopicsAct \/ ServerActs \/ PageActs \/ RssActs

RecordsSpec == RecordsInit /\ [][RecordsNext]_recordVars

\* Those whose liveness is checked keep the fairness of their modules.
RecordsFairSpec == RecordsSpec /\ Fairness /\ ChatFairness

\* The type invariants of all of them.
RecordsTypeOK ==
    /\ TypeOK /\ ChatTypeOK /\ HistTypeOK /\ TopicTypeOK /\ BridgeTypeOK
    /\ PageTypeOK /\ RssTypeOK
    /\ part \in Parts
=============================================================================
