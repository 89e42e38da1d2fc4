# XMPP_P2P: a TLA+ model of the messaging core

XMPP_P2P is a messenger in which every user runs an XMPP node of their own. Nodes
speak XMPP over libp2p streams, fall back to a mailbox in a DHT when a peer is
away, publish feeds, group chats and files over gossipsub, and may also connect to
a classical XMPP server. This directory models the parts of the program whose
correctness depends on the *order* of events: streams that break and are resumed,
dials and calls that overlap, records that several processes write, archives filled
in any order, a user interface that keeps copies across an `await`.

Paths below are relative to the repository's `src/` directory (its code lies in
`src/` and `ui/src/` there); `core/` is `src/core/`.

## 1. Inventory

| Component | State | Operations | Talks to |
| --- | --- | --- | --- |
| `XmppStream` (`core/xmpp-stream.ts`) | counters of stanzas in and out, queue of unacknowledged stanzas, `smEnabled`, closed flag | `send`, `sendRaw`, `handleSmElement`, `computeStanzasToResend`, `close`, end of inbound data | the libp2p stream below, `element` and `close` events above |
| Session store (`core/xmpp-reliability.ts`) | one saved session per peer, client states | `saveSession`, `getAndClearSession`, `setPeerClientState` | `registerStream` and its `close` handler |
| Peer streams (`core/xmpp-node.ts`) | `streams`, `peerAddrs`, `reconnectTimers`, `reconnectAttempts` | `getOrCreateStream`, inbound protocol handler, `registerStream`, `close` handler, `scheduleReconnect`, `close` of the node | every manager that sends |
| IQ routing (`core/xmpp-router.ts`) | `pendingIq` | `sendIqRequest`, `handleIqStanza`, time-out | streams, roster, discovery, history |
| DHT mailbox (`core/xmpp-dht.ts`) | a record per recipient in the DHT, `mailboxLocks` per process | `bufferStanzaToDht`, `flushDhtMailbox` | `sendOrBufferStanza`, `peer:connect`, `setClientState` |
| Roster (`core/xmpp-roster.ts`) | entries with a subscription and an `ask`, own presence, vCard | subscribe, subscribed, unsubscribe, unsubscribed, removal, resend of asks | streams, persistence |
| Group chat (`core/xmpp-muc.ts`) | rooms, occupants by nick, bounded history, settings | join, leave, publish, record, presence, history query | pubsub, persistence |
| Chat history (`core/xmpp-chat.ts`) | bounded map of messages | record, coalesced save, archive query | persistence, DHT |
| Feeds and collections (`core/xmpp-feed.ts`, `core/xmpp-collection.ts`) | subscriptions, previews, members of collections and their index | follow, unfollow, preview, stop, visibility, add a feed, restore | pubsub, IQ |
| Server connection (`core/xmpp-client-bridge.ts`) | current client, status, `pendingIq` | connect, disconnect, `sendIQ`, events of the client | the @xmpp/client library |
| Uploads (`core/xmpp-uploads.ts`) | objects, lists of providers, fetches under way | upload, announce, record a list, fetch a copy, GET | storage, HTTP, pubsub |
| RSS (`core/rss-feeds.ts`) | a record per source, stored entries | subscribe, refresh, pause, share, remove | HTTP, storage, publication of posts |
| Outbox (`ui/src/lib/message-queue.ts`, `ui/src/app/Root.tsx`) | queue in `localStorage`, `activeFlushes`, retry timer of an effect | `enqueueMessage`, `flushOutbox`, mount and unmount of the effect, server connection event | the runtime bridge |
| Start and stop (`ui/src/app/Root.tsx`, `ui/src/bridge/runtime.ts`) | the bridge in the window, one startup in flight | start effect, its cleanup, Retry, onboarding pages, background, sign-out | the node |
| Conversation page (`ui/src/bridge/chat/controller.ts`) | list of messages, history in `localStorage` | send, edit, retry, receipts, rejections, re-reading | the node, the outbox |
| Runtime bridge (`src/bridge/browser-runtime.ts`) | `activeConnections` | events of streams; otherwise a facade | node and pages |
| OMEMO, OpenPGP, persistence, discovery, shells, presentation | see `PROJECT.json` | | |

`PROJECT.json` lists every component, with the reason when it is not modelled, and
40 hazards, each at its line and each with the properties that watch it. The code is
single-threaded JavaScript: what runs between two `await`s is atomic, so the hazards
are interleavings *at* awaits, late events (`close`, timers), processes that share a
record (two senders, two tabs), and messages lost or repeated by a transport.

What makes the modelled components correct:

- **Streams.** A pair of ends is a reliable queue: in order, once, nothing let go of
  before it arrived; a resumption resends exactly what the peer lacks; the exchange
  of acknowledgements ends.
- **Peer streams and calls.** One open stream per peer, the registered one; a peer
  that was dialled and is lost is redialled; a closed node is quiet; every call that
  got its stream settles.
- **Mailbox.** What a flush has not handled stays in the record, once.
- **Outbox and start-up.** An accepted message is stored or was sent, is not repeated
  without need, and is tried again. Two nodes never start or run at once, and the one
  there is has the latest settings.
- **Roster, rooms, uploads.** An entry changes only as somebody asked; members of a
  room find each other and forget who left; lists of providers name nodes that have
  the object, and all of them.
- **Records.** An archive holds each message once, in one version, in whatever order
  they arrive; what is recorded is stored; a followed feed is heard, and its owner knows
  it; the status shown is that of the one client; the page shows what the history has,
  and the history lacks nothing that nobody took; an entity tag does not claim what was
  never imported.

## 2. Modules

| Module | Models | Composition |
| --- | --- | --- |
| `XmppStream` | one end of a stream as pure operators | used by the next ones |
| `ReliableStream` | abstract: what a pair of ends promises | |
| `StreamManagement` | two ends and one transport, from registration to close | extends `XmppStream`, implements `ReliableStream` |
| `StreamResumption` | two nodes, the transports they dial one after the other, the saved sessions | extends `XmppStream` |
| `PeerStreams` | the streams one node keeps to one peer, its dials, its timer, `close()` of the node | |
| `IqRequests` | requests, messages and answers over those streams, the list of connected peers | extends `PeerStreams` |
| `Roster`, `MucRooms`, `Uploads` | entries two nodes keep of one another; members of a room; copies of a file | `NodePresence` |
| `DhtMailbox`, `ChatHistory`, `MucHistory`, `TopicSubscriptions`, `ServerBridge`, `ChatPage`, `RssFeeds` | see below | `NodeRecords`, `MCNodeRecords` |
| `Outbox`, `NodeStartup` | the stored queue and its tabs; who starts and stops the node | `UserInterface` |
| `XmppStream_proofs`, `StreamManagement_proofs`, `StreamResumption_proofs`, `IqRequests_proofs` (with `PeerStreams`) | theorems about streams and calls | each extends its module and `TLAPS` |
| `UserInterface_proofs`, `NodePresence_proofs`, `Conversations_proofs` (archives and page), `NodeRecords_proofs` | theorems about the parts of a composition and about the whole | `NodeRecords_proofs` extends `Conversations_proofs` |

There are two kinds of composition. `IqRequests` shares the state of `PeerStreams`:
its steps are steps of the streams together with what the calls make of them.
`NodePresence`, `NodeRecords` and `UserInterface` put modules side by side that share
no state. There an interleaving adds nothing: whatever a part does, the others stay
as they are, and a property of one part reads only its variables. So a behaviour
follows the part that `part` names, and the number of states is the sum, not the
product, of the parts'. Fairness of a part at rest asks for nothing, since none of
its actions is enabled.

`MCMucHistory` gives `MucHistory` the one constant that a cfg cannot write down, which
message corrects which, and `MCNodeRecords` passes it on to `NodeRecords`. All other
constants have their values in the cfg.

**History variables.** Some overlaps the code does not guard against. They are in
the model, and a property that holds only without them says so by a history
variable with a comment: `overlap` and `ghost` (rooms), `excused` (saves), `evicted`
and `late` (group archive), `cut`, `stray`, `rival` and `clobbered` (topics),
`crossed` (server, start-up), `outrun` (start-up), `torn` (RSS), `wiped` and
`forgot` (uploads), `straggler` (closing). Section 4 lists what they stand for.

### XmppStream and StreamManagement

An end is a record with the fields of the class that matter: `open`,
`smEnabled`, `inCount` (`inboundStanzaCount`), `outCount`
(`outboundStanzaCount`) and `unacked` (`unackedQueue`). A stanza is its number, a
frame a kind and a number. `Counted` and `WithRequest` are the two halves of
`send()`, `OnStanza` is the parser's handler, `Acked` the `<a/>` branch,
`ToResend` `computeStanzasToResend`, `AfterSm` and `SmReply` the state change and
the answer of `handleSmElement`. In the code, `smResumable` is always set with
`smEnabled`, so one field stands for both.

Two consequences of the code that the model keeps: the test for an `<r/>` is made
in *every* `send()`, also of an `<a/>` or an `<enabled/>`, and a count of zero is a
multiple of the interval; and resent stanzas go out by `sendRaw`, without being
counted or queued again.

`wire[s]` holds what is in flight towards `s`, in order. `Break` empties both
directions, since nobody can say how much of what was pushed still arrives; an
end learns of it only by `Close`.

### StreamResumption

`registerStream` and its `close` handler, at both nodes. A node that has an
address for its peer restores its saved session and sends `<resume/>`, or sends
`<enable/>`; one that has none waits. Two simplifications: a new transport is
registered at both nodes in one step, and a stream's end, the saving of its
session and the removal of its entry are one step (the code runs them in one
synchronous event). A *replaced* stream is different: `close()` drains it first,
so that its event comes later (`ReplacedStreamClosed`), after the successor was
registered.

`dropped` is a history variable: the stanzas whose queue the code threw away,
because the stream did not count as enabled or because a session saved later
replaced it. `got` counts deliveries. A stanza may arrive twice after a
resumption, since the responder's counters start again at zero; nothing in the
code or in its documents promises otherwise and no property does.

### PeerStreams

`table` is `streams.get(peer)`, `dialling` and `redials` are the dials in
flight. `Register` closes what it replaces and cancels the timer only then;
`Closed` removes the entry only if it is its own, and schedules a reconnection
whichever stream it was. `XmppStream` objects are named by `Streams` and used
again once closed. `TimerFires` always dials: `peerAddrs` holds what was dialled,
and `parsePeerReference` of that always yields a target; `TimerGivesUp` is a timer
that finds no address, after `close()` has emptied `peerAddrs`. `attempts` saturates at `MaxAttempts`, as
the delay does at its maximum. `CloseNode` and `CloseNext` are `close()` of the node:
it clears the timers, awaits the streams one after the other and clears the map;
whatever was in flight may still register a stream (`straggler`).

### IqRequests

A call is a request (`sendIqRequest`) or a message (`sendOrBufferStanza`). `Begin`
asks for a stream, which may take a dial (`Dialled`, `NotDialled`). `SendRequest`
makes the entry of `pendingIq` and its timer, then sends, which throws on a stream
that closed meanwhile: the call is then rejected and its entry stays until the timer
takes it out. `AnswerArrives`, `TimesOut` and `ShutDown` compete for the entry. A
message that cannot be sent, or whose peer said it is inactive, goes to the mailbox
(`Mailed`). `AskArrives` to `AskFails` are a request of the peer, answered on
whatever stream is registered by then. `StreamEvent`, `CloseEvent` and `TimerEvent`
join the steps of `PeerStreams` to the list of connected peers of
`browser-runtime.ts` (`shown`).

### DhtMailbox

A sender's call queues behind earlier calls of its process (`waiting`), reads,
and puts what it read with its stanza appended (`put`). The owner's flush reads a
copy, handles its first stanza, puts the rest, and so on. A read or a put that
rejects ends the call; a put that rejects may have been carried out. `Restart`
loses the lock and the copy, `Expire` is the record's time to live. No single
operation lasts the seven days an expiry takes. `collectExpiredDhtEntries` is
called nowhere and takes no part.

### Outbox

`flush[t]` is what `activeFlushes` and the running `flushOutbox` of tab `t`
remember: the ids it took (`processed`), those it has still to send (`todo`),
those it failed to send, and whether the effect that began it is still mounted.
`FlushPending` is the function of that name in the effect of `Root.tsx`. `Send` is
`sendMessageOnce`: the message is sent, or queued, or refused by the storage. The
queue is a set: ids are unique and order matters only to the order of sending.
The account stays the same, and the user's own Retry is not modelled.

### Roster

`entry[n]` is what node `n` keeps of its peer: whether there is an entry, the
subscription as its two flags, and the pending `ask`. Every change goes through
`upsertRosterEntry`, which writes the map at once and then awaits the save queue of
the node. A handler (`handleSubscribe` and its kin) makes two changes: the first
makes an entry where there is none and gives it the flags to work with (`Receive`),
the second sets or clears one flag (`UpdateEntry`), after which it may answer
(`SendPresence`). What waits for the save queue stands in `tasks`, first in, first
out, with the flags it has read. A presence other than the four is recorded, which
makes an entry as well. `Connect` is `registerStream` at both nodes, which sends the
current presence and the pending request again (`flushRosterPresenceForPeer`);
`Disconnect` loses what is in flight.

`asked` and `last` are history variables. Left out: names, groups and vCards, the
roster of a classical server, and the resending of presences on a resumed stream.
The model shows three effects the code does not guard against: `Subscribe` writes
"to" over a subscription that was "from"; a handler with old flags undoes the
change of another; and a removed entry comes back with the peer's answer to the
removal. No document forbids the latter two; finding 4 is about a fourth.

### MucRooms

`joinRoom` awaits three subscriptions (`SubscribeNext`) and then replaces the state of
the room and announces itself (`EnterRoom`); `leaveRoom` publishes its farewell,
cancels the subscriptions one by one with the names it captured, and forgets the room
last. The interval and a newcomer's presence make a member announce itself meanwhile.
Delivery keeps the order per pair of members and may lose a presence. `SetSubject` and
`SendGroupMessage` follow the name of the topic, which the subject overwrites
(finding 5).

### MucHistory

`recordMucMessage` as operators on a sequence: `Known` (already there, or already
corrected), `Without` (what a correction replaces), `Trimmed` (the shared limit).
`Listed` is the page's own way to do the same. Messages arrive in any order and any
number of times; which one corrects which is the constant `Fix`.

### ChatHistory

`RecordChatMessage` puts the message in the bounded map and schedules one microtask;
`ChainSave` is that microtask, which appends a save to the promise chain; a save
writes local storage and then the DHT. `flushSaveQueue` (`CloseHistory`) waits for the
chain as it is. `RestartHistory` loads what is on disk, and the copy in the DHT
(`Loaded`) may bring older messages back.

### TopicSubscriptions

One pubsub topic per feed, wanted by up to three: a preview, a follow, a collection.
Each operation is split at its awaits: subscribe then record (`StartPreview`,
`RecordPreview`; `StartFollow`, `RecordFollow`, `EndFollow`; `StartAdd`, `AddStores`),
unsubscribe then delete (`StartUnfollow`, `Unfollow`, `EndUnfollow`). A new record may
push the oldest one out (`PushedOut`, `FollowLimit`): its topic stays subscribed and
its owner is told nothing, which the history variables `stray` and `rival` note. Which
record is the oldest is left open. `Declare` tells the owner of a feed of a change of
visibility. `RestartTopics` restores what was stored and drops the previews.

### ServerBridge

`connect()` drops the present client, looks for services and tries them one after
the other; `disconnect()` awaits the stop of the client it found. A client's stream
opens first (`Opens`, or `Reopens` after a lost connection) and is logged in later
(`GoesOnline`). The two events that show "connected" belong to different steps:
'reconnected' to `Reopens`, before the login, and 'online' to `GoesOnline`. `Drops`,
`Reconnecting` and `Complains` are the other events. `SendQuery` records a request
whenever there is a client, logged in or not; `SettleQuery` is its answer, its time-out
or a failure to send it. `crossed` records that a call overlapped a `connect()`.

### ChatPage

A message is on a list or not, and delivered or not; that a receipt came
(`receiptReceived`) is left out, since it decides nothing that is modelled. `attempt[t]`
holds what a call has captured before its await and writes back after it. `Store` is
`saveDirectChatMessage` with its merge, after which the page reads the history again
(`Reread`), some time later. `NewController` is the page left and opened again, or the
runtime coming or going: the new controller starts from the history, and what the
former one awaits still writes to the history, no longer to the page (`here`).
`HearText` is a message or a correction by the contact, or one of the user's own that
comes from another device or from the archive. The outbox appears only through what it
has delivered (`FlushSends`, `FlushDone`).

### RssFeeds

Each call of the manager is a record in `rssCall` with the copy of the source that it
read and the entries it has still to store or publish; one step is one storage
operation or one publication. A document lists the `Window` newest entries; the
server answers "not modified" to the tag of its current document. Any await may reject
(`Rejects`): inside the `try` of `doRefresh` the copy is then saved with the error,
elsewhere the call ends where it is. The promise of `saveEntries` is returned from that
`try` without an await, so that its failures are not caught (`guarded`). `CloseTab` ends
all calls where they are.

### NodeStartup

`starter` is the progress of whoever starts a node: runs of the start effect and the
two onboarding pages. All share one startup in flight (`Ensure`). `Inactive` is the
cleanup of an effect, after which its run stops the node it was waiting for.
`AfterStart` looks whether the configuration changed meanwhile. A call of `disconnect()`
closes the node, then stops its network (`NetworkStops`), then takes the node off the
window (`Returns`), however it ends (`StopEnds`, `StopFails`). A second call on the same
node does not wait for a network that the first is stopping (`Stopped`), and a network
whose stop has failed stays as it is (`HalfStopped`): in both cases the window is free
for a new node while the old one still exists, which `outrun` records. `Background` and
`Resume` are the phone.

### Uploads

A node stands for its own URLs, which are always listed together, and one object for
any. `HearsList` is `recordUploadManifest` up to the question to the storage,
`FindsOwnCopy` what follows it; `StartsPrefetch` to `StoresCopy` are
`fetchAndCacheUpload` with `storeUploadObject`, for a list that was heard or for a GET.
`UserUploads` and `AnnouncesUpload` are a PUT or `storeFile`, which write the object
first and the manifest after the metadata. Browsers have no HTTP server: they announce
what their users upload, but not what they fetched. Lists reach all nodes that are up,
in any order.

## 3. What is checked

Run `tlc -config X.cfg M` in this directory; a cfg is named after its run.

| Run (module) | States | Shows |
| --- | --- | --- |
| `StreamManagement` | 4,935 | implements `ReliableStream`; what is sent arrives; acknowledgements die out |
| `StreamResumption` | 105,384 | a stanza is lost only with its session; what is resumed arrives |
| `IqRequests` | 299,680 | one open stream, lost peers redialled, a closed node quiet, requests timed, calls settle, only connected peers listed |
| `NodePresence` | 172,212 | roster: entries change as was asked, requests settle. Rooms: a member hears its room, members meet, leavers are forgotten. Uploads: lists and copies agree |
| `NodeRecords` (`MCNodeRecords`) | 272,993 | mailbox, chat archive, group archive, topics, server, page, RSS: 14 properties |
| `Outbox` (`UserInterface`) | 294,605 | outbox: nothing accepted is lost or needlessly repeated, failures are retried. Start-up: one node that starts or runs, with the latest settings |
| `StreamResumption_saved`, `DhtMailbox_two_senders`, `Outbox_tried`, `Roster_unsubscribe`, `MucRooms_subject`, `MucHistory_corrected` | violations | findings 1 to 6 |

The runs that pass say `CHECK_DEADLOCK FALSE` because their systems may stop: the
bounds are used up, everything is settled, or the node is closed. That nothing waits
for ever is said by liveness properties instead (`CallsSettle`, `RedialIsTried`,
`FlushEnds`, `AskIsSettled`, `RecordedIsStored`, `FailedIsTriedAgain`).

States by part: `NodePresence` has 84,099 (roster), 43,964 (rooms) and 44,149
(uploads); `NodeRecords` 5,032 (mailbox), 24,492 (chat history), 196 (group history),
64,877 (topics), 60,698 (server), 60,608 (page) and 57,090 (RSS); `Outbox` 122,494
(outbox) and 172,111 (start-up). In the last three parts of `NodeRecords` and in the
start-up, calls, clients and nodes that differ in nothing but their order are numbered,
and the lowest number that is free is taken: this leaves no behaviour out.

**Bounds and why they are enough.** `AckInterval` is 5 in the code and 2 here, with two
stanzas each way: the counts pass a multiple of the interval, stand between two, and
both sides can stand at one at the same time. In `StreamResumption` two transports
give one resumption with stanzas before, during and after it; three are needed for a
resumed stream to close (`_saved`). One node dials in these runs; section 5 says what
happens when both do. `IqRequests` has one request, one message, one
request of the peer, two redials and two streams: one stream can replace another, or
be closed late, while a redial and the dial of a call are both in flight. `Roster` lets each user act
once and the stream be lost once, so that requests cross and either is cut off
anywhere on its way. `MucRooms`: four acts, so that two members both enter and either
leaves or enters again, and one lost presence. `Uploads`: three nodes of which one is
a browser, and two uploads among two nodes or one among three; one GET or closed node,
one failure, so that two copies are announced while a third is being fetched.
`DhtMailbox`: three stanzas, so that a flush has a head and a tail while another is
stored, and two flushes. `ChatHistory`: three messages for a limit of two, three acts,
one failure. `MucHistory`: five messages, of which one is corrected twice and a
correction corrected, for a limit of three. `TopicSubscriptions`: two feeds, four
operations and a limit of one record, so that a second follow pushes the first out;
every operation is on one feed, or on the collection both may be in. `ServerBridge`:
two connects, one disconnect, two services, one lost connection, so that one call can
overlap another at each of its awaits and a client reconnect. `ChatPage`: one message
each way, the user's with its edited version, two calls at once and one refused save;
corrections by the contact, which take the path of the user's own that come from
elsewhere, only in a larger instance. `RssFeeds`: two overlapping calls, three documents
of two entries for a limit of two, one await that rejects. `Outbox`: two tabs, two
messages, one fault each. `NodeStartup`: two runs of the effect, three acts and one
failing start or stop, so that two calls of `disconnect()` overlap on one node and
another is started.

Larger instances were checked once and passed: rooms with five acts (1.4 million
states), topics with six operations (2.3 million) and with a limit of two records, the
server with two lost connections (94,315), RSS with two rejecting awaits (68,963), the
page with corrections by the contact (180,344) and with two refused saves (124,983),
start-up with four acts and three nodes (5.4 million) and with two failures (283,139),
uploads with three hosts and two uploads (5.2 million).

**Fairness.** Only what the event loop or a timer of the program guarantees. Streams:
an open stream goes on reading data that has arrived; nobody must send, dial or close.
`IqRequests`: pending timers fire, a call that has its stream goes on, and a put to the
mailbox settles; nothing says that a dial does. `DhtMailbox`: the handler and the put
of a flush settle, one way or the other. `ChatHistory`: while there is a microtask to
run or a write to come back, one of them does. `Roster`: what arrived is handled and
saves end. `MucRooms`: the interval fires, what arrived is handled, and subscriptions
settle. `Outbox`: timers fire, sends settle and a flush ends; no send is assumed to
succeed. The other modules state safety only.

**Mutants.** Each property is shown to fail when one definition is replaced by a
plausible slip. The slips stand in the modules before the definitions they mutate and
are used by nothing else.

## 4. Findings

1. *A resumed session is not saved again* (`core/xmpp-node.ts:1455`): `smEnabled` is
   set by `<enable/>` and `<enabled/>` only. After a resumption, the next
   disconnection throws the queue away.
2. *Two senders overwrite each other* (`core/xmpp-dht.ts:199`): the lock is one
   process's. A stanza a flush still counts on can vanish from the record.
3. *A queued message may wait for ever* (`ui/src/bridge/chat/controller.ts:602`):
   when the server is connected and no retry is pending, nothing flushes the
   outbox, although the user is told it will retry automatically.
4. *Unsubscribing is not honoured* (`core/xmpp-roster.ts:151`): on `unsubscribe` the
   peer clears "to", its own subscription, and keeps "from"; on `unsubscribed` it
   clears "from". A user who has unsubscribed stays listed as a subscriber.
5. *A subject moves a room* (`core/xmpp-muc.ts:502`): the subject a member types also
   becomes the name of the topic it publishes on, which nobody in the room follows.
6. *A corrected message leaves the archive* (`core/xmpp-muc.ts:406`): an archive query
   after a message and its correction returns the correction alone, where
   `tests/muc-extensions.ts:168-211` waits for both. `ArchiveHoldsOneVersion`
   states what the code does; `CorrectedIsArchived` what the test expects.

Other places where the code and its words part, met while modelling; the model follows
the code, and no run is devoted to them:

- *The accepting node asks too* (`core/xmpp-node.ts:1480`). `isOutbound` tells whether
  the peer was ever dialled, not who opened this stream, although the comment at `:1476`
  says that `<enable>` and `<resume>` "must only be sent by the stream initiator". Once
  both nodes have dialled one another, a resumption may meet an `<enable/>` of the node
  that saved no session; an `<a/>` on that stream then releases stanzas of the restored
  queue that never arrived. `StreamResumption` is therefore checked and proved for a
  pair of which one node dials (`Diallers`).
- *A private follow may stay public* (`core/xmpp-feed.ts:469`). A public follow that is
  followed anew in private is not withdrawn, and a change to private while the public
  follow is still being set up is declared before it. The owner then lists the follower,
  although "Private subscription should not appear as a public follower"
  (`tests/subscriptions.ts:92`). `rival` excuses both until a later change.
- *Not visible for long* (`ui/src/bridge/chat/controller.ts:606`, `635`). The toast says a
  message is "still visible here; tap Retry after reconnecting", but reconnecting makes
  the controller anew (`useChatBridge.ts:8`), and a message that could be neither queued
  nor saved is gone. `PageShowsConversation` holds it to the controller's life.

What the code does besides, and no document forbids, so that it is in the model and
no run expects a violation:

- *Streams.* When both counts stand at a multiple of five, each `<a/>` is followed by
  an `<r/>` until one side sends a stanza (`AckTrafficDiesOut` excludes that case). The
  end of a replaced stream takes a connected peer off the list of the runtime. While
  `close()` replaces a stream by itself, a stream may stay open that no map names. A
  handler that throws leaves a request of the peer unanswered.
- *Rooms.* A member that vanished, or whose farewell was lost, stays on the lists for
  ever. A join and a leave that overlap cancel each other's subscriptions. A received
  message is emitted twice, once per topic. An evicted message that comes again is
  archived anew, and a correction whose original is gone stands alone.
- *Chat history.* Messages without a stamp sort before those with one, so that after a
  restart what was received is evicted first. The copy from the DHT may push out newer
  local messages at the limit. `close()` does not see a save whose microtask has not run.
- *Topics.* Unfollowing a feed, or stopping its preview, deafens a collection that has
  it as a member. A follow that the limit of 200 pushes out of the record stays subscribed,
  and the owner of a public one goes on listing the follower. Two additions to a
  collection that overlap lose a member.
- *Server.* `disconnect()` during `connect()` does not stop its search for services; two
  overlapping `connect()`s leave a client alive that nobody knows; a `connect()` that
  fails disconnects whatever client is current by then. An `error` event shows "error"
  while the client stays online. After a reconnection "connected" is shown before the
  login, and requests are taken whenever there is a client, logged in or not.
- *Page.* A send writes back the list it took before its await, until the history is
  read again. A receipt that comes before the send returns is dropped; the mark that one
  came (not in the model) is taken away by a retry's old copy and by an own correction
  that comes from the archive; two retries of one message may run at once.
- *RSS.* The tag is saved before the entries: a tab closed between the two, or a write
  refused, hides them behind "not modified". A refresh in flight undoes a pause or a change of sharing, and
  brings back a source that was removed. `sharedEntryIds` is cut at the limit, so that
  an entry may be published again after a failure; an evicted entry that is still listed
  comes back as new.
- *Start-up.* A second `disconnect()` of a node returns while the first is stopping its
  network, and a network whose stop fails stays up: a new node may then start beside the
  old one. A retry or resume while a start is in flight ends with a cleaned-up run that
  stops the shared node; a resume that finds the old bridge still stopping starts
  nothing (`ui/src/app/Root.tsx:201`), although `ui/src/lib/native-lifecycle.ts:4` and
  `Root.tsx:188` say that resuming starts a fresh client. A sign-out that fails leaves
  the app with neither a node nor a Retry.
- *Uploads.* A list heard while the storage is asked is overwritten by the older one, and
  the own upload of a node overwrites all it has heard. When the metadata of a copy
  cannot be written the object is deleted as "orphaned", though only another writer can
  have stored it. A node that lost its object and is on its own list asks itself.

## 5. What is proved

All proofs are checked by TLAPS for every value of the constants that satisfies the
named assumptions of the modules, which TLC evaluates in the runs. Every invariant and
every action property that a passing run checks is also a theorem. For the three
compositions of independent parts, `PartsRunAlone` (`UserInterface_proofs`,
`NodePresence_proofs`) and `RecordsRunAlone` (`NodeRecords_proofs`) show that a behaviour
of the whole is a behaviour of each part, so that the theorems about the parts hold side
by side; `RecordsTypeCorrect` is the type invariant of all seven parts together.

- **`StreamManagement_proofs`.** `IInv` says of each direction that the queue is the
  unbroken tail of what was sent (`QueueIsTail`), that what left the queue was
  counted by the peer (`AckedWasReceived`), that no acknowledgement in flight is
  ahead of its sender (`FramesInFlight`), and that the stanzas in flight are ahead of
  the receiver, in order, and complete while the transport works (`StanzasAhead`,
  `StanzasOrdered`, `StanzasComplete`). None of the last three can be dropped:
  delivery in order needs that the next stanza in flight is the next one due, which
  needs both order and completeness. From `IInv` follow the types, delivery once and
  in order, and `UnackedCoversUndelivered` (a stanza that has not arrived is still
  queued). `Refinement` shows that every step is a step of `ReliableStream` or leaves
  its state alone, under the mapping of `StreamManagement`: `Send` for `SendStanza`,
  `Give` for `ReceiveStanza`, `Release` for an `<a/>`, `Stop` for a close. The lemmas
  about the operators of one end are in `XmppStream_proofs`.
- **`StreamResumption_proofs`.** `NothingLost` is proved for any number of stanzas and
  transports, under `Diallers # Node`: one of the nodes only accepts. `IInv` rests on
  what the code makes of such a stream: it is `Fresh`, with a session that began on it,
  so that the counts of both ends fit what was sent and what arrived (`Fits`); or
  it is `Quiet`, a resumption, on which no end is enabled and no count is ever
  exchanged. `Books` follows the queues through saved sessions and streams that drain.
  The assumption is needed. If both nodes dial, a node that resumes can meet one that
  has saved nothing and sends `<enable/>`: the stream is enabled with restored counts at
  one end and counts from zero at the other, whose `<a/>` for a stanza sent since then
  releases the first one of the restored queue. TLC shows this with
  `Diallers = {"a", "b"}` at the 14th state; section 4 lists it.
- **`IqRequests_proofs`.** About `PeerStreams`: `OnlyRegisteredIsOpen` with the types is
  inductive, and so is `LostPeerIsRedialled` together with it: the two ways to lose the
  entry, the close event and the replacement, set the timer or leave a stream.
  `ClosedNodeIsQuiet` needs that the loop of `close()` has been past what it leaves
  behind. About the composition: every step is a step of `PeerStreams` or leaves it
  alone (`CallsKeepStreams`), which carries these theorems over; the table and the timers
  are one set (`RequestsAreTimed`), and the list of connected peers follows the
  registered stream (`ListedPeersHaveStreams`).
- **`UserInterface_proofs`.** Outbox: `AcceptedIsKeptOrSent` needs that a flush accounts
  for each message of its copy (`Accounted`): it is still to send, has failed, or was
  sent. `SentOncePerTab` needs that whatever a tab may still send has been sent at most
  as often as the tab had faults (`NotYetSent`). Start-up: `OneNodeAtATime` holds however
  calls overlap: all starters share one startup in flight, none begins while the window
  has a node, and every node that is up is the one of the window (`SoleNode`). That a
  node which is being stopped is still the one of the window needs that only the call
  that stops its network takes it off (`OneStopper`), which is so until a second call
  returns before it or the stop of a network fails (`outrun`); after that the theorem
  only says that the nodes beside the one that starts or runs are stopping.
  `NodeFollowsSettings` needs `Orderly`, which
  says, while nothing has crossed, who may be starting and what is being stopped
  (`OneStarts`, `OneStops`), that a user who is set up has a node, an error, or a start
  to come (`WillHaveNode`), and that a node of another account or configuration is about
  to be replaced (`OfThisAccount`, `OfThisConfig`).
- **`NodePresence_proofs`.** Roster: `GrantedOnlyToWhoAsked` speaks of entries only, but an
  entry can be changed by a presence in flight and by a handler that waits with flags it
  has read. `IInv` says of all three that they are warranted by what was asked; `Kept`
  reduces a step to the parts it changes. Uploads: names are lists in six places, and
  `HoldersOnly` says of each that it names holders; `Remembered` says that an
  announcement stays on a list or on its way to it. It is stronger than what the run
  checked at first and has replaced that in `ListsMatchCopies`: nothing need have come
  to rest. Rooms: a member is subscribed to what its join has been past, unless it is
  leaving (`Subscribed`).
- **`Conversations_proofs`.** The archive of a room: `ArchiveHoldsOneVersion` and
  `PageShowsArchive` are inductive together with what the originals are that came late;
  that an archive is only trimmed when it is full is an argument about lengths. The page:
  a list, the one on the page as the one a send has captured, shows nothing as delivered
  that was not taken and lacks nothing that no one took (`Honest`, `InSight`): of the
  controller's messages on the page, of all that were written in a history that refused
  no save (`HistoryIsSafe`). A send of the page's controller, of which there is at most
  one, will write back such a list (`SendsAreSafe`), one of a former controller none; and
  the page agrees with the history unless it is marked as outdated (`InStep`). A new
  controller keeps all this because it starts from the history. The archive of direct
  chats: what was recorded is stored, or a save is scheduled or queued (`SaveToCome`),
  and what `close()` promised is stored, or is with one of the saves it waits for
  (`PromiseToCome`).
- **`NodeRecords_proofs`, mailbox.** `MailIInv`: every copy of the record, stored, read or
  about to be put, holds only stanzas of settled calls, each once, and a pending put
  extends such a copy by the stanza of the next call of its process. `HeldOnce` follows
  for any number of senders. With one sender, `TailIInv` adds that the record holds what
  the flush has left and that a pending put holds all that the record does; this gives
  `TailStaysQueued` and `OnlyAnOlderFlushLoses`. Finding 2 shows that one sender is
  needed.
- **Topics.** Three invariants per feed: `HeardInv` (a follow that is recorded or about to
  be is heard), `ReasonInv` (a topic that is heard has a user, or an operation under way
  that will see to it, or is `stray`) and `DeclaredInv` (the owner knows, or a declaration
  is owed, unless the feed is a `rival`). A record that the limit pushes out makes its
  topic stray and its declaration a rival; both are made good only by a later change.
  `ReasonInv` needs `MembersAreIndexed`, which is proved beside it: an addition holds an
  old copy of the members, but only adds to the index.
- **Server.** `OneClientAndItsStatus` has two halves. `ClientAndStatus` holds however the
  calls overlap: the known client was not stopped, since whoever stops one forgets the
  known one; what shows "connected" opens a stream; every way to lose the client rejects
  what is pending. While no call has crossed a `connect()`, at most one call is under way,
  and the client it awaits or stops is the known one (`OneCall`); from this follows that
  no other is alive and that the status is that client's (`OneClient`).
- **RSS.** `RssIInv`: until a removal, a closed tab or a refused write tears a call, each
  tag, in the record and in the copy of any call, is covered (`Tags`), which means that
  every entry of its document is stored, is beyond the limit (`Beyond`: as many newer ones
  are stored) or is about to be stored by a call. Overlapping calls may overwrite the
  record and evict entries of one another, but an eviction takes only what is beyond the
  limit and leaves it there, which is an argument by counting. An await that rejects
  leaves the record or writes back a copy, and every copy that has taken a tag has an
  entry in the record or entries still to store. `RssShape` says what each call holds at
  each of its awaits.

Theorems are by induction over steps. Where data needs one as well (a fold over a
sequence, as in the archives), it is written as a fact about sets: a set that has zero and
with each number the next one has every number (`SetOfNumbers`); the theorems of the
library that take an operator are not used.

Only model-checked: all liveness (`ResentIsDelivered` and the properties of section 3
that say that something settles; fairness and ENABLED are out of the prover's reach),
and of `UploadTypeOK` the bound of `uploads`, which counts the nodes that are up: the
facts about cardinality are in a module of the library that cannot be used together
with bags. What the proofs need of the types is proved as `Shape`.

## 6. What is not modelled

- XML framing, payloads, Atom documents, vCards, records: conversions that no property
  tells apart. OMEMO, OpenPGP and their ratchets, libp2p and gossipsub, the
  @xmpp/client library, IndexedDB and SQLite: libraries, modelled where the code meets
  them by what they may do (deliver, lose, fail, reconnect).
- Presentation: the pages and the terminal interface, drafts, pickers, typing states.
  Their state is a copy of what the modelled managers keep, or local to one component.
  They are the larger half of the code by lines, and with the conversions the reason
  why the map covers a small share of it.
- Of modelled components: posts and followers of a node's own feed, collection posts,
  archive queries between nodes, the encryption of group messages, discovery of
  services, slots and aliases of uploads, discovery and parsing of RSS documents,
  restored server settings at start-up.
- Compositions that share state but would be too large for TLC: the direct path with the
  mailbox (a stanza may be both queued for resumption and buffered), the page with the
  outbox and the server connection. Their parts are checked apart, each with the other
  as an environment that may do anything it does.
- Simplifications inside modules are named in their comments and in section 2; in
  `Uploads` also: storage answers for one node come in order, the list is not persisted
  and a closed node does not come back, and `upload://` URLs are left out of a list since
  nothing can be fetched from them.

## 7. Plan

1. *(done)* Streams: `XmppStream`, `StreamManagement`, `ReliableStream` and the
   refinement; `StreamResumption`; `PeerStreams`; `IqRequests`; their proofs.
2. *(done)* Mailbox, outbox, roster and their proofs.
3. *(done)* Group chat, chat history, topics, server connection, the conversation page,
   RSS, start-up, uploads; proofs for topics and server.
4. Left: OMEMO session set-up with prekeys consumed by two messages at once; the queries
   of archives between nodes; followers of a node's own feed.
5. *(done)* Proofs of every invariant and action property that a run checks.
6. Left: the bound on uploads in the type invariant of `Uploads`; `NothingLost` for two nodes that
   both dial, which needs the code to change first.
