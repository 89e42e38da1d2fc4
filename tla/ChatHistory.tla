----------------------------- MODULE ChatHistory -----------------------------
(***************************************************************************)
(* The archive of direct messages: in memory, in local storage and as one   *)
(* record in the DHT (src/core/xmpp-chat.ts).  Recording a message schedules *)
(* one microtask that appends a save to the promise chain                    *)
(* chatHistorySaveQueue; close() awaits the chain as it is at that moment.   *)
(* Saves may fail, and the program may stop between any two steps.           *)
(***************************************************************************)
EXTENDS Integers, Sequences

CONSTANTS
    ChatIds,        \* the messages, each named by its id
    Stamped,        \* those with a delay stamp: what this user sent
    ChatLimit,      \* CHAT_HISTORY_LIMIT
    ChatMaxActs,    \* bound: records and restarts in a behaviour
    ChatMaxFails    \* bound: writes that fail

ASSUME ChatAssumption ==
    /\ Stamped \subseteq ChatIds
    /\ ChatLimit \in Nat \ {0}
    /\ ChatMaxActs \in Nat /\ ChatMaxFails \in Nat

VARIABLES
    chat,       \* chatHistory, in the order of insertion
    disk,       \* the chat_history record of the local storage
    dht,        \* the archive record in the DHT
    scheduled,  \* persistScheduled: the microtask has not run
    queued,     \* saves in the chain that have not begun
    job,        \* what the running save awaits, and what it is writing
    phase,      \* "open", "closing" while flushSaveQueue is awaited, "closed"
    owed,       \* saves that flushSaveQueue still waits for
    recorded,   \* history: ids recorded since the program started
    promised,   \* history: those recorded when close() began to wait and kept since
    excused,    \* history: a local write failed, or a save was not chained yet
    chatActs, chatFails     \* bounds

chatVars == <<chat, disk, dht, scheduled, queued, job, phase, owed, recorded,
              promised, excused, chatActs, chatFails>>

Items(s) == {s[i] : i \in 1..Len(s)}
NoJob == [on |-> "none", copy |-> <<>>]

ChatTypeOK ==
    /\ chat \in Seq(ChatIds) /\ disk \in Seq(ChatIds) /\ dht \in Seq(ChatIds)
    /\ scheduled \in BOOLEAN
    /\ queued \in Nat
    /\ job \in [on : {"none", "disk", "dht"}, copy : Seq(ChatIds)]
    /\ phase \in {"open", "closing", "closed"}
    /\ owed \in Nat
    /\ recorded \subseteq ChatIds /\ promised \subseteq ChatIds
    /\ excused \in BOOLEAN
    /\ chatActs \in 0..ChatMaxActs /\ chatFails \in 0..ChatMaxFails

ChatInit ==
    /\ chat = <<>> /\ disk = <<>> /\ dht = <<>>
    /\ scheduled = FALSE
    /\ queued = 0
    /\ job = NoJob
    /\ phase = "open"
    /\ owed = 0
    /\ recorded = {} /\ promised = {}
    /\ excused = FALSE
    /\ chatActs = 0 /\ chatFails = 0

-----------------------------------------------------------------------------
(* The map and its limit *)

\* Map.set: a known key keeps its place.
Put(s, i) == IF i \in Items(s) THEN s ELSE Append(s, i)

\* The first keys go until the limit holds.
Trim(s) == IF Len(s) > ChatLimit THEN SubSeq(s, Len(s) - ChatLimit + 1, Len(s)) ELSE s

\* The messages of s that are in S, in their order.
Only(s, S) ==
    LET f[i \in 0..Len(s)] == IF i = 0 THEN <<>>
                              ELSE IF s[i] \in S THEN Append(f[i - 1], s[i]) ELSE f[i - 1]
    IN  f[Len(s)]

\* persistChatHistoryState writes the messages by stamp, and a message without
\* one sorts before all others: what was received before what was sent.
ByStamp(s) == Only(s, ChatIds \ Stamped) \o Only(s, Stamped)

\* loadChatHistory: the local record first, then what only the DHT has.
Loaded(local, remote) ==
    Trim(Trim(local) \o Only(remote, ChatIds \ Items(Trim(local))))

-----------------------------------------------------------------------------
(* Recording and saving *)

\* Slip: a save that has begun is taken for one that will see the message.
RecordsWithoutSave(i) ==
    /\ phase # "closed" /\ chatActs < ChatMaxActs
    /\ chat' = Trim(Put(chat, i))
    /\ scheduled' = (scheduled \/ job.on = "none")
    /\ recorded' = recorded \cup {i}
    /\ promised' = promised \cap Items(chat')
    /\ chatActs' = chatActs + 1
    /\ UNCHANGED <<disk, dht, queued, job, phase, owed, excused, chatFails>>

\* recordChatMessage: sent, received, carried over by the server, or from the
\* archive of a peer, which may repeat what is known.
RecordChatMessage(i) ==
    /\ phase # "closed" /\ chatActs < ChatMaxActs
    /\ chat' = Trim(Put(chat, i))
    /\ scheduled' = TRUE
    /\ recorded' = recorded \cup {i}
    /\ promised' = promised \cap Items(chat')
    /\ chatActs' = chatActs + 1
    /\ UNCHANGED <<disk, dht, queued, job, phase, owed, excused, chatFails>>

\* The microtask of scheduleChatPersist.
ChainSave ==
    /\ phase # "closed" /\ scheduled
    /\ scheduled' = FALSE
    /\ queued' = queued + 1
    /\ UNCHANGED <<chat, disk, dht, job, phase, owed, recorded, promised,
                   excused, chatActs, chatFails>>

\* The next save of the chain copies the map and writes it to local storage.
BeginSave ==
    /\ phase # "closed" /\ queued > 0 /\ job.on = "none"
    /\ queued' = queued - 1
    /\ job' = [on |-> "disk", copy |-> ByStamp(chat)]
    /\ UNCHANGED <<chat, disk, dht, scheduled, phase, owed, recorded, promised,
                   excused, chatActs, chatFails>>

\* persistChatHistoryToDht copies the map again.
LocalWritten ==
    /\ phase # "closed" /\ job.on = "disk"
    /\ disk' = job.copy
    /\ job' = [on |-> "dht", copy |-> chat]
    /\ UNCHANGED <<chat, dht, scheduled, queued, phase, owed, recorded, promised,
                   excused, chatActs, chatFails>>

\* The save ends, whatever came of it; one fewer for close() to wait for.
SaveEnds ==
    /\ job' = NoJob
    /\ owed' = IF owed > 0 THEN owed - 1 ELSE 0

\* A failed local write ends the save before the DHT is tried; only logged.
LocalFails ==
    /\ phase # "closed" /\ job.on = "disk" /\ chatFails < ChatMaxFails
    /\ SaveEnds
    /\ excused' = TRUE
    /\ chatFails' = chatFails + 1
    /\ UNCHANGED <<chat, disk, dht, scheduled, queued, phase, recorded, promised, chatActs>>

\* A failed write to the DHT is logged and ends the save as a good one does.
DhtEnds ==
    /\ phase # "closed" /\ job.on = "dht"
    /\ SaveEnds
    /\ \/ dht' = job.copy /\ UNCHANGED chatFails
       \/ dht' = dht /\ chatFails < ChatMaxFails /\ chatFails' = chatFails + 1
    /\ UNCHANGED <<chat, disk, scheduled, queued, phase, recorded, promised,
                   excused, chatActs>>

-----------------------------------------------------------------------------
(* Closing and starting again *)

InChain == queued + (IF job.on = "none" THEN 0 ELSE 1)

\* flushSaveQueue awaits the chain; a microtask that has not run is not in it.
CloseHistory ==
    /\ phase = "open"
    /\ phase' = "closing"
    /\ owed' = InChain
    /\ promised' = recorded \cap Items(chat)
    /\ excused' = (excused \/ scheduled)
    /\ UNCHANGED <<chat, disk, dht, scheduled, queued, job, recorded, chatActs, chatFails>>

\* The chain is done and the storage is closed.
Closed ==
    /\ phase = "closing" /\ owed = 0
    /\ phase' = "closed"
    /\ UNCHANGED <<chat, disk, dht, scheduled, queued, job, owed, recorded,
                   promised, excused, chatActs, chatFails>>

\* The program stops, closed or not, and starts again.
RestartHistory ==
    /\ chatActs < ChatMaxActs
    /\ chat' = Loaded(disk, dht)
    /\ scheduled' = FALSE
    /\ queued' = 0
    /\ job' = NoJob
    /\ phase' = "open"
    /\ owed' = 0
    /\ recorded' = {} /\ promised' = {}
    /\ excused' = FALSE
    /\ chatActs' = chatActs + 1
    /\ UNCHANGED <<disk, dht, chatFails>>

ChatNext ==
    \/ \E i \in ChatIds : RecordChatMessage(i)
    \/ ChainSave \/ BeginSave \/ LocalWritten \/ LocalFails \/ DhtEnds
    \/ CloseHistory \/ Closed \/ RestartHistory

ChatSpec == ChatInit /\ [][ChatNext]_chatVars

\* While there is a microtask to run or a write to come back, one of them does;
\* nobody has to record, close or restart.
ChatFairness ==
    WF_chatVars(ChainSave \/ BeginSave \/ LocalWritten \/ LocalFails \/ DhtEnds \/ Closed)

ChatFairSpec == ChatSpec /\ ChatFairness

-----------------------------------------------------------------------------
(* Properties *)

\* A recorded message gets into local storage, unless the limit drops it, a
\* write fails or the program stops first: again and again there comes a moment
\* at which it is there or need not be.
RecordedIsStored ==
    \A i \in ChatIds :
        []<>(i \in recorded => \/ i \in Items(disk) \/ i \notin Items(chat)
                               \/ excused \/ phase = "closed")

\* close() returns when all that was recorded before it is in local storage,
\* unless a write failed or a message was recorded in the same turn.
CloseWaitsForSaves ==
    (phase = "closed" /\ ~excused) =>
        promised \subseteq Items(disk)

=============================================================================
