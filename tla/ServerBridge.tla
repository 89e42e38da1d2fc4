----------------------------- MODULE ServerBridge -----------------------------
(***************************************************************************)
(* The connection of a node to a classical XMPP server                     *)
(* (src/core/xmpp-client-bridge.ts).  connect() drops the client there is,  *)
(* looks for services and tries them one after the other, each with a       *)
(* client of its own; disconnect() stops the current client.  All of them   *)
(* await and none looks again at what the others did meanwhile.  The client *)
(* is that of the @xmpp/client library: it reconnects by itself.            *)
(***************************************************************************)
EXTENDS Naturals

CONSTANTS
    Connects,       \* calls of connect(), numbered as they are made
    Disconnects,    \* calls of disconnect() by the user
    Clients,        \* the clients, numbered as they are made
    NoClient,
    Services,       \* services tried by a connect()
    Queries,        \* IQ requests to the server
    BridgeMaxDrops  \* bound: connections the network takes away

ASSUME BridgeAssumption ==
    /\ Connects \subseteq Nat /\ Clients \subseteq Nat
    /\ NoClient \notin Clients /\ Connects \cap Disconnects = {}
    /\ Services \in Nat \ {0} /\ BridgeMaxDrops \in Nat

Owners == Connects \cup Disconnects

VARIABLES
    client,     \* this.client
    link,       \* the library's state of each client that is still listened to
    status,     \* this.status
    conn,       \* progress of each connect(): services tried, client it awaits
    stopping,   \* the client whose stop() a disconnect() awaits, by its caller
    called,     \* calls of disconnect() by the user that were made
    query,      \* progress of each request
    crossed,    \* history: a connect() overlapped another call
    bridgeDrops \* bound

bridgeVars == <<client, link, status, conn, stopping, called, query, crossed,
                bridgeDrops>>

Live == {"starting", "open", "online", "down"}
Idling == [pc |-> "idle", tried |-> 0, mine |-> NoClient]

BridgeTypeOK ==
    /\ client \in Clients \cup {NoClient}
    /\ link \in [Clients -> {"unused", "stopped"} \cup Live]
    /\ status \in {"disconnected", "connecting", "connected", "error"}
    /\ conn \in [Connects -> [pc : {"idle", "clearing", "looking", "starting",
                                    "backing", "done", "failed"},
                              tried : 0..Services,
                              mine : Clients \cup {NoClient}]]
    /\ stopping \in [Owners -> Clients \cup {NoClient}]
    /\ called \subseteq Disconnects
    /\ query \in [Queries -> {"none", "pending", "settled"}]
    /\ crossed \in BOOLEAN
    /\ bridgeDrops \in 0..BridgeMaxDrops

BridgeInit ==
    /\ client = NoClient
    /\ link = [k \in Clients |-> "unused"]
    /\ status = "disconnected"
    /\ conn = [c \in Connects |-> Idling]
    /\ stopping = [o \in Owners |-> NoClient]
    /\ called = {}
    /\ query = [q \in Queries |-> "none"]
    /\ crossed = FALSE
    /\ bridgeDrops = 0

Connecting(c) == conn[c].pc \notin {"idle", "done", "failed"}
Busy == (\E c \in Connects : Connecting(c)) \/ \E o \in Owners : stopping[o] # NoClient

\* Every pending request is rejected and its timer cleared.
Rejected == [q \in Queries |-> IF query[q] = "pending" THEN "settled" ELSE query[q]]

-----------------------------------------------------------------------------
(* Slips *)

\* The next service is tried without stopping the client that failed.
FailsWithoutStopping(c) ==
    /\ conn[c].pc = "starting"
    /\ conn' = [conn EXCEPT ![c].pc = "looking"]
    /\ status' = "error"
    /\ UNCHANGED <<client, link, stopping, called, query, crossed, bridgeDrops>>

-----------------------------------------------------------------------------
(* disconnect() *)

\* With a client the caller o awaits its stop(); without one it is over at once.
Disconnecting(o) ==
    IF client = NoClient
    THEN status' = "disconnected" /\ UNCHANGED stopping
    ELSE stopping' = [stopping EXCEPT ![o] = client] /\ UNCHANGED status

\* stop() is back: the listeners go, and so does this.client, whichever client
\* that is by now; `next` is the status that the caller goes on with.
Stops(o, next) ==
    /\ link' = [link EXCEPT ![stopping[o]] = "stopped"]
    /\ client' = NoClient
    /\ status' = next
    /\ query' = Rejected
    /\ stopping' = [stopping EXCEPT ![o] = NoClient]

UserDisconnects(d) ==
    /\ d \notin called
    /\ called' = called \cup {d}
    /\ Disconnecting(d)
    /\ crossed' = (crossed \/ Busy)
    /\ UNCHANGED <<client, link, conn, query, bridgeDrops>>

UserDisconnected(d) ==
    /\ stopping[d] # NoClient
    /\ Stops(d, "disconnected")
    /\ UNCHANGED <<conn, called, crossed, bridgeDrops>>

-----------------------------------------------------------------------------
(* connect() *)

ConnectServer(c) ==
    /\ conn[c].pc = "idle" /\ \A b \in Connects : conn[b].pc = "idle" => c <= b
    /\ conn' = [conn EXCEPT ![c].pc = IF client = NoClient THEN "looking" ELSE "clearing"]
    /\ IF client = NoClient THEN status' = "connecting" /\ UNCHANGED stopping
                            ELSE Disconnecting(c)
    /\ crossed' = (crossed \/ Busy)
    /\ UNCHANGED <<client, link, called, query, bridgeDrops>>

\* The old client is stopped, or the one that failed; the lookup of services is
\* awaited before the first, nothing before the others.
Cleared(c) ==
    /\ conn[c].pc \in {"clearing", "backing"} /\ stopping[c] # NoClient
    /\ Stops(c, IF conn[c].pc = "clearing" THEN "connecting" ELSE "disconnected")
    /\ conn' = [conn EXCEPT ![c].pc = "looking"]
    /\ UNCHANGED <<called, crossed, bridgeDrops>>

\* connectToService: this.client is overwritten.
TryService(c, k) ==
    /\ conn[c].pc = "looking" /\ conn[c].tried < Services
    /\ link[k] = "unused" /\ \A j \in Clients : link[j] = "unused" => k <= j
    /\ conn' = [conn EXCEPT ![c] = [pc |-> "starting", tried |-> @.tried + 1, mine |-> k]]
    /\ client' = k
    /\ link' = [link EXCEPT ![k] = "starting"]
    /\ status' = "connecting"
    /\ UNCHANGED <<stopping, called, query, crossed, bridgeDrops>>

\* Every service has failed, or the address the user typed is none.
GiveUp(c) ==
    /\ conn[c].pc = "looking" /\ conn[c].tried \in {0, Services}
    /\ conn' = [conn EXCEPT ![c].pc = "failed"]
    /\ status' = "error"
    /\ UNCHANGED <<client, link, stopping, called, query, crossed, bridgeDrops>>

\* The time-out, an error or the end of the connection, each with its event: the
\* call disconnects whatever client is the current one and goes on with the next
\* service; after an authentication failure with none.
FailsToStart(c) ==
    /\ conn[c].pc = "starting"
    /\ \E tried \in {conn[c].tried, Services} :
          conn' = [conn EXCEPT ![c] = [pc |-> IF client = NoClient THEN "looking" ELSE "backing",
                                       tried |-> tried, mine |-> NoClient]]
    /\ \/ /\ link[conn[c].mine] \in Live                    \* 'disconnect'
          /\ link' = [link EXCEPT ![conn[c].mine] = "down"]
          /\ status' = "disconnected" /\ query' = Rejected
       \/ /\ status' \in IF client = NoClient THEN {"disconnected"} ELSE {status, "error"}
          /\ UNCHANGED <<link, query>>
    /\ stopping' = [stopping EXCEPT ![c] = client]
    /\ UNCHANGED <<client, called, crossed, bridgeDrops>>

-----------------------------------------------------------------------------
(* The life of a client *)

Awaited(k) == \E c \in Connects : conn[c].pc = "starting" /\ conn[c].mine = k
BeingStopped(k) == \E o \in Owners : stopping[o] = k

\* The stream of a client that start() began is open: nothing is told.
Opens(k) ==
    /\ link[k] = "starting"
    /\ link' = [link EXCEPT ![k] = "open"]
    /\ UNCHANGED <<client, status, conn, stopping, called, query, crossed, bridgeDrops>>

\* The library has reopened the stream by itself.  Its 'reconnected' comes before
\* the login, and shows "connected"; disconnect() no longer listens to it.
Reopens(k) ==
    /\ link[k] = "down"
    /\ link' = [link EXCEPT ![k] = "open"]
    /\ status' = IF client = k /\ ~BeingStopped(k) THEN "connected" ELSE status
    /\ UNCHANGED <<client, conn, stopping, called, query, crossed, bridgeDrops>>

\* The client is logged in.  Its 'online' event shows "connected" and ends the
\* connect() that awaits it; a session that was resumed has no such event.
GoesOnline(k) ==
    /\ link[k] = "open"
    /\ link' = [link EXCEPT ![k] = "online"]
    /\ conn' = [c \in Connects |-> IF conn[c].pc = "starting" /\ conn[c].mine = k
                                   THEN [conn[c] EXCEPT !.pc = "done"] ELSE conn[c]]
    /\ status' \in {"connected"} \cup (IF Awaited(k) THEN {} ELSE {status})
    /\ UNCHANGED <<client, stopping, called, query, crossed, bridgeDrops>>

\* 'status' with "disconnect" or "offline", from any client listened to; of one that
\* a connect() awaits it is FailsToStart.
Drops(k) ==
    /\ bridgeDrops < BridgeMaxDrops
    /\ link[k] \in Live /\ ~Awaited(k)
    /\ link' = [link EXCEPT ![k] = "down"]
    /\ status' = "disconnected"
    /\ query' = Rejected
    /\ bridgeDrops' = bridgeDrops + 1
    /\ UNCHANGED <<client, conn, stopping, called, crossed>>

\* 'reconnecting', heard until disconnect() stops the client.
Reconnecting(k) ==
    /\ link[k] = "down" /\ client = k /\ ~BeingStopped(k)
    /\ status' = "connecting"
    /\ UNCHANGED <<client, link, conn, stopping, called, query, crossed, bridgeDrops>>

\* 'error' from a client that no connect() awaits: only the status tells.
Complains(k) ==
    /\ link[k] \in Live /\ ~Awaited(k)
    /\ status' = "error"
    /\ UNCHANGED <<client, link, conn, stopping, called, query, crossed, bridgeDrops>>

-----------------------------------------------------------------------------
(* sendIQ *)

\* The request is recorded before it is sent, to whatever client there is; without
\* one it fails at once.
SendQuery(q) ==
    /\ query[q] = "none"
    /\ query' = [query EXCEPT ![q] = IF client = NoClient THEN "settled" ELSE "pending"]
    /\ UNCHANGED <<client, link, status, conn, stopping, called, crossed, bridgeDrops>>

\* The answer, the time-out or the failure of the sending, whichever comes first.
SettleQuery(q) ==
    /\ query[q] = "pending"
    /\ query' = [query EXCEPT ![q] = "settled"]
    /\ UNCHANGED <<client, link, status, conn, stopping, called, crossed, bridgeDrops>>

BridgeNext ==
    \/ \E d \in Disconnects : UserDisconnects(d) \/ UserDisconnected(d)
    \/ \E c \in Connects :
          \/ ConnectServer(c) \/ Cleared(c) \/ GiveUp(c) \/ FailsToStart(c)
          \/ \E k \in Clients : TryService(c, k)
    \/ \E k \in Clients :
          \/ Opens(k) \/ Reopens(k) \/ GoesOnline(k)
          \/ Drops(k) \/ Reconnecting(k) \/ Complains(k)
    \/ \E q \in Queries : SendQuery(q) \/ SettleQuery(q)

BridgeSpec == BridgeInit /\ [][BridgeNext]_bridgeVars

-----------------------------------------------------------------------------
(* Properties *)

\* However services fail, connections drop and come back, and calls overlap: the
\* client the node knows was not stopped; "connected" is shown only while the stream
\* of some client is open; and a request waits only while the node has a client, each
\* of whose ends rejects it.  As long as no call overlapped a connect(), moreover, no
\* client but the known one is alive, its stream is the one that is open, and once it
\* is logged in nothing but "connected" or an error it has reported is shown, until it
\* is stopped.  An overlap ends that: a client is overwritten and lives on, or the one
\* just made is forgotten.
OneClientAndItsStatus ==
    /\ client # NoClient => link[client] \in Live
    /\ status = "connected" => \E k \in Clients : link[k] \in {"open", "online"}
    /\ \A q \in Queries : query[q] = "pending" => client # NoClient
    /\ ~crossed => \A k \in Clients :
          /\ link[k] \in Live => k = client
          /\ link[k] = "online" /\ ~BeingStopped(k) => status \in {"connected", "error"}
=============================================================================
