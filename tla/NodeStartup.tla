----------------------------- MODULE NodeStartup -----------------------------
(***************************************************************************)
(* Who starts and stops the node of the browser (ui/src/app/Root.tsx and    *)
(* ui/src/bridge/runtime.ts): the start effect of the root component, the   *)
(* pages of the onboarding, a change of the bootstrap configuration, the    *)
(* background of a phone and the sign-out.  They share the bridge in the    *)
(* window and one startup in flight; each awaits the start or the stop of   *)
(* the node and none knows of the others.  A configuration or an account is *)
(* the number of its changes; the connection to a server and the display of *)
(* progress are left out.                                                   *)
(*                                                                          *)
(* disconnect() first closes the node and then stops its network, which a   *)
(* second call on the same node does not wait for: libp2p.stop() returns at *)
(* once unless the network is started.                                      *)
(***************************************************************************)
EXTENDS Naturals

CONSTANTS
    Runs,           \* bound: runs of the start effect in flight
    Nodes,          \* bound: nodes that exist or are waited for
    ShellMaxActs,   \* bound: acts of the user and of the phone
    ShellMaxFails   \* bound: starts and stops that fail

ASSUME ShellAssumption ==
    /\ Nodes \subseteq Nat \ {0}
    /\ Runs \cap {"setup", "ready", "settings", "phone", "signOut"} = {}
    /\ ShellMaxActs \in Nat /\ ShellMaxFails \in Nat

Pages == {"setup", "ready"}     \* ServerSetupPage and ReadyPage
Starters == Runs \cup Pages
NoNode == 0

VARIABLES
    route,       \* the user is in the onboarding or in the app
    completed,   \* isOnboardingComplete()
    config,      \* bootstrapRevisionRef and the configuration it counts
    account,     \* sign-outs so far
    pending,     \* pendingBootstrapRestartRef
    due,         \* the start effect runs at the next commit
    bridge,      \* window.__XMPP_P2P_BRIDGE__
    peer,        \* the nodes, with the configuration and the account of each
    starter,     \* progress of whoever starts a node
    stops,       \* calls of disconnect() that are awaited: of which node, by whom
    bridgeError, \* the error is shown, with a button to retry
    foreground,  \* the phone shows the app
    crossed,     \* history: two of them overlapped, or a sign-out failed
    outrun,      \* history: a call of disconnect() found the network being stopped
                 \* by another, or the stop of a network failed
    shellActs,   \* bound
    shellFails   \* bound

shellVars == <<route, completed, config, account, pending, due, bridge, peer, starter,
               stops, bridgeError, foreground, crossed, outrun, shellActs, shellFails>>

PeerStates == {"none", "starting", "up", "stopping"}
NoPeer == [state |-> "none", config |-> 0, account |-> 0]
Resting == [pc |-> "idle", node |-> NoNode, active |-> FALSE, again |-> FALSE,
            config |-> 0, account |-> 0]

ShellTypeOK ==
    /\ route \in {"onboarding", "app"} /\ completed \in BOOLEAN
    /\ config \in 0..ShellMaxActs /\ account \in 0..ShellMaxActs
    /\ pending \in BOOLEAN /\ due \in BOOLEAN
    /\ bridge \in Nodes \cup {NoNode}
    /\ peer \in [Nodes -> [state : PeerStates,
                           config : 0..ShellMaxActs, account : 0..ShellMaxActs]]
    /\ starter \in [Starters -> [pc : {"idle", "asking", "waiting", "stopping"},
                                 node : Nodes \cup {NoNode}, active : BOOLEAN,
                                 again : BOOLEAN, config : 0..ShellMaxActs,
                                 account : 0..ShellMaxActs]]
    /\ stops \subseteq [node : Nodes, by : Starters \cup {"settings", "phone", "signOut"},
                        nr : 0..ShellMaxActs, pc : {"closing", "stopping"}]
    /\ bridgeError \in BOOLEAN /\ foreground \in BOOLEAN
    /\ crossed \in BOOLEAN /\ outrun \in BOOLEAN
    /\ shellActs \in 0..ShellMaxActs /\ shellFails \in 0..ShellMaxFails

\* The page is loaded, by a new user or by one who is set up.
ShellInit ==
    /\ \/ route = "onboarding" /\ completed = FALSE /\ due = FALSE
       \/ route = "app" /\ completed = TRUE /\ due = TRUE
    /\ config = 0 /\ account = 0 /\ pending = FALSE
    /\ bridge = NoNode
    /\ peer = [n \in Nodes |-> NoPeer]
    /\ starter = [s \in Starters |-> Resting]
    /\ stops = {} /\ bridgeError = FALSE /\ foreground = TRUE
    /\ crossed = FALSE /\ outrun = FALSE
    /\ shellActs = 0 /\ shellFails = 0

ShellAct == shellActs < ShellMaxActs /\ shellActs' = shellActs + 1
InFlight == {s \in Starters : starter[s].pc # "idle"}
Stop(n, who) == [node |-> n, by |-> who, nr |-> shellActs, pc |-> "closing"]

\* A number that no one refers to any more.
Unused(n) == peer[n].state = "none" /\ \A x \in stops : x.node # n

\* The cleanup of the effect.
Inactive == [s \in Starters |-> IF s \in Runs THEN [starter[s] EXCEPT !.active = FALSE]
                                              ELSE starter[s]]
Asking == [Resting EXCEPT !.pc = "asking", !.active = TRUE, !.config = config,
                          !.account = account]

-----------------------------------------------------------------------------
(* Slips *)

\* The revision is not compared: a run keeps a node with the old configuration.
RevisionUnread(s) ==
    IF s \notin Runs THEN Resting
    ELSE IF ~starter[s].active \/ ~completed
    THEN [starter[s] EXCEPT !.pc = "stopping", !.again = FALSE]
    ELSE Resting

\* Whatever bridge there is leaves the window, as in ui/src/native-shell.ts.
UnregistersAny(n) == NoNode

-----------------------------------------------------------------------------
(* The start effect of the root component *)

\* It does nothing in the onboarding and when there is a bridge, unless the
\* configuration was changed in the onboarding: that node is replaced.
RunEffect ==
    /\ due
    /\ due' = FALSE
    /\ IF route = "onboarding" \/ ~completed \/ (bridge # NoNode /\ ~pending)
       THEN /\ starter' = Inactive
            /\ UNCHANGED <<pending, stops, bridgeError>>
       ELSE /\ pending' = FALSE
            /\ \E r \in Runs \ InFlight :
                  IF bridge # NoNode
                  THEN /\ starter' = [Inactive EXCEPT ![r] = [Resting EXCEPT
                                !.pc = "stopping", !.active = TRUE, !.again = TRUE]]
                       /\ stops' = stops \cup {Stop(bridge, r)}
                       /\ UNCHANGED bridgeError
                  ELSE /\ starter' = [Inactive EXCEPT ![r] = Asking]
                       /\ bridgeError' = FALSE
                       /\ UNCHANGED stops
    /\ crossed' = (crossed \/ (completed /\ (stops # {} \/ InFlight # {})))
    /\ UNCHANGED <<route, completed, config, account, bridge, peer, foreground, outrun,
                   shellActs, shellFails>>

\* What a starter does with the node it awaited: a run of the effect stops it
\* when it was cleaned up or the user is not set up, and again when the
\* configuration has changed since the run began.
AfterStart(s) ==
    IF s \notin Runs THEN Resting
    ELSE IF ~starter[s].active \/ ~completed
    THEN [starter[s] EXCEPT !.pc = "stopping", !.again = FALSE]
    ELSE IF starter[s].config # config
    THEN [starter[s] EXCEPT !.pc = "stopping", !.again = TRUE]
    ELSE Resting

\* The node n is there for the starters in who; ReadyPage ends the onboarding.
Delivered(n, who) ==
    /\ starter' = [s \in Starters |-> IF s \in who THEN AfterStart(s) ELSE starter[s]]
    /\ stops' = stops \cup {Stop(n, s) : s \in {t \in who : AfterStart(t).pc = "stopping"}}
    /\ IF "ready" \in who
       THEN route' = "app" /\ completed' = TRUE /\ due' = TRUE
       ELSE UNCHANGED <<route, completed, due>>
    /\ crossed' = (crossed \/ ("ready" \in who /\ ~(InFlight \subseteq who)))

\* ensureBrowserXmppClient, when the addresses are there: the bridge there is,
\* or the startup in flight, or a new one.
Ensure(s) ==
    /\ starter[s].pc = "asking"
    /\ \/ /\ bridge # NoNode
          /\ Delivered(bridge, {s})
          /\ UNCHANGED peer
       \/ /\ bridge = NoNode
          /\ \/ \E n \in Nodes :
                   /\ peer[n].state = "starting"
                   /\ starter' = [starter EXCEPT ![s].pc = "waiting", ![s].node = n]
                   /\ UNCHANGED peer
             \/ /\ \A n \in Nodes : peer[n].state # "starting"
                /\ \E n \in Nodes, c \in starter[s].config .. config :
                      /\ Unused(n) /\ \A k \in Nodes : Unused(k) => n <= k
                      /\ peer' = [peer EXCEPT ![n] = [state |-> "starting", config |-> c,
                                                      account |-> starter[s].account]]
                      /\ starter' = [starter EXCEPT ![s].pc = "waiting", ![s].node = n]
          /\ UNCHANGED <<route, completed, due, stops, crossed>>
    /\ UNCHANGED <<config, account, pending, bridge, bridgeError, foreground, outrun,
                   shellActs, shellFails>>

Awaiting(n) == {s \in Starters : starter[s].pc = "waiting" /\ starter[s].node = n}

\* createBrowserXmppClient registers the bridge and resolves for all.
NodeIsUp(n) ==
    /\ peer[n].state = "starting"
    /\ peer' = [peer EXCEPT ![n].state = "up"]
    /\ bridge' = n
    /\ Delivered(n, Awaiting(n))
    /\ UNCHANGED <<config, account, pending, bridgeError, foreground, outrun, shellActs,
                   shellFails>>

\* It rejects: what was begun is stopped, if that does not fail as well, and an
\* active run shows the error.
NodeFails(n) ==
    /\ peer[n].state = "starting"
    /\ shellFails < ShellMaxFails /\ shellFails' = shellFails + 1
    /\ \/ peer' = [peer EXCEPT ![n] = NoPeer] /\ UNCHANGED outrun
       \/ peer' = [peer EXCEPT ![n].state = "stopping"] /\ outrun' = TRUE
    /\ starter' = [s \in Starters |-> IF s \in Awaiting(n) THEN Resting ELSE starter[s]]
    /\ bridgeError' = (bridgeError \/ \E s \in Awaiting(n) \cap Runs : starter[s].active)
    /\ UNCHANGED <<route, completed, config, account, pending, due, bridge, stops,
                   foreground, crossed, shellActs>>

-----------------------------------------------------------------------------
(* disconnect() *)

\* The first call whose close() has ended, well or not, stops the network.
NetworkStops(x) ==
    /\ x.pc = "closing" /\ peer[x.node].state = "up"
    /\ peer' = [peer EXCEPT ![x.node].state = "stopping"]
    /\ stops' = (stops \ {x}) \cup {[x EXCEPT !.pc = "stopping"]}
    /\ UNCHANGED <<route, completed, config, account, pending, due, bridge, starter,
                   bridgeError, foreground, crossed, outrun, shellActs, shellFails>>

\* What the window keeps when a call of disconnect() on the node n is over.
Unregistered(n) == IF bridge = n THEN NoNode ELSE bridge

\* resetIdentity, and the way to the onboarding.
SignedOut == /\ account' = account + 1
             /\ completed' = FALSE /\ route' = "onboarding" /\ due' = TRUE

\* The node is off the window at the end of the call, however it ends.
Returns(x) ==
    /\ x \in stops
    /\ stops' = stops \ {x}
    /\ bridge' = Unregistered(x.node)
    /\ starter' = IF x.by \in Runs THEN [starter EXCEPT ![x.by] = Resting] ELSE starter

\* The network has stopped; or this call does not wait for it, because another
\* one stops it or has stopped it.
Stopped(x) ==
    /\ Returns(x)
    /\ \/ /\ x.pc = "stopping"
          /\ peer' = [peer EXCEPT ![x.node] = NoPeer]
          /\ UNCHANGED outrun
       \/ /\ x.pc = "closing" /\ peer[x.node].state # "up"
          /\ outrun' = (outrun \/ peer[x.node].state = "stopping")
          /\ UNCHANGED peer

\* stopNetwork() throws: the node stays as it is, and no call will stop it.
HalfStopped(x) == Returns(x) /\ x.pc = "stopping" /\ outrun' = TRUE /\ UNCHANGED peer

StopEnds(x) ==
    /\ Stopped(x)
    /\ IF x.by = "signOut" THEN SignedOut
       ELSE /\ due' = (due \/ x.by = "settings"
                           \/ (x.by \in Runs /\ starter[x.by].again /\ starter[x.by].active))
            /\ UNCHANGED <<account, completed, route>>
    /\ UNCHANGED <<config, pending, bridgeError, foreground, crossed, shellActs, shellFails>>

\* close() or stopNetwork() has thrown.
StopFails(x) ==
    /\ Stopped(x) \/ HalfStopped(x)
    /\ shellFails < ShellMaxFails /\ shellFails' = shellFails + 1
    /\ bridgeError' = (bridgeError \/ x.by = "settings"
                                   \/ (x.by \in Runs /\ starter[x.by].active))
    /\ crossed' = (crossed \/ x.by = "signOut")
    /\ UNCHANGED <<route, completed, config, account, pending, due, foreground, shellActs>>

-----------------------------------------------------------------------------
(* The user and the phone *)

Retry ==
    /\ route = "app" /\ bridgeError /\ ~due
    /\ ShellAct
    /\ due' = TRUE
    /\ UNCHANGED <<route, completed, config, account, pending, bridge, peer, starter,
                   stops, bridgeError, foreground, crossed, outrun, shellFails>>

\* 'bootstrap-config-changed': in the app the node is stopped to be started anew.
ChangeConfig ==
    /\ ShellAct
    /\ config' = config + 1
    /\ pending' = (pending \/ route = "onboarding")
    /\ IF bridge # NoNode /\ route = "app"
       THEN /\ stops' = stops \cup {Stop(bridge, "settings")}
            /\ crossed' = (crossed \/ stops # {})
       ELSE UNCHANGED <<stops, crossed>>
    /\ UNCHANGED <<route, completed, account, due, bridge, peer, starter, bridgeError,
                   foreground, outrun, shellFails>>

\* A page of the onboarding wants the node.
OpenPage(s) ==
    /\ route = "onboarding" /\ starter[s].pc = "idle"
    /\ ShellAct
    /\ IF bridge = NoNode
       THEN /\ starter' = [starter EXCEPT ![s] = Asking]
            /\ UNCHANGED <<route, completed, due, stops, crossed>>
       ELSE Delivered(bridge, {s})
    /\ UNCHANGED <<config, account, pending, bridge, peer, bridgeError, foreground, outrun,
                   shellFails>>

\* handleSignOut, in the settings.
SignOut ==
    /\ route = "app" /\ \A x \in stops : x.by # "signOut"
    /\ ShellAct
    /\ crossed' = (crossed \/ stops # {} \/ InFlight # {})
    /\ IF bridge = NoNode
       THEN SignedOut /\ UNCHANGED stops
       ELSE /\ stops' = stops \cup {Stop(bridge, "signOut")}
            /\ UNCHANGED <<account, completed, route, due>>
    /\ UNCHANGED <<config, pending, bridge, peer, starter, bridgeError, foreground, outrun,
                   shellFails>>

\* The phone puts the app into the background, and takes it back.
Background ==
    /\ foreground
    /\ ShellAct
    /\ foreground' = FALSE
    /\ stops' = IF bridge = NoNode THEN stops ELSE stops \cup {Stop(bridge, "phone")}
    /\ crossed' = (crossed \/ (bridge # NoNode /\ stops # {}))
    /\ UNCHANGED <<route, completed, config, account, pending, due, bridge, peer, starter,
                   bridgeError, outrun, shellFails>>

Resume ==
    /\ ~foreground
    /\ foreground' = TRUE
    /\ due' = TRUE
    /\ UNCHANGED <<route, completed, config, account, pending, bridge, peer, starter,
                   stops, bridgeError, crossed, outrun, shellActs, shellFails>>

ShellNext ==
    \/ RunEffect \/ Retry \/ ChangeConfig \/ SignOut \/ Background \/ Resume
    \/ \E s \in Starters : Ensure(s)
    \/ \E s \in Pages : OpenPage(s)
    \/ \E n \in Nodes : NodeIsUp(n) \/ NodeFails(n)
    \/ \E x \in stops : NetworkStops(x) \/ StopEnds(x) \/ StopFails(x)

ShellSpec == ShellInit /\ [][ShellNext]_shellVars

-----------------------------------------------------------------------------
(* Properties *)

Running(n) == peer[n].state \in {"starting", "up"}

\* However starts, stops and restarts overlap, no two nodes start or run at the
\* same time, and the node of the window is one that runs or is being stopped.
\* The next node is started while the one before still stops only when two
\* calls of disconnect() overlapped on it, or when the stop of a network failed.
OneNodeAtATime ==
    /\ \A n, k \in Nodes : Running(n) /\ Running(k) => n = k
    /\ bridge # NoNode => peer[bridge].state \in {"up", "stopping"}
    /\ ~outrun => \A n, k \in Nodes :
                     peer[n].state # "none" /\ peer[k].state # "none" => n = k

\* When all is quiet a user who is set up has a node that runs, or the error
\* with its button; the node has the configuration saved last, and it is never
\* that of an account which has signed out.
NodeFollowsSettings ==
    (~due /\ stops = {} /\ InFlight = {} /\ foreground /\ ~crossed) =>
        /\ completed => (bridge # NoNode \/ bridgeError)
        /\ bridge # NoNode => peer[bridge].state = "up" /\ peer[bridge].account = account
        /\ (completed /\ bridge # NoNode) => peer[bridge].config = config
=============================================================================
