-------------------------- MODULE IqRequests_proofs --------------------------
(***************************************************************************)
(* Proofs about PeerStreams and about IqRequests, which extends it, for any*)
(* number of callers, calls, streams and requests.                         *)
(***************************************************************************)
EXTENDS IqRequests, TLAPS

-----------------------------------------------------------------------------
(* The streams *)

\* Once close() has begun, only what straggles in opens or schedules anything.
Winding ==
    (closing # "no" /\ ~straggler) =>
        /\ ~hasAddr /\ ~timer
        /\ \A s \in Streams : state[s] # "open"
        /\ closing = "done" => table = None

\* Registration, redialling and shutting down agree, together with the types
\* they need.
IInv ==
    /\ TypeOK
    /\ OnlyRegisteredIsOpen
    /\ LostPeerIsRedialled
    /\ Winding

\* Scheduling a reconnection keeps the attempts in their range.
LEMMA TriedInRange == TypeOK => Tried \in 0..MaxAttempts
BY PeerStreamsAssumption DEF TypeOK, Tried

\* The invariant holds in a node that has just started.
LEMMA InitIInv == Init => IInv
<1> SUFFICES ASSUME Init PROVE IInv
  OBVIOUS
<1>1. TypeOK
  <2>1. /\ table \in Streams \union {None}
        /\ state \in [Streams -> {"unused", "open", "closing"}]
        /\ dialling \subseteq Calls
        /\ hasAddr \in BOOLEAN /\ timer \in BOOLEAN
    BY Zenon DEF Init
  <2>2. attempts \in 0..MaxAttempts /\ redials \in 0..MaxRedials
    BY PeerStreamsAssumption DEF Init
  <2>3. /\ closing \in {"no", "streams", "done"}
        /\ visiting \in Streams \union {None}
        /\ passed \in BOOLEAN /\ straggler \in BOOLEAN
    BY Zenon DEF Init
  <2> QED BY <2>1, <2>2, <2>3 DEF TypeOK
<1>2. OnlyRegisteredIsOpen
  BY PeerStreamsAssumption DEF Init, OnlyRegisteredIsOpen
<1>3. LostPeerIsRedialled
  BY DEF Init, LostPeerIsRedialled
<1>4. Winding
  BY DEF Init, Winding
<1> QED BY <1>1, <1>2, <1>3, <1>4 DEF IInv

\* registerStream leaves its stream the only open one.
LEMMA Registers ==
    ASSUME IInv, NEW s \in Streams, state[s] = "unused", NEW due \in BOOLEAN,
           NEW tried \in 0..MaxAttempts, Register(s, due, tried),
           closing' = closing
    PROVE  /\ table' = s /\ table' # None
           /\ state' \in [Streams -> {"unused", "open", "closing"}]
           /\ OnlyRegisteredIsOpen'
           /\ timer' \in BOOLEAN /\ attempts' \in 0..MaxAttempts
<1>1. table' = s /\ s # None
  BY PeerStreamsAssumption DEF Register
<1>2. state' = [r \in Streams |-> CASE r = s -> "open"
                                    [] r = table -> "closing"
                                    [] OTHER -> state[r]]
  BY DEF Register
<1>3. state' \in [Streams -> {"unused", "open", "closing"}]
  BY <1>2 DEF IInv, TypeOK
<1>4. ASSUME closing = "no", NEW r \in Streams PROVE state'[r] = "open" <=> r = s
  <2>1. state[r] = "open" <=> table = r
    BY <1>4 DEF IInv, OnlyRegisteredIsOpen
  <2>2. CASE r = s
    <3>1. table # s
      BY <2>1, <2>2
    <3>2. state'[s] = "open"
      BY <3>1, <1>2
    <3> QED BY <2>2, <3>2
  <2>3. CASE r # s /\ r = table
    BY <2>3, <1>2
  <2>4. CASE r # s /\ r # table
    BY <2>1, <2>4, <1>2
  <2> QED BY <2>2, <2>3, <2>4
<1>5. OnlyRegisteredIsOpen'
  BY <1>1, <1>4 DEF OnlyRegisteredIsOpen
<1>6. timer' \in BOOLEAN
  BY DEF Register
<1>7. attempts' \in 0..MaxAttempts
  BY PeerStreamsAssumption DEF Register
<1> QED BY <1>1, <1>3, <1>5, <1>6, <1>7

\* The 'close' handler frees its stream and leaves no lost peer alone.
LEMMA Closes ==
    ASSUME IInv, NEW s \in Streams, state[s] # "unused", Closed(s),
           hasAddr' = hasAddr, redials' = redials, straggler' = straggler,
           closing' = closing
    PROVE  /\ table' \in Streams \union {None}
           /\ state' \in [Streams -> {"unused", "open", "closing"}]
           /\ OnlyRegisteredIsOpen'
           /\ timer' \in BOOLEAN /\ attempts' \in 0..MaxAttempts
           /\ LostPeerIsRedialled'
           /\ passed' \in BOOLEAN
           /\ Winding'
<1>1. /\ passed' = (passed /\ table # s)
      /\ state' = [state EXCEPT ![s] = "unused"]
      /\ table' = IF table = s THEN None ELSE table
      /\ timer' = (timer \/ hasAddr)
      /\ attempts' = IF hasAddr THEN Tried ELSE attempts
  BY DEF Closed
<1>2. state' \in [Streams -> {"unused", "open", "closing"}]
  BY <1>1 DEF IInv, TypeOK
<1>3. OnlyRegisteredIsOpen'
  <2> SUFFICES ASSUME closing = "no", NEW r \in Streams PROVE state'[r] = "open" <=> table' = r
    BY DEF OnlyRegisteredIsOpen
  <2>1. (state[r] = "open" <=> table = r) /\ r # None
    BY PeerStreamsAssumption DEF IInv, OnlyRegisteredIsOpen
  <2>2. CASE r = s
    BY <2>1, <2>2, <1>1 DEF IInv, TypeOK
  <2>3. CASE r # s
    BY <2>1, <2>3, <1>1 DEF IInv, TypeOK
  <2> QED BY <2>2, <2>3
<1>4. table' \in Streams \union {None}
  BY <1>1 DEF IInv, TypeOK
<1>5. timer' \in BOOLEAN /\ attempts' \in 0..MaxAttempts
  BY <1>1, TriedInRange DEF IInv, TypeOK
<1>6. LostPeerIsRedialled'
  BY <1>1 DEF LostPeerIsRedialled
<1>7. Winding'
  <2> SUFFICES ASSUME closing # "no", ~straggler
               PROVE  /\ ~hasAddr /\ ~timer'
                      /\ \A r \in Streams : state'[r] # "open"
                      /\ closing = "done" => table' = None
    BY DEF Winding
  <2>1. /\ ~hasAddr /\ ~timer
        /\ \A r \in Streams : state[r] # "open"
        /\ closing = "done" => table = None
    BY DEF IInv, Winding
  <2> QED BY <2>1, <1>1 DEF IInv, TypeOK
<1>8. passed' \in BOOLEAN
  BY <1>1
<1> QED BY <1>2, <1>3, <1>4, <1>5, <1>6, <1>7, <1>8

\* A stream that is registered keeps the invariant: if close() had begun it is
\* a straggler.
LEMMA RegistersIInv ==
    ASSUME IInv, NEW s \in Streams, Unused(s), NEW due \in BOOLEAN,
           NEW tried \in 0..MaxAttempts, Register(s, due, tried), Straggles,
           UNCHANGED <<closing, visiting, passed>>,
           dialling' \subseteq Calls, hasAddr' \in BOOLEAN,
           redials' \in 0..MaxRedials
    PROVE  IInv'
<1>1. state[s] = "unused" /\ closing' = closing
  BY DEF Unused
<1>2. /\ table' = s /\ table' # None /\ OnlyRegisteredIsOpen'
      /\ state' \in [Streams -> {"unused", "open", "closing"}]
      /\ timer' \in BOOLEAN /\ attempts' \in 0..MaxAttempts
  BY <1>1, Registers
<1>3. straggler' = (straggler \/ closing # "no")
  BY DEF Straggles
<1>4. straggler' \in BOOLEAN
  BY <1>3, Zenon
<1>5. TypeOK'
  BY <1>2, <1>4 DEF IInv, TypeOK
<1>6. LostPeerIsRedialled'
  BY <1>2 DEF LostPeerIsRedialled
<1>7. Winding'
  BY <1>1, <1>3 DEF Winding
<1> QED BY <1>2, <1>5, <1>6, <1>7 DEF IInv

\* close() of the node begins: only the registered stream was open.
LEMMA ClosesNode == IInv /\ CloseNode => IInv'
<1> SUFFICES ASSUME IInv, CloseNode PROVE IInv'
  OBVIOUS
<1>1. /\ closing = "no" /\ closing' = "streams"
      /\ hasAddr' = FALSE /\ timer' = FALSE /\ attempts' = 0
      /\ visiting' = table /\ passed' = (table # None)
      /\ state' = [s \in Streams |-> IF s = table THEN "closing" ELSE state[s]]
      /\ UNCHANGED <<table, dialling, redials, straggler>>
  BY DEF CloseNode
<1>2. state' \in [Streams -> {"unused", "open", "closing"}]
  BY <1>1 DEF IInv, TypeOK
<1>3. \A s \in Streams : state'[s] # "open"
  BY <1>1 DEF IInv, OnlyRegisteredIsOpen
<1>4. attempts' \in 0..MaxAttempts /\ passed' \in BOOLEAN
  BY <1>1, PeerStreamsAssumption
<1>5. TypeOK'
  BY <1>1, <1>2, <1>4 DEF IInv, TypeOK
<1>6. Winding'
  BY <1>1, <1>3 DEF Winding
<1>7. OnlyRegisteredIsOpen' /\ LostPeerIsRedialled'
  BY <1>1 DEF OnlyRegisteredIsOpen, LostPeerIsRedialled
<1> QED BY <1>5, <1>6, <1>7 DEF IInv

\* It goes on, or is done and clears the map.
LEMMA ClosesNext == IInv /\ CloseNext => IInv'
<1> SUFFICES ASSUME IInv, CloseNext PROVE IInv'
  OBVIOUS
<1>1. /\ closing = "streams"
      /\ UNCHANGED <<dialling, hasAddr, timer, attempts, redials, straggler>>
  BY DEF CloseNext
<1>2. CASE table # None /\ ~passed
  <2>1. /\ visiting' = table /\ passed' = TRUE
        /\ state' = [state EXCEPT ![table] = "closing"]
        /\ UNCHANGED <<table, closing>>
    BY <1>2 DEF CloseNext
  <2>2. state' \in [Streams -> {"unused", "open", "closing"}]
    BY <2>1 DEF IInv, TypeOK
  <2>3. TypeOK'
    BY <1>1, <2>1, <2>2 DEF IInv, TypeOK
  <2>4. Winding'
    BY <1>1, <2>1 DEF IInv, TypeOK, Winding
  <2>5. OnlyRegisteredIsOpen' /\ LostPeerIsRedialled'
    BY <1>1, <2>1 DEF OnlyRegisteredIsOpen, LostPeerIsRedialled
  <2> QED BY <2>3, <2>4, <2>5 DEF IInv
<1>3. CASE ~(table # None /\ ~passed)
  <2>1. /\ visiting' = None /\ passed' = FALSE
        /\ table' = None /\ closing' = "done" /\ state' = state
    BY <1>3 DEF CloseNext
  <2>2. TypeOK'
    BY <1>1, <2>1 DEF IInv, TypeOK
  <2>3. Winding'
    BY <1>1, <2>1 DEF IInv, Winding
  <2>4. OnlyRegisteredIsOpen' /\ LostPeerIsRedialled'
    BY <2>1 DEF OnlyRegisteredIsOpen, LostPeerIsRedialled
  <2> QED BY <2>2, <2>3, <2>4 DEF IInv
<1> QED BY <1>2, <1>3

\* No dial, event, timer or step of close() disturbs the invariant.
LEMMA NextIInv == IInv /\ [Next]_vars => IInv'
<1> SUFFICES ASSUME IInv, [Next]_vars PROVE IInv'
  OBVIOUS
<1> USE PeerStreamsAssumption
<1>0. /\ timer \in BOOLEAN /\ attempts \in 0..MaxAttempts /\ 0 \in 0..MaxAttempts
      /\ hasAddr \in BOOLEAN /\ dialling \subseteq Calls /\ redials \in 0..MaxRedials
  BY DEF IInv, TypeOK
<1>1. ASSUME NEW c \in Calls, StartDial(c) PROVE IInv'
  BY <1>1 DEF StartDial, IInv, TypeOK, OnlyRegisteredIsOpen, LostPeerIsRedialled, Winding
<1>2. ASSUME NEW c \in Calls, DialFails(c) PROVE IInv'
  BY <1>2 DEF DialFails, IInv, TypeOK, OnlyRegisteredIsOpen, LostPeerIsRedialled, Winding
<1>3. ASSUME NEW c \in Calls, NEW s \in Streams, DialSucceeds(c, s) PROVE IInv'
  <2>1. /\ Unused(s) /\ Register(s, timer, attempts) /\ Straggles
        /\ UNCHANGED <<closing, visiting, passed>>
        /\ dialling' \subseteq Calls /\ hasAddr' \in BOOLEAN
        /\ redials' \in 0..MaxRedials
    BY <1>0, <1>3 DEF DialSucceeds
  <2> QED BY <1>0, <2>1, RegistersIInv
<1>4. ASSUME NEW s \in Streams, Inbound(s) PROVE IInv'
  <2>1. /\ Unused(s) /\ Register(s, timer, attempts) /\ Straggles
        /\ UNCHANGED <<closing, visiting, passed>>
        /\ dialling' \subseteq Calls /\ hasAddr' \in BOOLEAN
        /\ redials' \in 0..MaxRedials
    BY <1>0, <1>4 DEF Inbound
  <2> QED BY <1>0, <2>1, RegistersIInv
<1>5. ASSUME NEW s \in Streams, RemoteEnds(s) \/ CloseCompletes(s) PROVE IInv'
  <2>1. /\ state[s] # "unused" /\ Closed(s)
        /\ UNCHANGED <<dialling, hasAddr, redials, closing, visiting, straggler>>
    BY <1>5 DEF RemoteEnds, CloseCompletes
  <2>2. /\ table' \in Streams \union {None}
        /\ state' \in [Streams -> {"unused", "open", "closing"}]
        /\ OnlyRegisteredIsOpen' /\ LostPeerIsRedialled'
        /\ timer' \in BOOLEAN /\ attempts' \in 0..MaxAttempts
        /\ passed' \in BOOLEAN /\ Winding'
    BY <2>1, Closes
  <2> QED BY <2>1, <2>2 DEF IInv, TypeOK
<1>6. ASSUME NEW s \in Streams, RedialSucceeds(s) PROVE IInv'
  <2>1. /\ Unused(s) /\ Register(s, timer, 0) /\ Straggles
        /\ UNCHANGED <<closing, visiting, passed>>
        /\ dialling' \subseteq Calls /\ hasAddr' \in BOOLEAN
        /\ redials' \in 0..MaxRedials
    BY <1>0, <1>6 DEF RedialSucceeds
  <2> QED BY <1>0, <2>1, RegistersIInv
<1>7. CASE TimerFires
  <2>1. /\ redials' = redials + 1 /\ redials < MaxRedials /\ timer' = FALSE
        /\ UNCHANGED <<table, state, dialling, hasAddr, attempts, closing,
                       visiting, passed, straggler>>
    BY <1>7 DEF TimerFires
  <2>2. redials' \in 0..MaxRedials /\ redials' > 0
    BY <1>0, <2>1
  <2> QED BY <2>1, <2>2 DEF IInv, TypeOK, OnlyRegisteredIsOpen, LostPeerIsRedialled, Winding
<1>8. CASE TimerGivesUp
  <2>1. /\ ~hasAddr /\ timer' = FALSE /\ attempts' = 0
        /\ UNCHANGED <<table, state, dialling, hasAddr, redials, closing,
                       visiting, passed, straggler>>
    BY <1>8 DEF TimerGivesUp
  <2>2. TypeOK'
    BY <1>0, <2>1 DEF IInv, TypeOK
  <2>3. Winding'
    BY <2>1 DEF IInv, Winding
  <2>4. OnlyRegisteredIsOpen' /\ LostPeerIsRedialled'
    BY <2>1 DEF IInv, OnlyRegisteredIsOpen, LostPeerIsRedialled
  <2> QED BY <2>2, <2>3, <2>4 DEF IInv
<1>9. CASE RedialFails
  <2>1. /\ redials' = redials - 1 /\ redials > 0 /\ timer' = TRUE
        /\ attempts' = Tried
        /\ straggler' = (straggler \/ closing # "no")
        /\ UNCHANGED <<table, state, dialling, hasAddr, closing, visiting, passed>>
    BY <1>9 DEF RedialFails, Straggles
  <2>2. Tried \in 0..MaxAttempts /\ redials' \in 0..MaxRedials
    BY <1>0, <2>1, TriedInRange DEF IInv
  <2>3. straggler' \in BOOLEAN
    BY <2>1, Zenon
  <2>4. TypeOK'
    BY <2>1, <2>2, <2>3 DEF IInv, TypeOK
  <2>5. Winding'
    BY <2>1 DEF Winding
  <2>6. OnlyRegisteredIsOpen' /\ LostPeerIsRedialled'
    BY <2>1 DEF IInv, OnlyRegisteredIsOpen, LostPeerIsRedialled
  <2> QED BY <2>4, <2>5, <2>6 DEF IInv
<1>10. CASE UNCHANGED vars
  BY <1>10 DEF vars, IInv, TypeOK, OnlyRegisteredIsOpen, LostPeerIsRedialled, Winding
<1> QED BY <1>1, <1>2, <1>3, <1>4, <1>5, <1>6, <1>7, <1>8, <1>9, <1>10,
           ClosesNode, ClosesNext DEF Next

\* The registered stream is the open one, however many callers dial at once.
THEOREM OneOpenStream == Spec => []OnlyRegisteredIsOpen
<1>1. IInv => OnlyRegisteredIsOpen
  BY DEF IInv
<1> QED BY InitIInv, NextIInv, <1>1, PTL DEF Spec

\* A peer that was dialled once and has no stream has a timer pending or a
\* redial in flight.
THEOREM LostPeersAreRedialled == Spec => []LostPeerIsRedialled
<1>1. IInv => LostPeerIsRedialled
  BY DEF IInv
<1> QED BY InitIInv, NextIInv, <1>1, PTL DEF Spec

\* A closed node holds neither a stream nor a timer for the peer, unless
\* something straggled in while it closed.
THEOREM ClosedNodesAreQuiet == Spec => []ClosedNodeIsQuiet
<1>1. IInv => ClosedNodeIsQuiet
  BY DEF IInv, Winding, ClosedNodeIsQuiet
<1> QED BY InitIInv, NextIInv, <1>1, PTL DEF Spec

\* What a step does to an entry that disappears.
LEMMA EntryStep ==
    IInv /\ [Next]_vars =>
        [(table # None /\ table' = None) =>
            (state'[table] = "unused" \/ closing' = "done")]_vars
<1> SUFFICES ASSUME IInv, Next, table # None, table' = None
             PROVE  state'[table] = "unused" \/ closing' = "done"
  BY DEF vars
<1>1. \A s \in Streams : s # None
  BY PeerStreamsAssumption
<1>2. ASSUME NEW s \in Streams, Closed(s) PROVE state'[table] = "unused"
  <2>1. /\ state' = [state EXCEPT ![s] = "unused"]
        /\ table' = IF table = s THEN None ELSE table
    BY <1>2 DEF Closed
  <2> QED BY <2>1 DEF IInv, TypeOK
<1>3. ASSUME NEW s \in Streams, NEW due, NEW tried, Register(s, due, tried)
      PROVE FALSE
  BY <1>1, <1>3 DEF Register
<1>4. ASSUME NEW c \in Calls, StartDial(c) \/ DialFails(c) PROVE FALSE
  BY <1>4 DEF StartDial, DialFails
<1>5. ASSUME NEW c \in Calls, NEW s \in Streams, DialSucceeds(c, s) PROVE FALSE
  BY <1>3, <1>5 DEF DialSucceeds
<1>6. ASSUME NEW s \in Streams,
             Inbound(s) \/ RemoteEnds(s) \/ CloseCompletes(s) \/ RedialSucceeds(s)
      PROVE  state'[table] = "unused"
  BY <1>2, <1>3, <1>6 DEF Inbound, RemoteEnds, CloseCompletes, RedialSucceeds
<1>7. ASSUME TimerFires \/ TimerGivesUp \/ RedialFails \/ CloseNode PROVE FALSE
  BY <1>7 DEF TimerFires, TimerGivesUp, RedialFails, CloseNode
<1>8. CASE CloseNext
  BY <1>8 DEF CloseNext
<1> QED BY <1>4, <1>5, <1>6, <1>7, <1>8 DEF Next

\* The registered stream is never lost to the event of another one.
THEOREM EntriesGoWithTheirStreams == Spec => EntryGoesWithItsStream
BY InitIInv, NextIInv, EntryStep, PTL DEF Spec, EntryGoesWithItsStream

-----------------------------------------------------------------------------
(* The calls *)

\* What the calls need of their own variables.
CallTypes ==
    /\ call \in [Calls -> {"idle"} \cup Waiting \cup Settled]
    /\ entry \subseteq Calls /\ armed \subseteq Calls
    /\ shown \in BOOLEAN

\* The table of requests, the list of the runtime and the types they need.
IqIInv ==
    /\ CallTypes
    /\ PendingIsTimed
    /\ ShownHasStream

\* A step of the calls is a step of the streams, or leaves them alone.
LEMMA StreamsStep == [IqNext]_allIqVars => [Next]_vars
<1> SUFFICES ASSUME [IqNext]_allIqVars PROVE [Next]_vars
  OBVIOUS
<1>1. ASSUME NEW c \in Calls, Begin(c) PROVE [Next]_vars
  BY <1>1 DEF Begin, Next
<1>2. ASSUME NEW c \in Calls, NotDialled(c) PROVE [Next]_vars
  BY <1>2 DEF NotDialled, Next
<1>3. ASSUME NEW c \in Calls,
             SendRequest(c) \/ SendMessage(c) \/ Mailed(c) \/ TimesOut(c) \/ AnswerArrives(c)
      PROVE  [Next]_vars
  BY <1>3 DEF SendRequest, SendMessage, Mailed, TimesOut, AnswerArrives
<1>4. ASSUME NEW c \in Calls, NEW s \in Streams, Dialled(c, s) PROVE [Next]_vars
  BY <1>4 DEF Dialled, Next
<1>5. ASSUME NEW s \in Streams, StreamEvent(s) \/ CloseEvent(s) PROVE [Next]_vars
  BY <1>5 DEF StreamEvent, CloseEvent, Next
<1>6. ASSUME NEW q \in Asks, AskArrives(q) \/ AskAnswered(q) \/ AskFails(q)
      PROVE  [Next]_vars
  BY <1>6 DEF AskArrives, AskAnswered, AskFails
<1>7. ASSUME NEW b \in BOOLEAN, PeerSaysState(b) PROVE [Next]_vars
  BY <1>7 DEF PeerSaysState
<1>8. CASE ShutDown
  BY <1>8 DEF ShutDown, Next
<1>9. CASE TimerEvent
  BY <1>9 DEF TimerEvent, Next
<1>10. CASE UNCHANGED allIqVars
  BY <1>10 DEF allIqVars
<1> QED BY <1>1, <1>2, <1>3, <1>4, <1>5, <1>6, <1>7, <1>8, <1>9, <1>10 DEF IqNext

\* Everything the node does with the calls is a behaviour of its streams, so
\* that what is proved of PeerStreams holds here.
THEOREM CallsKeepStreams == IqSpec => Spec
<1>1. IqInit => Init
  BY DEF IqInit
<1> QED BY <1>1, StreamsStep, PTL DEF IqSpec, Spec

\* No call, answer or stream is there at the start.
LEMMA IqInitIInv == IqInit => IqIInv
<1> SUFFICES ASSUME IqInit PROVE IqIInv
  OBVIOUS
<1>1. call = [c \in Calls |-> "idle"] /\ entry = {} /\ armed = {} /\ shown = FALSE
  BY DEF IqInit
<1>2. CallTypes
  BY <1>1 DEF CallTypes
<1>3. PendingIsTimed /\ ShownHasStream
  BY <1>1 DEF PendingIsTimed, ShownHasStream
<1> QED BY <1>2, <1>3 DEF IqIInv

\* A call that is not pending may move to a state that is not pending.
LEMMA CallMoves ==
    ASSUME IqIInv, NEW c \in Calls, call[c] # "pending", call[c] # "rejected",
           NEW to \in {"idle"} \cup Waiting \cup Settled, to # "pending",
           call' = [call EXCEPT ![c] = to], UNCHANGED <<entry, armed>>,
           shown' \in BOOLEAN
    PROVE  CallTypes' /\ PendingIsTimed'
<1>1. CallTypes'
  BY DEF IqIInv, CallTypes
<1>2. c \notin entry
  BY DEF IqIInv, PendingIsTimed
<1>3. \A d \in Calls : call'[d] = IF d = c THEN to ELSE call[d]
  BY DEF IqIInv, CallTypes
<1>4. PendingIsTimed'
  BY <1>2, <1>3 DEF IqIInv, CallTypes, PendingIsTimed
<1> QED BY <1>1, <1>4

\* A request of the node is entered with its timer, sent or not.
LEMMA Requests ==
    ASSUME IqIInv, NEW c \in Calls, SendRequest(c) PROVE IqIInv'
<1>1. /\ entry' = entry \cup {c} /\ armed' = armed \cup {c}
      /\ UNCHANGED <<table, closing, shown>>
  BY DEF SendRequest, vars
<1>2. PICK to \in {"pending", "rejected"} : call' = [call EXCEPT ![c] = to]
  BY DEF SendRequest
<1>3. to \in {"idle"} \cup Waiting \cup Settled
  BY <1>2 DEF Waiting, Settled
<1>4. CallTypes'
  BY <1>1, <1>2, <1>3 DEF IqIInv, CallTypes
<1>5. \A d \in Calls : call'[d] = IF d = c THEN to ELSE call[d]
  BY <1>2 DEF IqIInv, CallTypes
<1>6. PendingIsTimed'
  BY <1>1, <1>2, <1>5 DEF IqIInv, CallTypes, PendingIsTimed
<1>7. ShownHasStream'
  BY <1>1 DEF IqIInv, ShownHasStream
<1> QED BY <1>4, <1>6, <1>7 DEF IqIInv

\* An answer or a time-out takes the entry out with its timer.
LEMMA Settles ==
    ASSUME IqIInv, NEW c \in Calls, AnswerArrives(c) \/ TimesOut(c) PROVE IqIInv'
<1>1. entry = armed
  BY DEF IqIInv, PendingIsTimed
<1>2. /\ entry' = entry \ {c} /\ armed' = armed \ {c}
      /\ UNCHANGED <<table, closing, shown>>
  BY <1>1 DEF AnswerArrives, TimesOut, vars
<1>3. c \notin entry => call[c] # "pending"
  BY DEF IqIInv, PendingIsTimed
<1>4. PICK to \in {"answered", "rejected", call[c]} :
          call' = [call EXCEPT ![c] = to] /\ to # "pending"
  <2>1. CASE AnswerArrives(c)
    <3>1. call' = [call EXCEPT ![c] = IF c \in entry THEN "answered" ELSE call[c]]
      BY <2>1 DEF AnswerArrives
    <3> QED BY <3>1, <1>3
  <2>2. CASE TimesOut(c)
    <3>1. call' = [call EXCEPT ![c] = IF call[c] = "pending" THEN "rejected" ELSE call[c]]
      BY <2>2 DEF TimesOut
    <3> QED BY <3>1
  <2> QED BY <2>1, <2>2
<1>5. to \in {"idle"} \cup Waiting \cup Settled
  BY <1>4 DEF Settled, IqIInv, CallTypes
<1>6. CallTypes'
  BY <1>2, <1>4, <1>5 DEF IqIInv, CallTypes
<1>7. \A d \in Calls : call'[d] = IF d = c THEN to ELSE call[d]
  BY <1>4 DEF IqIInv, CallTypes
<1>8. PendingIsTimed'
  BY <1>2, <1>4, <1>7 DEF IqIInv, CallTypes, PendingIsTimed
<1>9. ShownHasStream'
  BY <1>2 DEF IqIInv, ShownHasStream
<1> QED BY <1>6, <1>8, <1>9 DEF IqIInv

\* close() of the node empties the table.
LEMMA ShutsDown == ASSUME IqIInv, ShutDown PROVE IqIInv'
<1>1. entry = armed
  BY DEF IqIInv, PendingIsTimed
<1>2. /\ entry' = {} /\ armed' = {}
      /\ call' = [c \in Calls |-> IF c \in entry /\ call[c] = "pending"
                                  THEN "rejected" ELSE call[c]]
      /\ UNCHANGED <<table, shown>>
  BY <1>1 DEF ShutDown, CloseNode
<1>3. closing = "no"
  BY DEF ShutDown, CloseNode
<1>4. CallTypes'
  BY <1>2 DEF IqIInv, CallTypes, Settled
<1>5. \A c \in Calls : call'[c] # "pending"
  BY <1>2 DEF IqIInv, CallTypes, PendingIsTimed
<1>6. PendingIsTimed'
  BY <1>2, <1>5 DEF PendingIsTimed
<1>7. ShownHasStream'
  BY <1>2, <1>3 DEF IqIInv, ShownHasStream
<1> QED BY <1>4, <1>6, <1>7 DEF IqIInv

\* A stream registers or ends: the list follows the table.
LEMMA StreamEvents ==
    ASSUME IqIInv, NEW s \in Streams, StreamEvent(s) \/ CloseEvent(s) PROVE IqIInv'
<1>1. UNCHANGED <<call, entry, armed>> /\ shown' \in BOOLEAN
  BY DEF StreamEvent, CloseEvent
<1>2. CallTypes' /\ PendingIsTimed'
  BY <1>1 DEF IqIInv, CallTypes, PendingIsTimed
<1>3. shown' => table' # None
  <2>1. CASE StreamEvent(s)
    <3>1. table' = s
      BY <2>1 DEF StreamEvent, Inbound, RedialSucceeds, Register
    <3> QED BY <3>1, PeerStreamsAssumption
  <2>2. CASE CloseEvent(s)
    BY <2>2 DEF CloseEvent
  <2> QED BY <2>1, <2>2
<1> QED BY <1>2, <1>3 DEF IqIInv, ShownHasStream

\* No step disturbs the invariant.
LEMMA IqNextIInv == IqIInv /\ [IqNext]_allIqVars => IqIInv'
<1> SUFFICES ASSUME IqIInv, [IqNext]_allIqVars PROVE IqIInv'
  OBVIOUS
<1>1. ASSUME NEW c \in Calls, Begin(c) PROVE IqIInv'
  <2>1. /\ call[c] = "idle" /\ UNCHANGED <<entry, armed, shown>>
        /\ UNCHANGED <<table, closing>>
    BY <1>1 DEF Begin, StartDial, vars
  <2>2. PICK to \in {"mailing", "ready", "dialling"} : call' = [call EXCEPT ![c] = to]
    BY <1>1 DEF Begin
  <2>3. to \in {"idle"} \cup Waiting \cup Settled /\ to # "pending"
    BY <2>2 DEF Waiting
  <2>4. shown' \in BOOLEAN
    BY <2>1 DEF IqIInv, CallTypes
  <2>5. CallTypes' /\ PendingIsTimed'
    BY <2>1, <2>2, <2>3, <2>4, CallMoves
  <2> QED BY <2>1, <2>5 DEF IqIInv, ShownHasStream
<1>2. ASSUME NEW c \in Calls, NotDialled(c) PROVE IqIInv'
  <2>1. call[c] = "dialling" /\ UNCHANGED <<entry, armed, shown, table, closing>>
    BY <1>2 DEF NotDialled, DialFails
  <2>2. PICK to \in {"mailing", "rejected"} : call' = [call EXCEPT ![c] = to]
    BY <1>2 DEF NotDialled
  <2>3. to \in {"idle"} \cup Waiting \cup Settled /\ to # "pending"
    BY <2>2 DEF Waiting, Settled
  <2>4. shown' \in BOOLEAN
    BY <2>1 DEF IqIInv, CallTypes
  <2>5. CallTypes' /\ PendingIsTimed'
    BY <1>2, <2>1, <2>2, <2>3, <2>4, CallMoves
  <2> QED BY <2>1, <2>5 DEF IqIInv, ShownHasStream
<1>3. ASSUME NEW c \in Calls, SendRequest(c) PROVE IqIInv'
  BY <1>3, Requests
<1>4. ASSUME NEW c \in Calls, SendMessage(c) \/ Mailed(c) PROVE IqIInv'
  <2>1. /\ call[c] \in {"ready", "mailing"}
        /\ UNCHANGED <<entry, armed, shown, table, closing>>
    BY <1>4 DEF SendMessage, Mailed, vars
  <2>2. PICK to \in {"handed", "mailing", "rejected"} : call' = [call EXCEPT ![c] = to]
    BY <1>4 DEF SendMessage, Mailed
  <2>3. to \in {"idle"} \cup Waiting \cup Settled /\ to # "pending"
    BY <2>2 DEF Waiting, Settled
  <2>4. shown' \in BOOLEAN
    BY <2>1 DEF IqIInv, CallTypes
  <2>5. CallTypes' /\ PendingIsTimed'
    BY <2>1, <2>2, <2>3, <2>4, CallMoves
  <2> QED BY <2>1, <2>5 DEF IqIInv, ShownHasStream
<1>5. ASSUME NEW c \in Calls, TimesOut(c) \/ AnswerArrives(c) PROVE IqIInv'
  BY <1>5, Settles
<1>6. ASSUME NEW c \in Calls, NEW s \in Streams, Dialled(c, s)
      PROVE  IqIInv'
  <2>1. /\ call[c] = "dialling" /\ UNCHANGED <<entry, armed>> /\ shown' = TRUE
        /\ call' = [call EXCEPT ![c] = "ready"] /\ table' = s
    BY <1>6 DEF Dialled, DialSucceeds, Register
  <2>2. "ready" \in {"idle"} \cup Waiting \cup Settled
    BY DEF Waiting
  <2>3. CallTypes' /\ PendingIsTimed'
    BY <1>6, <2>1, <2>2, CallMoves
  <2> QED BY <2>1, <2>3, PeerStreamsAssumption DEF IqIInv, ShownHasStream
<1>7. ASSUME NEW s \in Streams, StreamEvent(s) \/ CloseEvent(s) PROVE IqIInv'
  BY <1>7, StreamEvents
<1>8. ASSUME NEW q \in Asks, AskArrives(q) \/ AskAnswered(q) \/ AskFails(q)
      PROVE  IqIInv'
  <2>1. UNCHANGED <<call, entry, armed, shown, table, closing>>
    BY <1>8 DEF AskArrives, AskAnswered, AskFails, vars
  <2> QED BY <2>1 DEF IqIInv, CallTypes, PendingIsTimed, ShownHasStream
<1>9. ASSUME NEW b \in BOOLEAN, PeerSaysState(b) PROVE IqIInv'
  <2>1. UNCHANGED <<call, entry, armed, shown, table, closing>>
    BY <1>9 DEF PeerSaysState, vars
  <2> QED BY <2>1 DEF IqIInv, CallTypes, PendingIsTimed, ShownHasStream
<1>10. CASE ShutDown
  BY <1>10, ShutsDown
<1>11. CASE TimerEvent
  <2>1. /\ UNCHANGED <<call, entry, armed, shown>>
        /\ closing' # "done" => (UNCHANGED <<table, closing>> \/ table # None)
        /\ closing' # "done" => table' = table /\ closing' = closing
    BY <1>11 DEF TimerEvent, iqVars, TimerFires, TimerGivesUp, RedialFails, CloseNext
  <2> QED BY <2>1 DEF IqIInv, CallTypes, PendingIsTimed, ShownHasStream
<1>12. CASE UNCHANGED allIqVars
  <2>1. UNCHANGED <<call, entry, armed, shown, table, closing>>
    BY <1>12 DEF allIqVars, iqVars, vars
  <2> QED BY <2>1 DEF IqIInv, CallTypes, PendingIsTimed, ShownHasStream
<1> QED BY <1>1, <1>2, <1>3, <1>4, <1>5, <1>6, <1>7, <1>8, <1>9, <1>10, <1>11, <1>12
        DEF IqNext

\* Every request that waits has its entry and its timer, and nothing else has.
THEOREM RequestsAreTimed == IqSpec => []PendingIsTimed
<1>1. IqIInv => PendingIsTimed
  BY DEF IqIInv
<1> QED BY IqInitIInv, IqNextIInv, <1>1, PTL DEF IqSpec

\* The runtime lists only peers with a registered stream.
THEOREM ListedPeersHaveStreams == IqSpec => []ShownHasStream
<1>1. IqIInv => ShownHasStream
  BY DEF IqIInv
<1> QED BY IqInitIInv, IqNextIInv, <1>1, PTL DEF IqSpec

\* The calls leave the streams as PeerStreams has them.
THEOREM OneOpenStreamForCalls == IqSpec => []OnlyRegisteredIsOpen
BY CallsKeepStreams, OneOpenStream, PTL
=============================================================================
