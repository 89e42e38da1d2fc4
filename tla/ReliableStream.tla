--------------------------- MODULE ReliableStream ---------------------------
(***************************************************************************)
(* What a pair of XmppStreams promises to the code above it, with no frame, *)
(* counter or acknowledgement in sight: a side is given its peer's stanzas  *)
(* one by one and in order, and the peer holds on to every stanza until it  *)
(* has been given.  StreamManagement is shown to implement this.            *)
(***************************************************************************)
EXTENDS Naturals, Sequences

CONSTANTS
    Side,       \* the two sides
    Peer(_)     \* the other side

VARIABLES
    sent,       \* sent[s]: how many stanzas s has sent, numbered from 1
    held,       \* held[s]: the stanzas s can still send again
    given,      \* given[s]: the stanzas the handlers of s were given
    reading     \* reading[s]: s has not closed

vars == <<sent, held, given, reading>>

Init ==
    /\ sent = [s \in Side |-> 0]
    /\ held = [s \in Side |-> {}]
    /\ given = [s \in Side |-> <<>>]
    /\ reading = [s \in Side |-> TRUE]

Send(s) ==
    /\ reading[s]
    /\ sent' = [sent EXCEPT ![s] = @ + 1]
    /\ held' = [held EXCEPT ![s] = @ \cup {sent[s] + 1}]
    /\ UNCHANGED <<given, reading>>

\* The next stanza in the order of sending; one may never be given.
Give(s) ==
    /\ reading[s]
    /\ Len(given[s]) < sent[Peer(s)]
    /\ given' = [given EXCEPT ![s] = Append(@, Len(@) + 1)]
    /\ UNCHANGED <<sent, held, reading>>

\* Only what the peer has been given is let go.
Release(s) ==
    \E gone \in SUBSET held[s] :
        /\ reading[s]
        /\ \A id \in gone : \E i \in 1..Len(given[Peer(s)]) : given[Peer(s)][i] = id
        /\ held' = [held EXCEPT ![s] = @ \ gone]
        /\ UNCHANGED <<sent, given, reading>>

Stop(s) ==
    /\ reading[s]
    /\ reading' = [reading EXCEPT ![s] = FALSE]
    /\ UNCHANGED <<sent, held, given>>

Next == \E s \in Side : Send(s) \/ Give(s) \/ Release(s) \/ Stop(s)

Spec == Init /\ [][Next]_vars
=============================================================================
