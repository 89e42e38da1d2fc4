----------------------------- MODULE MucHistory -----------------------------
(***************************************************************************)
(* The group messages of one node: the archive that recordMucMessage keeps  *)
(* (src/core/xmpp-muc.ts) and the list the chat page shows                  *)
(* (ui/src/bridge/chat/controller.ts).  Every message is published on two   *)
(* topics and may come once more from an archive, so it arrives repeatedly  *)
(* and in any order; a correction replaces the message it names.            *)
(*                                                                         *)
(* A message stands for its room and id; a correction names a message of    *)
(* its own room.  All rooms share one limit.                                *)
(***************************************************************************)
EXTENDS Integers, Sequences

CONSTANTS
    Msgs,           \* the group messages that are ever sent
    NoMsg,
    Fix(_),         \* the message that a correction replaces, or NoMsg
    HistoryLimit    \* MUC_HISTORY_LIMIT

ASSUME MucHistoryAssumption ==
    /\ NoMsg \notin Msgs
    /\ \A m \in Msgs : Fix(m) \in (Msgs \ {m}) \cup {NoMsg}
    /\ HistoryLimit \in Nat \ {0}

VARIABLES
    archive,    \* mucHistory, in the order of insertion
    shown,      \* the messages on the page
    got,        \* history: the messages that arrived or were sent
    late,       \* history: those that arrived when a correction of them had
    evicted     \* history: the limit has pushed an entry out

histVars == <<archive, shown, got, late, evicted>>

Entries(s) == {s[i] : i \in 1..Len(s)}

HistTypeOK ==
    /\ archive \in Seq(Msgs)
    /\ shown \subseteq Msgs /\ got \subseteq Msgs /\ late \subseteq Msgs
    /\ evicted \in BOOLEAN

HistInit ==
    /\ archive = <<>>
    /\ shown = {} /\ got = {} /\ late = {}
    /\ evicted = FALSE

-----------------------------------------------------------------------------
(* recordMucMessage *)

Corrects(set, m) == \E f \in set : Fix(f) = m

\* Map.delete: the other entries keep their order.
Without(s, m) ==
    IF \E i \in 1..Len(s) : s[i] = m
    THEN LET i == CHOOSE i \in 1..Len(s) : s[i] = m
         IN  SubSeq(s, 1, i - 1) \o SubSeq(s, i + 1, Len(s))
    ELSE s

\* Slip: only the message itself is looked for, not a correction of it.
KnownById(s, m) == m \in Entries(s)

\* What is archived, or was corrected by something archived, is a duplicate.
Known(s, m) == m \in Entries(s) \/ Corrects(Entries(s), m)

\* A correction takes the original out and goes to the end itself.
Entered(s, m) == Append(Without(s, Fix(m)), m)

\* The oldest entry of any room makes place.
Trimmed(s) == IF Len(s) > HistoryLimit THEN Tail(s) ELSE s

Recorded(s, m) == IF Known(s, m) THEN s ELSE Trimmed(Entered(s, m))

-----------------------------------------------------------------------------
(* The page *)

\* Slip: the page puts a correction at the end, whatever it corrects.
ListedBeside(v, m) == v \cup {m}

\* The controller skips an id it shows, puts a correction in the place of its
\* original if that is there, and at the end otherwise.
Listed(v, m) == IF m \in v THEN v ELSE (v \ {Fix(m)}) \cup {m}

\* The muc:message event is emitted whether or not the message was known.
Arrives(m) ==
    /\ archive' = Recorded(archive, m)
    /\ shown' = Listed(shown, m)
    /\ got' = got \cup {m}
    /\ late' = IF Corrects(got, m) THEN late \cup {m} ELSE late
    /\ evicted' = (evicted \/ (~Known(archive, m) /\
                               Len(Entered(archive, m)) > HistoryLimit))

\* sendGroupMessage, secure or not: the node records what it published.  The
\* controller puts its own message on the page when the call returns.
SendsMessage(m) == m \notin got /\ Arrives(m)

\* handleIncomingElement, a groupchat message by one of the two topics, or
\* handleIncomingMamResult: nothing limits how often and in which order.
HearsMessage(m) == Arrives(m)

HistNext == \E m \in Msgs : SendsMessage(m) \/ HearsMessage(m)

HistSpec == HistInit /\ [][HistNext]_histVars

-----------------------------------------------------------------------------
(* Properties *)

\* Corrections of corrections: editing a message twice names the first edit.
Chained == \E f \in got : Fix(f) # NoMsg /\ Corrects(got, f)

Current == {m \in got : ~Corrects(got, m)}

\* However messages and corrections arrive, repeated, reordered, corrected again or
\* coming back after the limit has pushed them out, recordMucMessage archives each
\* once and none beside its correction, and a full archive stays full and no larger.
\* Until an eviction or a corrected correction, members that heard the same messages
\* hold the same archive, in whatever order they came: what nothing corrects.
ArchiveHoldsOneVersion ==
    /\ \A i, j \in 1..Len(archive) : archive[i] = archive[j] => i = j
    /\ \A m \in Entries(archive) : ~Corrects(Entries(archive), m)
    /\ Len(archive) <= HistoryLimit /\ (evicted => Len(archive) = HistoryLimit)
    /\ (~evicted /\ ~Chained) => Entries(archive) = Current

\* What the test of the MUC extensions waits for: a message and its correction are
\* both in the archive that a peer asks for.  recordMucMessage takes the message out.
CorrectedIsArchived == ~evicted => got \subseteq Entries(archive)

\* The page shows what is archived, and beyond it only outdated text: an
\* original that came, or came again, after its correction.
PageShowsArchive ==
    (~evicted /\ ~Chained) => /\ Entries(archive) \subseteq shown
                              /\ shown \subseteq Entries(archive) \cup late

=============================================================================
