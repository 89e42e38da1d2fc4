------------------------------- MODULE ChatPage -------------------------------
(***************************************************************************)
(* One direct conversation as its page shows it                            *)
(* (ui/src/bridge/chat/controller.ts) and as the local history keeps it     *)
(* (ui/src/bridge/direct-chat-history.ts).  Sending, editing and retrying   *)
(* await the node; messages, receipts, rejections and what the outbox has   *)
(* delivered arrive meanwhile, and whoever opens the page again, or the     *)
(* node coming or going, has its controller made anew.  The history may     *)
(* refuse a save, and every change of it makes the page read it again, some *)
(* time later.                                                             *)
(*                                                                         *)
(* A message is its writer's name and a version: 1 is the edited text of 0, *)
(* which has an id of its own.  A message keeps its id when it is sent.     *)
(* Of its flags, only `delivered` is kept: a receipt sets it, a rejection   *)
(* clears it.  That there was a receipt (receiptReceived) is left out.      *)
(***************************************************************************)
EXTENDS Naturals

CONSTANTS
    Mine, Theirs,   \* what the user and the contact write
    Corrected,      \* what of it the contact corrects
    Attempts,       \* bound: calls that await the node at once, numbered
    PageMaxRefusals \* bound: saves that the storage refuses

ASSUME PageAssumption ==
    /\ Mine \cap Theirs = {} /\ Corrected \subseteq Theirs
    /\ Attempts \subseteq Nat /\ PageMaxRefusals \in Nat

Own   == Mine \X {0, 1}
Texts == Own \cup (Theirs \X {0}) \cup (Corrected \X {1})

\* A list has of a message nothing, or it with its flag `delivered`.
Entry == {"absent", "failed", "delivered"}

NoAttempt == [kind |-> "none"]

VARIABLES
    view,       \* state.messages of the page's controller
    saved,      \* the history of the conversation in localStorage
    outdated,   \* the history has changed and the page has not read it again
    attempt,    \* attempt[t]: what the call t sends, what it has captured, and whether
                \* it is one of the page's controller or of a former one
    outboxed,   \* the outbox
    flushed,    \* those of it that a running flush has sent
    written,    \* history: messages whose sendMessage has come to an end, and own
                \* ones that arrived
    atHand,     \* history: those of them that the page's controller has sent or has
                \* found in the history when it was made
    taken,      \* history: messages the node took or the contact acknowledged, own
                \* ones that arrived, and originals of edited ones
    refusals    \* bound: saves that were refused

pageVars == <<view, saved, outdated, attempt, outboxed, flushed, written, atHand,
              taken, refusals>>

On(list, x) == list[x] # "absent"

PageTypeOK ==
    /\ view \in [Texts -> Entry] /\ saved \in [Texts -> Entry]
    /\ outdated \in BOOLEAN
    /\ \A t \in Attempts : attempt[t].kind \in {"none", "send", "edit", "retry"}
    /\ flushed \subseteq outboxed /\ outboxed \subseteq Own
    /\ atHand \subseteq written /\ written \subseteq Own /\ taken \subseteq Own
    /\ refusals \in 0..PageMaxRefusals

PageInit ==
    /\ view = [x \in Texts |-> "absent"] /\ saved = [x \in Texts |-> "absent"]
    /\ outdated = FALSE
    /\ attempt = [t \in Attempts |-> NoAttempt]
    /\ outboxed = {} /\ flushed = {} /\ written = {} /\ atHand = {} /\ taken = {}
    /\ refusals = 0

-----------------------------------------------------------------------------
(* The local history *)

\* saveDirectChatMessage: a flag that is set stays.
Saved(x, e) == [saved EXCEPT ![x] = IF @ = "delivered" THEN @ ELSE e]

\* replaceDirectChatMessage: the record is replaced as it is.
Replaced(old, x, e) == [saved EXCEPT ![old] = "absent", ![x] = e]

\* Slip: only a replacement tells the page.
StoreQuietly(s, tells) ==
    /\ saved' = s
    /\ outdated' = (outdated \/ tells)
    /\ UNCHANGED refusals

\* A save tells the page, if it `tells` or has changed anything; the storage
\* may refuse it.
Store(s, tells) ==
    \/ /\ saved' = s
       /\ outdated' = (outdated \/ tells \/ s # saved)
       /\ UNCHANGED refusals
    \/ /\ refusals < PageMaxRefusals
       /\ refusals' = refusals + 1
       /\ UNCHANGED <<saved, outdated>>

-----------------------------------------------------------------------------
(* The page and its controller *)

\* updateChat: a failed message of the user stays although it was never saved.
Reread(x) ==
    IF On(saved, x) THEN saved[x]
    ELSE IF x \in Own /\ view[x] = "failed" THEN "failed" ELSE "absent"

\* After a change of the history, and also when only the chat has news, such as
\* who is online.
UpdateChat ==
    /\ outdated' = FALSE
    /\ view' = [x \in Texts |-> Reread(x)]
    /\ UNCHANGED <<saved, attempt, outboxed, flushed, written, atHand, taken, refusals>>

\* The page is left and opened again, or the runtime comes or goes: a new
\* controller starts from the history.  What the former one awaits goes on.
NewController ==
    /\ view' = saved /\ outdated' = FALSE
    /\ atHand' = {x \in written : On(saved, x)}
    /\ attempt' = [t \in Attempts |-> IF attempt[t] = NoAttempt THEN NoAttempt
                                      ELSE [attempt[t] EXCEPT !.here = FALSE]]
    /\ UNCHANGED <<saved, outboxed, flushed, written, taken, refusals>>

-----------------------------------------------------------------------------
(* Sending and editing: one call of a controller at a time *)

Begins(t, call) ==
    /\ attempt[t] = NoAttempt /\ \A u \in Attempts : attempt[u] = NoAttempt => t <= u
    /\ attempt' = [attempt EXCEPT ![t] = call]
    /\ UNCHANGED <<view, saved, outdated, outboxed, flushed, written, atHand, taken,
                   refusals>>

CallOver(t) == attempt' = [attempt EXCEPT ![t] = NoAttempt]

SendingHere == \E t \in Attempts : /\ attempt[t].kind \in {"send", "edit"}
                                   /\ attempt[t].here

StartSend(t, m) ==
    /\ ~SendingHere
    /\ <<m, 0>> \notin written
    /\ \A u \in Attempts : attempt[u].kind # "none" => attempt[u].text # <<m, 0>>
    /\ Begins(t, [kind |-> "send", here |-> TRUE, text |-> <<m, 0>>, list |-> view])

\* The captured list with the message is the controller's new list; what came
\* meanwhile is on the page again only once the history has been read.
Sent(t, e) ==
    LET x == attempt[t].text
    IN  /\ attempt[t].kind = "send"
        /\ CallOver(t)
        /\ IF attempt[t].here
           THEN view' = [attempt[t].list EXCEPT ![x] = e] /\ atHand' = atHand \cup {x}
           ELSE UNCHANGED <<view, atHand>>
        /\ Store(Saved(x, e), TRUE)
        /\ written' = written \cup {x}
        /\ UNCHANGED flushed

SendSucceeds(t) ==
    /\ Sent(t, "delivered")
    /\ taken' = taken \cup {attempt[t].text}
    /\ UNCHANGED outboxed

\* The message is queued if the outbox takes such messages and can be saved.
SendFails(t) ==
    /\ Sent(t, "failed")
    /\ outboxed' \in {outboxed, outboxed \cup {attempt[t].text}}
    /\ UNCHANGED taken

\* startEdit of an own message, and the call that sends the new text.
StartEdit(t, m) ==
    /\ ~SendingHere
    /\ On(view, <<m, 0>>)
    /\ Begins(t, [kind |-> "edit", here |-> TRUE, text |-> <<m, 0>>])

EditSucceeds(t) ==
    LET x == attempt[t].text
        y == <<x[1], 1>>
    IN  /\ attempt[t].kind = "edit"
        /\ CallOver(t)
        /\ view' = IF attempt[t].here /\ On(view, x)
                   THEN [view EXCEPT ![x] = "absent", ![y] = "delivered"] ELSE view
        /\ Store(Replaced(x, y, "delivered"), TRUE)
        /\ taken' = taken \cup {x, y}
        /\ UNCHANGED <<outboxed, flushed, written, atHand>>

\* An edit or a retry that fails leaves all as it was.
GivesUp(t) ==
    /\ attempt[t].kind \in {"edit", "retry"}
    /\ CallOver(t)
    /\ UNCHANGED <<view, saved, outdated, outboxed, flushed, written, atHand, taken,
                   refusals>>

-----------------------------------------------------------------------------
(* Retrying: nothing keeps two calls apart *)

StartRetry(t, x) ==
    /\ view[x] = "failed" /\ x \notin outboxed
    /\ Begins(t, [kind |-> "retry", here |-> TRUE, text |-> x])

\* The captured message, now delivered, replaces the one there is.
RetrySucceeds(t) ==
    LET x == attempt[t].text
    IN  /\ attempt[t].kind = "retry"
        /\ CallOver(t)
        /\ view' = IF attempt[t].here /\ On(view, x)
                   THEN [view EXCEPT ![x] = "delivered"] ELSE view
        /\ Store(Replaced(x, x, "delivered"), TRUE)
        /\ taken' = taken \cup {x}
        /\ UNCHANGED <<outboxed, flushed, written, atHand>>

-----------------------------------------------------------------------------
(* The outbox *)

\* A flush has sent x: markDirectChatMessageDelivered marks it in the history,
\* if it is there, and then on the page.
FlushSends(x) ==
    /\ x \in outboxed \ flushed
    /\ flushed' = flushed \cup {x}
    /\ taken' = taken \cup {x}
    /\ IF On(saved, x)
       THEN /\ Store([saved EXCEPT ![x] = "delivered"], TRUE)
            /\ view' = IF On(view, x) /\ refusals' = refusals
                       THEN [view EXCEPT ![x] = "delivered"] ELSE view
       ELSE UNCHANGED <<view, saved, outdated, refusals>>
    /\ UNCHANGED <<attempt, outboxed, written, atHand>>

FlushDone ==
    /\ flushed # {}
    /\ outboxed' = outboxed \ flushed /\ flushed' = {}
    /\ UNCHANGED <<view, saved, outdated, attempt, written, atHand, taken, refusals>>

-----------------------------------------------------------------------------
(* What arrives *)

\* A message of the contact or, from another device or the archive, of the user,
\* or the correction of one, perhaps repeated: the page skips what it shows, and
\* the chat list saves it once more.
HearText(x) ==
    LET first == <<x[1], 0>>
    IN  /\ view' = IF On(view, x) THEN view
                   ELSE [view EXCEPT ![first] = IF x[2] = 1 THEN "absent" ELSE @,
                                     ![x] = "delivered"]
        /\ IF x[2] = 0 THEN Store(Saved(x, "delivered"), FALSE)
                       ELSE Store(Replaced(first, x, "delivered"), TRUE)
        /\ written' = written \cup ({first} \cap Own)
        /\ taken' = taken \cup ({first, x} \cap Own)
        /\ UNCHANGED <<attempt, outboxed, flushed, atHand>>

\* The contact or the server can answer what is, or may be, on its way.
OnItsWay(x) ==
    \/ x \in taken
    \/ \E t \in Attempts : attempt[t].kind \in {"send", "retry"} /\ attempt[t].text = x

\* A receipt: for what the page shows; otherwise for what the history has.
HearReceipt(x) ==
    /\ OnItsWay(x)
    /\ view' = IF On(view, x) THEN [view EXCEPT ![x] = "delivered"] ELSE view
    /\ IF On(view, x) \/ On(saved, x) THEN Store(Saved(x, "delivered"), TRUE)
       ELSE UNCHANGED <<saved, outdated, refusals>>
    /\ taken' = taken \cup {x}
    /\ UNCHANGED <<attempt, outboxed, flushed, written, atHand>>

\* A stanza error reverses what was shown as sent.
HearRejection(x) ==
    /\ OnItsWay(x) /\ On(view, x)
    /\ view' = [view EXCEPT ![x] = "failed"]
    /\ Store(Replaced(x, x, "failed"), TRUE)
    /\ UNCHANGED <<attempt, outboxed, flushed, written, atHand, taken>>

PageNext ==
    \/ UpdateChat \/ NewController
    \/ \E t \in Attempts :
          \/ \E m \in Mine : StartSend(t, m) \/ StartEdit(t, m)
          \/ \E x \in Own : StartRetry(t, x)
          \/ SendSucceeds(t) \/ SendFails(t) \/ EditSucceeds(t) \/ RetrySucceeds(t)
          \/ GivesUp(t)
    \/ \E x \in Texts : HearText(x)
    \/ \E x \in Own : FlushSends(x) \/ HearReceipt(x) \/ HearRejection(x)
    \/ FlushDone

PageSpec == PageInit /\ [][PageNext]_pageVars

-----------------------------------------------------------------------------
(* Properties *)

\* Unless a save failed, the history has every message that no one took, and as
\* soon as the page has read it again it shows what that has, with the same
\* delivery state: a send that wrote an old list over newer messages and states
\* does no lasting harm, and neither does one whose page was left meanwhile.  And
\* a message that no one took stays on the page for as long as the controller does
\* that sent it or found it in the history, also when it could be neither saved nor
\* queued: so long can the user tap Retry.  (The toast says so for longer: "still
\* visible here; tap Retry after reconnecting", controller.ts:606, 635; but
\* reconnecting makes the controller anew, and what could not be saved is gone.)
PageShowsConversation ==
    /\ refusals = 0 =>
          /\ \A x \in written \ taken : On(saved, x)
          /\ ~outdated => \A x \in Texts : On(saved, x) => view[x] = saved[x]
    /\ \A x \in atHand \ taken : On(view, x)
=============================================================================
