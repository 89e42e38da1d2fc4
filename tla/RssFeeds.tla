------------------------------- MODULE RssFeeds -------------------------------
(***************************************************************************)
(* The RSS and Atom feeds of an account (src/core/rss-feeds.ts): one source *)
(* stands for any, with the entries imported from it.  Every call of the    *)
(* RssFeedManager reads the record of the source, awaits, and stores the    *)
(* copy it read as a whole; only two refreshes of a source are never under  *)
(* way at once.  The server answers "not modified" to the entity tag of its *)
(* current document.  Entries are numbered by their dates; a title, a       *)
(* retry time and the texts are left out.                                   *)
(***************************************************************************)
EXTENDS Naturals, Sequences, FiniteSets

CONSTANTS
    Slots,          \* bound: calls under way at once, numbered
    Window,         \* entries that a document lists
    ItemLimit,      \* MAX_STORED_ITEMS_PER_ACCOUNT
    MaxVersion,     \* bound: documents that the server publishes
    RssMaxActs,     \* bound: calls begun in a behaviour
    RssMaxFails     \* bound: awaits that reject: fetches, publications, storage

ASSUME RssAssumption ==
    /\ {Window, ItemLimit, MaxVersion} \subseteq Nat \ {0} /\ Slots \subseteq Nat
    /\ RssMaxActs \in Nat /\ RssMaxFails \in Nat

RssEntries == 1..MaxVersion
EntriesOf(v) == {e \in 1..v : e + Window > v}

\* The record of the source; etag is the document of its last entity tag.
NoSource == [status |-> "none", share |-> FALSE, shared |-> <<>>,
             shareError |-> FALSE, etag |-> 0]
Source == [status : {"none", "active", "paused", "error"}, share : BOOLEAN,
           shared : Seq(RssEntries), shareError : BOOLEAN, etag : 0..MaxVersion]

Ops == {"subscribe", "subscribeShared", "refresh", "pause", "resume", "share",
        "unshare", "remove", "purge"}
NoCall == [op |-> "none", pc |-> "idle", copy |-> NoSource, todo |-> {},
           guarded |-> FALSE]

VARIABLES
    version,    \* the document that the server has now
    source,     \* the stored record
    items,      \* the stored entries
    rssCall,    \* progress of each call, with its copy of the record; guarded
                \* while it is inside the try of doRefresh
    torn,       \* history: a removal overlapped a call, or the tab closed in one,
                \* or the storage refused entries whose tag is stored
    rssActs,    \* bound
    rssFails    \* bound

rssVars == <<version, source, items, rssCall, torn, rssActs, rssFails>>

RssTypeOK ==
    /\ version \in RssEntries
    /\ source \in Source
    /\ items \subseteq RssEntries
    /\ rssCall \in [Slots -> [op : Ops \cup {"none"},
                              pc : {"idle", "read", "fetch", "look", "mark", "store",
                                    "evict", "list", "publish", "save", "delete",
                                    "purge"},
                              copy : Source, todo : SUBSET RssEntries,
                              guarded : BOOLEAN]]
    /\ torn \in BOOLEAN
    /\ rssActs \in 0..RssMaxActs /\ rssFails \in 0..RssMaxFails

Remembered(s) == {s.shared[n] : n \in DOMAIN s.shared}

\* There is no source yet, or one whose first document was imported, shared or not.
RssInit ==
    /\ version = 1
    /\ \/ source = NoSource /\ items = {}
       \/ \E share \in BOOLEAN :
             /\ source = [NoSource EXCEPT !.status = "active", !.etag = 1, !.share = share,
                                         !.shared = IF share THEN <<1>> ELSE <<>>]
             /\ items = {1}
    /\ rssCall = [c \in Slots |-> NoCall]
    /\ torn = FALSE
    /\ rssActs = 0 /\ rssFails = 0

UnderWay == {c \in Slots : rssCall[c].pc # "idle"}
Removes(op) == op \in {"remove", "purge"}

\* The call c goes on at pc, with the copy s of the record and the rest todo; inside
\* the try or not, or as before.
Moves(c, pc, s, todo, guarded) ==
    rssCall' = [rssCall EXCEPT ![c] = [op |-> rssCall[c].op, pc |-> pc, copy |-> s,
                                       todo |-> todo, guarded |-> guarded]]
Goes(c, pc, s, todo) == Moves(c, pc, s, todo, rssCall[c].guarded)
Ends(c) == rssCall' = [rssCall EXCEPT ![c] = NoCall]

Fails == rssFails < RssMaxFails /\ rssFails' = rssFails + 1

-----------------------------------------------------------------------------
(* Slips *)

\* The newest go first.
NewestGo == {e \in items : Cardinality({x \in items : x < e}) >= ItemLimit}

-----------------------------------------------------------------------------
(* The entries *)

\* Those beyond the limit, the oldest first.
Oldest == {e \in items : Cardinality({x \in items : x > e}) >= ItemLimit}

\* shared.add(), and slice(-limit) of what results.
WithShared(s, e) ==
    LET all == Append(s.shared, e)
        from == IF Len(all) > ItemLimit THEN Len(all) - ItemLimit + 1 ELSE 1
    IN [s EXCEPT !.shared = SubSeq(all, from, Len(all))]

-----------------------------------------------------------------------------
(* Beginning a call, and the record it reads *)

\* A refresh while one is under way awaits that one.
BeginCall(c, op) ==
    /\ rssActs < RssMaxActs /\ rssActs' = rssActs + 1
    /\ c \notin UnderWay /\ \A d \in Slots \ UnderWay : c <= d
    /\ op = "refresh" => \A d \in UnderWay : rssCall[d].op # "refresh"
    /\ rssCall' = [rssCall EXCEPT ![c] = [NoCall EXCEPT !.op = op, !.pc =
           IF op \in {"subscribe", "subscribeShared"} THEN "fetch"
           ELSE IF Removes(op) THEN "delete" ELSE "read"]]
    /\ torn' = (torn \/ \E d \in UnderWay : Removes(op) \/ Removes(rssCall[d].op))
    /\ UNCHANGED <<version, source, items, rssFails>>

\* findSource: a call for a source that is gone ends, and the refresh of a
\* paused one.
ReadSource(c) ==
    /\ rssCall[c].pc = "read"
    /\ LET op == rssCall[c].op IN
       \/ /\ source = NoSource \/ (op = "refresh" /\ source.status = "paused")
          /\ Ends(c)
       \/ /\ source # NoSource
          /\ \/ op = "pause" /\ Goes(c, "save", [source EXCEPT !.status = "paused"], {})
             \/ op = "resume" /\ Goes(c, "save", [source EXCEPT !.status = "active"], {})
             \/ op = "share" /\ Goes(c, "list", [source EXCEPT !.share = TRUE], {})
             \/ /\ op = "unshare"
                /\ Goes(c, "save", [source EXCEPT !.share = FALSE, !.shareError = FALSE], {})
             \/ /\ op = "refresh" /\ source.status # "paused"
                /\ Moves(c, "fetch", source, {}, TRUE)
    /\ UNCHANGED <<version, source, items, torn, rssActs, rssFails>>

-----------------------------------------------------------------------------
(* Fetching the document *)

\* doRefresh: the document is stored with its tag and then its entries; one
\* that is not modified only shares what could not be shared before.
Refreshes(c) ==
    /\ rssCall[c].pc = "fetch" /\ rssCall[c].op = "refresh"
    /\ LET got == [rssCall[c].copy EXCEPT !.status = "active", !.etag = version] IN
       IF rssCall[c].copy.etag = version
       THEN Goes(c, IF got.share THEN "list" ELSE "save", got, {})
       ELSE Goes(c, "mark", got, EntriesOf(version))
    /\ UNCHANGED <<version, source, items, torn, rssActs, rssFails>>

\* subscribe has the document and makes a record of it.
Fetched(c) ==
    /\ rssCall[c].pc = "fetch" /\ rssCall[c].op # "refresh"
    /\ Goes(c, "look", [NoSource EXCEPT !.status = "active", !.etag = version,
                        !.share = (rssCall[c].op = "subscribeShared")], EntriesOf(version))
    /\ UNCHANGED <<version, source, items, torn, rssActs, rssFails>>

\* A source that is there already is kept, and only shared if that is asked.
LooksForSource(c) ==
    /\ rssCall[c].pc = "look"
    /\ IF source = NoSource THEN Goes(c, "mark", rssCall[c].copy, rssCall[c].todo)
       ELSE IF rssCall[c].copy.share /\ ~source.share
       THEN Goes(c, "list", [source EXCEPT !.share = TRUE], {})
       ELSE Ends(c)
    /\ UNCHANGED <<version, source, items, torn, rssActs, rssFails>>

\* saveSource before the entries are stored.  A refresh returns what saveEntries
\* promises without awaiting it, so its catch does not see it fail.
MarkSource(c) ==
    /\ rssCall[c].pc = "mark"
    /\ source' = rssCall[c].copy
    /\ Moves(c, "store", rssCall[c].copy, rssCall[c].todo, FALSE)
    /\ UNCHANGED <<version, items, torn, rssActs, rssFails>>

-----------------------------------------------------------------------------
(* Storing and sharing the entries *)

PutEntry(c, e) ==
    /\ rssCall[c].pc = "store" /\ e \in rssCall[c].todo
    /\ items' = items \cup {e}
    /\ Goes(c, "store", rssCall[c].copy, rssCall[c].todo \ {e})
    /\ UNCHANGED <<version, source, torn, rssActs, rssFails>>

\* All are stored: those beyond the limit are listed and then deleted.
ListOldest(c) ==
    /\ rssCall[c].pc = "store" /\ rssCall[c].todo = {}
    /\ Goes(c, "evict", rssCall[c].copy, Oldest)
    /\ UNCHANGED <<version, source, items, torn, rssActs, rssFails>>

EvictOldest(c, e) ==
    /\ rssCall[c].pc = "evict"
    /\ e \in rssCall[c].todo /\ \A x \in rssCall[c].todo : e <= x
    /\ items' = items \ {e}
    /\ Goes(c, "evict", rssCall[c].copy, rssCall[c].todo \ {e})
    /\ UNCHANGED <<version, source, torn, rssActs, rssFails>>

EntriesAreIn(c) ==
    /\ rssCall[c].pc = "evict" /\ rssCall[c].todo = {}
    /\ Goes(c, IF rssCall[c].copy.share THEN "list" ELSE "save", rssCall[c].copy, {})
    /\ UNCHANGED <<version, source, items, torn, rssActs, rssFails>>

\* shareNewEntries: the entries that the copy does not remember as shared.
ListToShare(c) ==
    /\ rssCall[c].pc = "list"
    /\ LET s == [rssCall[c].copy EXCEPT !.shareError = FALSE] IN
       Goes(c, "publish", s, items \ Remembered(s))
    /\ UNCHANGED <<version, source, items, torn, rssActs, rssFails>>

\* The oldest first; a failure does not keep the others.
PublishEntry(c, e) ==
    /\ rssCall[c].pc = "publish"
    /\ e \in rssCall[c].todo /\ \A x \in rssCall[c].todo : e <= x
    /\ LET s == rssCall[c].copy IN
       \/ /\ Goes(c, "publish", WithShared(s, e), rssCall[c].todo \ {e})
          /\ UNCHANGED rssFails
       \/ /\ Fails
          /\ Goes(c, "publish", [s EXCEPT !.shareError = TRUE], rssCall[c].todo \ {e})
    /\ UNCHANGED <<version, source, items, torn, rssActs>>

\* The last saveSource of a call, with the copy that it has held all along.
SaveSource(c) ==
    /\ rssCall[c].pc = "save" \/ (rssCall[c].pc = "publish" /\ rssCall[c].todo = {})
    /\ source' = rssCall[c].copy
    /\ Ends(c)
    /\ UNCHANGED <<version, items, torn, rssActs, rssFails>>

\* An await of the call rejects: the storage refuses, or the document cannot be had.
\* Inside the try of doRefresh the copy is saved with the error, and with the tag
\* it may have taken already; elsewhere the call ends and what it did so far stays.
Rejects(c) ==
    /\ c \in UnderWay /\ Fails
    /\ rssCall[c].pc = "publish" => rssCall[c].todo = {}
    /\ IF rssCall[c].guarded
       THEN Moves(c, "save", [rssCall[c].copy EXCEPT !.status = "error"], {}, FALSE)
       ELSE Ends(c)
    /\ torn' = (torn \/ (rssCall[c].pc = "mark" /\ rssCall[c].guarded)
                     \/ (rssCall[c].pc = "store" /\ rssCall[c].todo # {}))
    /\ UNCHANGED <<version, source, items, rssActs>>

-----------------------------------------------------------------------------
(* Removing the source, and the world around *)

DeleteSource(c) ==
    /\ rssCall[c].pc = "delete"
    /\ source' = NoSource
    /\ IF rssCall[c].op = "purge" THEN Goes(c, "purge", NoSource, items) ELSE Ends(c)
    /\ UNCHANGED <<version, items, torn, rssActs, rssFails>>

DeleteEntry(c, e) ==
    /\ rssCall[c].pc = "purge" /\ e \in rssCall[c].todo
    /\ items' = items \ {e}
    /\ Goes(c, "purge", rssCall[c].copy, rssCall[c].todo \ {e})
    /\ UNCHANGED <<version, source, torn, rssActs, rssFails>>

EntriesAreGone(c) ==
    /\ rssCall[c].pc = "purge" /\ rssCall[c].todo = {}
    /\ Ends(c)
    /\ UNCHANGED <<version, source, items, torn, rssActs, rssFails>>

NewDocument ==
    /\ version < MaxVersion
    /\ version' = version + 1
    /\ UNCHANGED <<source, items, rssCall, torn, rssActs, rssFails>>

\* The tab is closed in the middle of calls, and opened again.
CloseTab ==
    /\ UnderWay # {}
    /\ rssCall' = [c \in Slots |-> NoCall]
    /\ torn' = TRUE
    /\ UNCHANGED <<version, source, items, rssActs, rssFails>>

RssNext ==
    \/ \E c \in Slots :
          \/ \E op \in Ops : BeginCall(c, op)
          \/ ReadSource(c) \/ Refreshes(c) \/ Fetched(c) \/ LooksForSource(c)
          \/ MarkSource(c) \/ ListOldest(c) \/ EntriesAreIn(c) \/ ListToShare(c)
          \/ SaveSource(c) \/ Rejects(c) \/ DeleteSource(c) \/ EntriesAreGone(c)
          \/ \E e \in RssEntries :
                \/ PutEntry(c, e) \/ EvictOldest(c, e) \/ PublishEntry(c, e)
                \/ DeleteEntry(c, e)
    \/ NewDocument \/ CloseTab

RssSpec == RssInit /\ [][RssNext]_rssVars

-----------------------------------------------------------------------------
(* Properties *)

\* The entity tag in the record never claims more than was imported: each entry of
\* its document is stored, is being stored, or gave way to newer ones, however
\* calls overlap and overwrite the record of one another, and whichever awaits
\* reject before the tag is taken or after the entries are stored.  Not so once a
\* removal overlapped a call, the tab closed in one, or the storage refused the
\* record or an entry of a document whose tag is taken: the tag is stored before
\* the entries, and "not modified" then hides those that are missing.
TagIsHonest ==
    (~torn /\ source # NoSource) =>
        \A e \in EntriesOf(source.etag) :
            \/ e \in items
            \/ Cardinality({x \in items : x > e}) >= ItemLimit
            \/ \E c \in UnderWay : rssCall[c].pc = "store" /\ e \in rssCall[c].todo
=============================================================================
