-------------------------------- MODULE Uploads --------------------------------
(***************************************************************************)
(* The replication of an uploaded file (src/core/xmpp-uploads.ts): a node   *)
(* that has stored the object announces a list of providers over pubsub;    *)
(* who hears of it fetches a copy from one of them and announces the list   *)
(* with itself added.  One object stands for any, and a node for its own    *)
(* URLs, which are always listed together.  A node without an HTTP server   *)
(* (a browser) announces what its user uploads, but not its copies.  Slots, *)
(* chunks, sizes and contents are left out.  A list reaches every other     *)
(* node that is up, in any order.                                           *)
(***************************************************************************)
EXTENDS Naturals, Sequences, FiniteSets, Bags, BagsExt

CONSTANTS
    Hosts,          \* nodes with an HTTP server
    Browsers,       \* nodes without one
    MaxMembers,     \* bound: nodes of a behaviour and uploads, together
    UploadMaxActs,  \* bound: GETs for an object that is not there, nodes that close
    UploadMaxFails  \* bound: fetches and writes that fail

ASSUME UploadAssumption ==
    /\ IsFiniteSet(Hosts) /\ IsFiniteSet(Browsers) /\ Hosts \cap Browsers = {}
    /\ {MaxMembers, UploadMaxActs, UploadMaxFails} \subseteq Nat
    /\ Cardinality(Hosts \cup Browsers) <= MaxMembers

Providers == Hosts \cup Browsers
Lists == SUBSET Providers

\* A node fetches when it hears of the object (uploadPrefetches) and for a GET.
Purposes == {"prefetch", "get"}
NoFetch == [pc |-> "idle", list |-> {}, todo |-> {}]

VARIABLES
    up,         \* nodes that take part and have not closed
    object,     \* nodes whose storage has the object
    listed,     \* uploadManifests: the providers that each node remembers
    looking,    \* recordUploadManifest: merged lists, while the storage is asked
    fetch,      \* fetchAndCacheUpload, for either purpose
    storing,    \* nodes whose user's upload is stored and not yet announced
    inFlight,        \* lists on their way to each node
    told,       \* history: nodes that announced a copy
    wiped,      \* history: nodes whose failed write took a stored object away
    forgot,     \* history: nodes that wrote a list over one that had more
    uploads, uploadActs, uploadFails        \* bounds

uploadVars == <<up, object, listed, looking, fetch, storing, inFlight, told, wiped,
                forgot, uploads, uploadActs, uploadFails>>

UploadTypeOK ==
    /\ \A s \in {up, object, storing, told, wiped, forgot} : s \subseteq Providers
    /\ listed \in [Providers -> Lists]
    /\ \A n \in Providers : looking[n] \in Seq(Lists) /\ IsABag(inFlight[n])
    /\ fetch \in [Providers -> [Purposes -> [pc : {"idle", "try", "meta", "blob"},
                                             list : Lists, todo : Lists]]]
    /\ uploads \in 0..MaxMembers /\ uploadActs \in 0..UploadMaxActs
    /\ uploadFails \in 0..UploadMaxFails

UploadInit ==
    /\ up \in {s \in SUBSET Providers : Cardinality(s) >= 2}
    /\ object = {} /\ storing = {} /\ told = {} /\ wiped = {} /\ forgot = {}
    /\ listed = [n \in Providers |-> {}]
    /\ looking = [n \in Providers |-> <<>>]
    /\ fetch = [n \in Providers |-> [p \in Purposes |-> NoFetch]]
    /\ inFlight = [n \in Providers |-> EmptyBag]
    /\ uploads = 0 /\ uploadActs = 0 /\ uploadFails = 0

UploadAct  == uploadActs < UploadMaxActs /\ uploadActs' = uploadActs + 1
UploadFail == uploadFails < UploadMaxFails /\ uploadFails' = uploadFails + 1

\* announceUploadManifest: buildUploadProviders adds the node itself.
Announced(n, list) ==
    [m \in Providers |-> IF m \in up \ {n} THEN BagAdd(inFlight[m], list \cup {n})
                         ELSE inFlight[m]]

Fetching(n, p, pc, list, todo) ==
    fetch' = [fetch EXCEPT ![n][p] = [pc |-> pc, list |-> list, todo |-> todo]]
FetchEnds(n, p) == fetch' = [fetch EXCEPT ![n][p] = NoFetch]

-----------------------------------------------------------------------------
(* A list is heard *)

\* Slip: the list that came takes the place of the one remembered.
NewestOnly(n, list) == list

Merged(n, list) == listed[n] \cup list

\* fetchAndCacheUpload begins unless the object is there; its providers are
\* those of the list it is given.
StartsPrefetch(n, list) ==
    IF fetch[n]["prefetch"].pc = "idle" /\ n \notin object
    THEN Fetching(n, "prefetch", "try", list, list)
    ELSE UNCHANGED fetch

\* recordUploadManifest: a node with a server asks its storage for the object.
HearsList(n, list) ==
    /\ n \in up /\ BagIn(list, inFlight[n])
    /\ LET merged == Merged(n, list) IN
       /\ listed' = [listed EXCEPT ![n] = merged]
       /\ IF n \in Hosts
          THEN looking' = [looking EXCEPT ![n] = Append(@, merged)] /\ UNCHANGED fetch
          ELSE StartsPrefetch(n, merged) /\ UNCHANGED looking
    /\ inFlight' = [inFlight EXCEPT ![n] = BagRemove(@, list)]
    /\ UNCHANGED <<up, object, storing, told, wiped, forgot, uploads, uploadActs,
                  uploadFails>>

\* The answer: the list merged before the storage was asked, with the node
\* itself, replaces whatever was remembered since.
FindsOwnCopy(n) ==
    /\ n \in up /\ looking[n] # <<>>
    /\ looking' = [looking EXCEPT ![n] = Tail(@)]
    /\ LET merged == Head(looking[n]) IN
       IF n \in object /\ n \notin merged
       THEN /\ listed' = [listed EXCEPT ![n] = merged \cup {n}]
            /\ forgot' = IF listed[n] \subseteq merged \cup {n} THEN forgot
                         ELSE forgot \cup {n}
            /\ inFlight' = Announced(n, merged) /\ told' = told \cup {n}
            /\ UNCHANGED fetch
       ELSE /\ StartsPrefetch(n, merged)
            /\ UNCHANGED <<listed, inFlight, told, forgot>>
    /\ UNCHANGED <<up, object, storing, wiped, uploads, uploadActs, uploadFails>>

-----------------------------------------------------------------------------
(* A copy is fetched *)

\* The handler of GET: the object is not there, and a list is remembered.
GetFetches(n) ==
    /\ n \in up \cap Hosts /\ n \notin object /\ UploadAct
    /\ fetch[n]["get"].pc = "idle" /\ listed[n] # {}
    /\ Fetching(n, "get", "try", listed[n], listed[n])
    /\ UNCHANGED <<up, object, listed, looking, storing, inFlight, told, wiped, forgot,
                  uploads, uploadFails>>

\* One provider after the other, in an order that looks random; a provider
\* without the object gives nothing.
TriesProvider(n, p, q) ==
    /\ n \in up /\ fetch[n][p].pc = "try" /\ q \in fetch[n][p].todo
    /\ \/ /\ q \in up \cap object
          /\ Fetching(n, p, "meta", fetch[n][p].list, {})
          /\ UNCHANGED uploadFails
       \/ /\ IF q \in up \cap object THEN UploadFail ELSE UNCHANGED uploadFails
          /\ Fetching(n, p, "try", fetch[n][p].list, fetch[n][p].todo \ {q})
    /\ UNCHANGED <<up, object, listed, looking, storing, inFlight, told, wiped, forgot,
                  uploads, uploadActs>>

HasNoProvider(n, p) ==
    /\ n \in up /\ fetch[n][p].pc = "try" /\ fetch[n][p].todo = {}
    /\ FetchEnds(n, p)
    /\ UNCHANGED <<up, object, listed, looking, storing, inFlight, told, wiped, forgot,
                  uploads, uploadActs, uploadFails>>

\* storeUploadObject: the metadata first; if that fails the object is deleted,
\* whoever has stored it.
StoresMeta(n, p) ==
    /\ n \in up /\ fetch[n][p].pc = "meta"
    /\ \/ /\ Fetching(n, p, "blob", fetch[n][p].list, {})
          /\ UNCHANGED <<object, wiped, uploadFails>>
       \/ /\ UploadFail /\ FetchEnds(n, p)
          /\ object' = object \ {n}
          /\ wiped' = wiped \cup (object \cap {n})
    /\ UNCHANGED <<up, listed, looking, storing, inFlight, told, forgot, uploads,
                  uploadActs>>

\* Then the object, and the announcement of who was not on the list.
StoresCopy(n, p) ==
    /\ n \in up /\ fetch[n][p].pc = "blob"
    /\ FetchEnds(n, p)
    /\ \/ /\ object' = object \cup {n}
          /\ IF n \in Hosts \ fetch[n][p].list
             THEN inFlight' = Announced(n, fetch[n][p].list) /\ told' = told \cup {n}
             ELSE UNCHANGED <<inFlight, told>>
          /\ UNCHANGED uploadFails
       \/ UploadFail /\ UNCHANGED <<object, inFlight, told>>
    /\ UNCHANGED <<up, listed, looking, storing, wiped, forgot, uploads, uploadActs>>

-----------------------------------------------------------------------------
(* Users, and nodes that close *)

\* A PUT to the server, or storeFile of the node.
UserUploads(n) ==
    /\ n \in up \ storing
    /\ uploads + Cardinality(up) < MaxMembers /\ uploads' = uploads + 1
    /\ object' = object \cup {n}
    /\ storing' = storing \cup {n}
    /\ UNCHANGED <<up, listed, looking, fetch, inFlight, told, wiped, forgot,
                  uploadActs, uploadFails>>

\* The metadata is stored too, or fails to be.  The manifest of the upload, with
\* no providers yet, replaces the one that was remembered.
AnnouncesUpload(n) ==
    /\ n \in up \cap storing /\ storing' = storing \ {n}
    /\ \/ /\ listed' = [listed EXCEPT ![n] = {}]
          /\ forgot' = IF listed[n] = {} THEN forgot ELSE forgot \cup {n}
          /\ inFlight' = Announced(n, {}) /\ told' = told \cup {n}
          /\ UNCHANGED uploadFails
       \/ UploadFail /\ UNCHANGED <<listed, inFlight, told, forgot>>
    /\ UNCHANGED <<up, object, looking, fetch, wiped, uploads, uploadActs>>

ClosesNode(n) ==
    /\ n \in up /\ UploadAct /\ uploads' = uploads + 1
    /\ up' = up \ {n} /\ storing' = storing \ {n}
    /\ inFlight' = [inFlight EXCEPT ![n] = EmptyBag]
    /\ looking' = [looking EXCEPT ![n] = <<>>]
    /\ fetch' = [fetch EXCEPT ![n] = [p \in Purposes |-> NoFetch]]
    /\ UNCHANGED <<object, listed, told, wiped, forgot, uploadFails>>

UploadNext ==
    \E n \in Providers :
        \/ \E list \in Lists : HearsList(n, list)
        \/ FindsOwnCopy(n) \/ GetFetches(n)
        \/ UserUploads(n) \/ AnnouncesUpload(n) \/ ClosesNode(n)
        \/ \E p \in Purposes :
              \/ HasNoProvider(n, p) \/ StoresMeta(n, p) \/ StoresCopy(n, p)
              \/ \E q \in Providers : TriesProvider(n, p, q)

UploadSpec == UploadInit /\ [][UploadNext]_uploadVars

-----------------------------------------------------------------------------
(* Properties *)

\* Who is on a list, remembered or on its way, has the object, but for those
\* whose stored object went with the failing write of another fetch.
ListedIsHeld ==
    \A n \in Providers : \A list \in DOMAIN inFlight[n] \cup {listed[n]} :
        list \subseteq object \cup wiped

\* Whoever is up has on its list, or on one on its way to it, every other node that
\* is up, has the object and ever announced that, but for nodes that wrote an older
\* list over a newer one, or their own upload over what they had heard.
HeldIsListed ==
    \A n \in up \ forgot :
        (up \cap object \cap told) \ {n}
            \subseteq listed[n] \cup UNION (DOMAIN inFlight[n])

\* (tests/uploads.ts closes the node of the upload "to prove the cache can serve the
\* blob alone": a copy must be found elsewhere.)  In whatever order copies are
\* fetched and announced, lists name nodes that have the object, and in the end all
\* of them: from any of these the object can be had when its origin is gone.
ListsMatchCopies == ListedIsHeld /\ HeldIsListed
=============================================================================
