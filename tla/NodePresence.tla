----------------------------- MODULE NodePresence -----------------------------
(***************************************************************************)
(* Three managers of a node by which nodes learn of one another: of users   *)
(* by the roster and the group chats, of copies of a file by the uploads.   *)
(* They share no state, so what holds of each alone holds of all: a         *)
(* behaviour of this module follows the manager that `part` names and       *)
(* leaves the others at rest.                                               *)
(***************************************************************************)
EXTENDS Roster, MucRooms, Uploads

VARIABLE part       \* the manager that this behaviour follows

presenceVars == <<vars, mucVars, uploadVars, part>>

PresenceInit ==
    /\ Init /\ MucInit /\ UploadInit
    /\ part \in {"roster", "rooms", "uploads"}
    /\ part # "uploads" => up = Providers     \* at rest: one state is enough

RosterActs  == part = "roster" /\ Next /\ UNCHANGED <<mucVars, uploadVars, part>>
RoomsAct    == part = "rooms" /\ MucNext /\ UNCHANGED <<vars, uploadVars, part>>
UploadsAct  == part = "uploads" /\ UploadNext /\ UNCHANGED <<vars, mucVars, part>>

PresenceSpec == PresenceInit /\ [][RosterActs \/ RoomsAct \/ UploadsAct]_presenceVars
PresenceFairSpec == PresenceSpec /\ Fairness /\ MucFairness

\* The type invariants of all.
PresenceTypeOK ==
    TypeOK /\ MucTypeOK /\ UploadTypeOK /\ part \in {"roster", "rooms", "uploads"}
=============================================================================
