---------------------------- MODULE UserInterface ----------------------------
(***************************************************************************)
(* Two things that the user interface does on its own beside the pages: it  *)
(* starts and stops the node, and it sends the messages of the outbox.  The *)
(* outbox sees of the node only that the bridge comes and goes, which it    *)
(* may do at any moment, so what holds of each alone holds of both: a       *)
(* behaviour of this module follows the one that `part` names and leaves    *)
(* the other at rest.                                                       *)
(***************************************************************************)
EXTENDS Outbox, NodeStartup

VARIABLE part       \* the one that this behaviour follows

interfaceVars == <<vars, shellVars, part>>

InterfaceInit ==
    /\ Init /\ ShellInit
    /\ part \in {"outbox", "startup"}
    /\ part = "outbox" => ~due      \* at rest: one state is enough

OutboxActs  == part = "outbox" /\ Next /\ UNCHANGED <<shellVars, part>>
StartupActs == part = "startup" /\ ShellNext /\ UNCHANGED <<vars, part>>

InterfaceSpec == InterfaceInit /\ [][OutboxActs \/ StartupActs]_interfaceVars
InterfaceFairSpec == InterfaceSpec /\ Fairness
=============================================================================
