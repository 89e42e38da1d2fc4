---------------------------- MODULE MCNodeRecords ----------------------------
(***************************************************************************)
(* NodeRecords with the group messages of MCMucHistory.                     *)
(***************************************************************************)
EXTENDS NodeRecords, MCMucHistory
=============================================================================
