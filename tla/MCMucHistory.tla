----------------------------- MODULE MCMucHistory -----------------------------
(***************************************************************************)
(* The messages of MucHistory and what they correct.                        *)
(***************************************************************************)
EXTENDS MucHistory

\* "m" is corrected twice, by "c" and by "d"; "c" is itself corrected by "e";
\* "x" belongs to another room.
CorrectionOf(m) ==
    CASE m \in {"c", "d"} -> "m"
      [] m = "e"          -> "c"
      [] OTHER            -> "none"
=============================================================================
