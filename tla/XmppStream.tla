----------------------------- MODULE XmppStream -----------------------------
(***************************************************************************)
(* One end of an XMPP stream as src/core/xmpp-stream.ts keeps it: the      *)
(* XEP-0198 counters, the queue of stanzas the peer has not acknowledged,  *)
(* and what each call pushes onto the transport.  The operators are pure:  *)
(* each takes an end and returns the changed end or the frames it pushes.  *)
(* StreamManagement and StreamResumption put two ends together.            *)
(*                                                                         *)
(* A stanza is represented by its number; names, attributes and payloads   *)
(* are left out.  Every <enable> the source sends asks for resumption, so  *)
(* smResumable always equals smEnabled and is not kept apart.              *)
(***************************************************************************)
EXTENDS Integers, Sequences

CONSTANT AckInterval      \* an <r/> goes out at every multiple of this count

ASSUME AckIntervalAssumption == AckInterval \in Nat \ {0}

Kinds == {"stanza", "enable", "enabled", "r", "a", "resume", "resumed"}

\* What travels: n is the stanza's number, or the count h the frame reports.
Frame == [kind : Kinds, n : Nat]

F(kind, n) == [kind |-> kind, n |-> n]
R == F("r", 0)

End == [open : BOOLEAN, smEnabled : BOOLEAN, inCount : Nat, outCount : Nat,
        unacked : Seq(Nat)]

\* A stream as its constructor leaves it.
NewStream == [open |-> TRUE, smEnabled |-> FALSE, inCount |-> 0,
              outCount |-> 0, unacked |-> <<>>]

-----------------------------------------------------------------------------
(* Sending *)

\* send() counts a stanza and keeps it until it is acknowledged, whether or
\* not stream management has been enabled.
Counted(e, id) == [e EXCEPT !.outCount = @ + 1, !.unacked = Append(@, id)]

\* Slips: the request takes the place of the frame, or follows every frame.
RequestReplaces(e, f) ==
    IF e.smEnabled /\ e.outCount % AckInterval = 0 THEN <<R>> ELSE <<f>>

RequestAlways(e, f) == IF e.smEnabled THEN <<f, R>> ELSE <<f>>

\* Every send(), of a stanza or not, ends by asking for an acknowledgement
\* when the outbound count is at a multiple of the interval (0 included).
WithRequest(e, f) ==
    IF e.smEnabled /\ e.outCount % AckInterval = 0 THEN <<f, R>> ELSE <<f>>

-----------------------------------------------------------------------------
(* Receiving *)

\* The parser's handler counts an inbound stanza before it is handed on.
Received(e) == [e EXCEPT !.inCount = @ + 1]

\* The frames pushed on the receipt of a stanza: at a multiple of the interval
\* the receiver itself asks for an acknowledgement (of its own stanzas).
OnStanza(e) ==
    IF e.smEnabled /\ e.inCount % AckInterval = 0
    THEN WithRequest(e, R) ELSE <<>>

\* Slip: an acknowledgement drops one stanza more than it covers.
AckedDropsOneMore(e, h) ==
    LET keep == e.outCount - h
        len  == Len(e.unacked)
    IN  IF keep >= 0 /\ keep < len
        THEN [e EXCEPT !.unacked = SubSeq(@, len - keep + 2, len)]
        ELSE e

\* <a h=.../>: the queue keeps its last outCount - h entries; a count that is
\* ahead of what was sent, or that acknowledges nothing, changes nothing.
Acked(e, h) ==
    LET keep == e.outCount - h
        len  == Len(e.unacked)
    IN  IF keep >= 0 /\ keep < len
        THEN [e EXCEPT !.unacked = SubSeq(@, len - keep + 1, len)]
        ELSE e

Clamp(x, hi) == IF x < 0 THEN 0 ELSE IF x > hi THEN hi ELSE x

\* Slip: the first stanza the peer lacks is left out.
ResendsFromNext(e, h) ==
    LET len   == Len(e.unacked)
        start == Clamp(h - (e.outCount - len), len)
    IN  IF len = 0 \/ h >= e.outCount \/ start >= len
        THEN <<>> ELSE SubSeq(e.unacked, start + 2, len)

\* computeStanzasToResend: the part of the queue the peer's count h leaves out.
ToResend(e, h) ==
    LET len   == Len(e.unacked)
        start == Clamp(h - (e.outCount - len), len)
    IN  IF len = 0 \/ h >= e.outCount \/ start >= len
        THEN <<>> ELSE SubSeq(e.unacked, start + 1, len)

\* Resent stanzas bypass send(): they are neither counted nor queued again.
Raw(ids) == [i \in 1..Len(ids) |-> F("stanza", ids[i])]

\* What handleSmElement makes of the end, for a frame f that is not a stanza.
AfterSm(e, f) ==
    CASE f.kind \in {"enable", "enabled"} -> [e EXCEPT !.smEnabled = TRUE]
      [] f.kind = "a"                     -> Acked(e, f.n)
      [] OTHER                            -> e

\* What handleSmElement pushes, e being the end as the frame left it.
SmReply(e, f) ==
    CASE f.kind = "enable"  -> WithRequest(e, F("enabled", 0))
      [] f.kind = "r"       -> WithRequest(e, F("a", e.inCount))
      [] f.kind = "resume"  -> WithRequest(e, F("resumed", e.inCount))
                                   \o Raw(ToResend(e, f.n))
      [] f.kind = "resumed" -> Raw(ToResend(e, f.n))
      [] OTHER              -> <<>>
=============================================================================
