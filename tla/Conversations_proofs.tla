------------------------- MODULE Conversations_proofs -------------------------
(***************************************************************************)
(* Proofs about what is kept of conversations: the archive of group         *)
(* messages (MucHistory), the page of a conversation and its local history  *)
(* (ChatPage), and the archive of direct messages (ChatHistory).            *)
(***************************************************************************)
EXTENDS ChatHistory, MucHistory, ChatPage, WellFoundedInduction, TLAPS

-----------------------------------------------------------------------------
(* The archive of group messages *)

Unique(s) == \A i, j \in 1..Len(s) : s[i] = s[j] => i = j

\* No message stands beside its correction.
Uncorrected(s) == \A x \in Entries(s) : ~Corrects(Entries(s), x)

\* The archive keeps one version of each message within the limit; while nothing was
\* evicted and no correction corrected, it is a function of what arrived, and the page
\* holds no more than the archive and what is outdated.
HistIInv ==
    /\ HistTypeOK
    /\ \A m \in late : Corrects(got, m)
    /\ ArchiveHoldsOneVersion /\ PageShowsArchive

\* Taking a message out of a sequence without duplicates.
LEMMA TakenOut ==
    ASSUME NEW s \in Seq(Msgs), Unique(s), NEW m
    PROVE  /\ Without(s, m) \in Seq(Msgs) /\ Unique(Without(s, m))
           /\ Entries(Without(s, m)) = Entries(s) \ {m}
           /\ Len(Without(s, m)) \in {Len(s), Len(s) - 1}
<1>1. CASE ~\E i \in 1..Len(s) : s[i] = m
  BY <1>1 DEF Without, Entries
<1>2. CASE \E i \in 1..Len(s) : s[i] = m
  <2> DEFINE k == CHOOSE i \in 1..Len(s) : s[i] = m
             w == SubSeq(s, 1, k - 1) \o SubSeq(s, k + 1, Len(s))
  <2>1. k \in 1..Len(s) /\ s[k] = m
    BY <1>2
  <2>2. Without(s, m) = w
    BY <1>2 DEF Without
  <2> HIDE DEF k
  <2>3. /\ w \in Seq(Msgs) /\ Len(w) = Len(s) - 1
        /\ \A i \in 1..Len(w) : w[i] = IF i < k THEN s[i] ELSE s[i + 1]
    <3> DEFINE a == SubSeq(s, 1, k - 1)
               b == SubSeq(s, k + 1, Len(s))
    <3>1. a \in Seq(Msgs) /\ Len(a) = k - 1 /\ \A i \in 1..Len(a) : a[i] = s[i]
      BY <2>1
    <3>2. b \in Seq(Msgs) /\ Len(b) = Len(s) - k /\ \A i \in 1..Len(b) : b[i] = s[i + k]
      BY <2>1
    <3> HIDE DEF a, b
    <3>3. /\ a \o b \in Seq(Msgs) /\ Len(a \o b) = Len(a) + Len(b)
          /\ \A i \in 1..Len(a \o b) :
                (a \o b)[i] = IF i <= Len(a) THEN a[i] ELSE b[i - Len(a)]
      <4>1. a \in Seq(Msgs) /\ b \in Seq(Msgs)
        BY <3>1, <3>2
      <4>2. a \o b \in Seq(Msgs) /\ Len(a \o b) = Len(a) + Len(b)
        BY <4>1
      <4>3. \A i \in 1..Len(a \o b) : (a \o b)[i] = IF i <= Len(a) THEN a[i] ELSE b[i - Len(a)]
        BY <4>1, <4>2
      <4> QED BY <4>2, <4>3
    <3>4. w = a \o b
      BY DEF a, b
    <3> HIDE DEF w
    <3>5. w \in Seq(Msgs) /\ Len(w) = Len(s) - 1
      <4>1. Len(w) = (k - 1) + (Len(s) - k)
        BY <3>1, <3>2, <3>3, <3>4
      <4>2. Len(s) \in Nat /\ k \in Nat
        BY <2>1
      <4> QED BY <3>3, <3>4, <4>1, <4>2
    <3>6. ASSUME NEW i \in 1..Len(w) PROVE w[i] = IF i < k THEN s[i] ELSE s[i + 1]
      <4>1. CASE i < k
        BY <2>1, <3>1, <3>3, <3>4, <3>5, <4>1
      <4>2. CASE ~(i < k)
        <5>1. i - (k - 1) \in 1..Len(b) /\ i - (k - 1) + k = i + 1 /\ ~(i <= Len(a))
          BY <2>1, <3>1, <3>2, <3>5, <4>2
        <5> QED BY <2>1, <3>1, <3>2, <3>3, <3>4, <4>2, <5>1
      <4> QED BY <4>1, <4>2
    <3> QED BY <3>5, <3>6
  <2> HIDE DEF w
  <2>4. Unique(w)
    BY <2>1, <2>3 DEF Unique
  <2>5. ASSUME NEW i \in 1..Len(s), i # k PROVE \E j \in 1..Len(w) : w[j] = s[i]
    <3>1. CASE i < k
      BY <2>1, <2>3, <2>5, <3>1
    <3>2. CASE i > k
      <4>1. i - 1 \in 1..Len(w) /\ ~(i - 1 < k) /\ w[i - 1] = s[i]
        BY <2>1, <2>3, <2>5, <3>2
      <4> QED BY <4>1
    <3> QED BY <2>1, <2>5, <3>1, <3>2
  <2>6. ASSUME NEW j \in 1..Len(w) PROVE \E i \in 1..Len(s) : i # k /\ s[i] = w[j]
    BY <2>1, <2>3
  <2>7. \A i \in 1..Len(s) : s[i] = m <=> i = k
    BY <2>1 DEF Unique
  <2>8. Entries(w) = Entries(s) \ {m}
    <3>1. ASSUME NEW x \in Entries(w) PROVE x \in Entries(s) /\ x # m
      <4>1. PICK j \in 1..Len(w) : w[j] = x
        BY <3>1 DEF Entries
      <4>2. PICK i \in 1..Len(s) : i # k /\ s[i] = w[j]
        BY <2>6
      <4> QED BY <2>7, <4>1, <4>2 DEF Entries
    <3>2. ASSUME NEW x \in Entries(s), x # m PROVE x \in Entries(w)
      <4>1. PICK i \in 1..Len(s) : s[i] = x
        BY <3>2 DEF Entries
      <4>2. i # k
        BY <2>7, <3>2, <4>1
      <4>3. PICK j \in 1..Len(w) : w[j] = s[i]
        BY <2>5, <4>2
      <4> QED BY <4>1, <4>3 DEF Entries
    <3> QED BY <3>1, <3>2
  <2> QED BY <2>2, <2>3, <2>4, <2>8
<1> QED BY <1>1, <1>2

\* A new message at the end of a sequence without duplicates.
LEMMA Appended ==
    ASSUME NEW s \in Seq(Msgs), Unique(s), NEW m \in Msgs, m \notin Entries(s)
    PROVE  /\ Append(s, m) \in Seq(Msgs) /\ Unique(Append(s, m))
           /\ Entries(Append(s, m)) = Entries(s) \cup {m}
<1>1. \A i \in 1..Len(s) : s[i] # m
  BY DEF Entries
<1>2. /\ Append(s, m) \in Seq(Msgs) /\ Len(Append(s, m)) = Len(s) + 1
      /\ \A i \in 1..Len(s) : Append(s, m)[i] = s[i]
      /\ Append(s, m)[Len(s) + 1] = m
  OBVIOUS
<1> DEFINE a == Append(s, m)
<1>3. a \in Seq(Msgs) /\ Len(a) = Len(s) + 1 /\ (\A i \in 1..Len(s) : a[i] = s[i])
      /\ a[Len(s) + 1] = m
  BY <1>2
<1> HIDE DEF a
<1>4. Unique(a)
  BY <1>1, <1>3 DEF Unique
<1>5. Len(s) + 1 \in 1..Len(a) /\ \A i \in 1..Len(a) : i \in 1..Len(s) \/ i = Len(s) + 1
  BY <1>3
<1>6. Entries(a) = Entries(s) \cup {m}
  BY <1>3, <1>5 DEF Entries
<1> QED BY <1>3, <1>4, <1>6 DEF a

\* What the limit leaves of one.
LEMMA TrimmedWell ==
    ASSUME NEW s \in Seq(Msgs), Unique(s)
    PROVE  /\ Trimmed(s) \in Seq(Msgs) /\ Unique(Trimmed(s))
           /\ Entries(Trimmed(s)) \subseteq Entries(s)
           /\ Len(Trimmed(s)) = IF Len(s) > HistoryLimit THEN Len(s) - 1 ELSE Len(s)
<1>1. HistoryLimit \in Nat \ {0}
  BY MucHistoryAssumption
<1>2. CASE Len(s) > HistoryLimit
  <2> DEFINE t == Tail(s)
  <2>1. t \in Seq(Msgs) /\ Len(t) = Len(s) - 1 /\ \A i \in 1..Len(t) : t[i] = s[i + 1]
    BY <1>1, <1>2
  <2> HIDE DEF t
  <2>2. Unique(t)
    BY <2>1 DEF Unique
  <2>3. Entries(t) \subseteq Entries(s)
    <3>1. \A i \in 1..Len(t) : i + 1 \in 1..Len(s)
      BY <2>1
    <3> QED BY <2>1, <3>1 DEF Entries
  <2> QED BY <1>2, <2>1, <2>2, <2>3 DEF Trimmed, t
<1> QED BY <1>2 DEF Trimmed

\* A message that is archived is not there yet: an archived one is known.
LEMMA RecordedWell ==
    ASSUME NEW s \in Seq(Msgs), Unique(s), NEW m \in Msgs
    PROVE  /\ Recorded(s, m) \in Seq(Msgs) /\ Unique(Recorded(s, m))
           /\ Known(s, m) => Recorded(s, m) = s
           /\ ~Known(s, m) => Entries(Recorded(s, m)) \subseteq (Entries(s) \ {Fix(m)}) \cup {m}
           /\ ~Known(s, m) => \E n \in {Len(s), Len(s) + 1} :
                 /\ Len(Entered(s, m)) = n
                 /\ Len(Recorded(s, m)) = IF n > HistoryLimit THEN n - 1 ELSE n
           /\ (~Known(s, m) /\ Len(Entered(s, m)) <= HistoryLimit)
                => Entries(Recorded(s, m)) = (Entries(s) \ {Fix(m)}) \cup {m}
           /\ Len(Entered(s, m)) \in Nat /\ HistoryLimit \in Nat
<1> DEFINE w == Without(s, Fix(m))
<1>1. /\ w \in Seq(Msgs) /\ Unique(w) /\ Entries(w) = Entries(s) \ {Fix(m)}
      /\ Len(w) \in {Len(s), Len(s) - 1}
  BY TakenOut
<1> HIDE DEF w
<1>2. CASE ~Known(s, m)
  <2>1. m \notin Entries(w)
    BY <1>1, <1>2 DEF Known
  <2>2. /\ Append(w, m) \in Seq(Msgs) /\ Unique(Append(w, m))
        /\ Entries(Append(w, m)) = Entries(w) \cup {m}
    BY <1>1, <2>1, Appended
  <2>3. Entered(s, m) = Append(w, m)
    BY DEF Entered, w
  <2> DEFINE e == Entered(s, m)
  <2>4. e \in Seq(Msgs) /\ Unique(e) /\ Entries(e) = (Entries(s) \ {Fix(m)}) \cup {m}
    BY <1>1, <2>2, <2>3
  <2>5. Recorded(s, m) = Trimmed(e)
    BY <1>2 DEF Recorded
  <2>6. Len(Entered(s, m)) = Len(e)
    OBVIOUS
  <2> HIDE DEF e
  <2>7. /\ Trimmed(e) \in Seq(Msgs) /\ Unique(Trimmed(e))
        /\ Entries(Trimmed(e)) \subseteq Entries(e)
        /\ Len(Trimmed(e)) = IF Len(e) > HistoryLimit THEN Len(e) - 1 ELSE Len(e)
    BY <2>4, TrimmedWell
  <2>8. HistoryLimit \in Nat /\ Len(e) \in Nat
    BY <2>4, MucHistoryAssumption
  <2>9. Len(e) <= HistoryLimit => Trimmed(e) = e
    BY <2>8 DEF Trimmed
  <2>10. Len(e) \in {Len(s), Len(s) + 1}
    <3>1. Len(Append(w, m)) = Len(w) + 1 /\ Len(s) \in Nat /\ Len(w) \in Nat
      BY <1>1
    <3> QED BY <1>1, <2>3, <3>1 DEF e
  <2>11. \E n \in {Len(s), Len(s) + 1} :
            /\ Len(Entered(s, m)) = n
            /\ Len(Recorded(s, m)) = IF n > HistoryLimit THEN n - 1 ELSE n
    BY <2>5, <2>6, <2>7, <2>10
  <2> QED BY <1>2, <2>4, <2>5, <2>6, <2>7, <2>8, <2>9, <2>11
<1>3. CASE Known(s, m)
  <2>1. Recorded(s, m) = s
    BY <1>3 DEF Recorded
  <2>2. Append(w, m) \in Seq(Msgs)
    BY <1>1
  <2>3. Len(Entered(s, m)) \in Nat
    BY <2>2 DEF Entered, w
  <2>4. HistoryLimit \in Nat
    BY MucHistoryAssumption
  <2> QED BY <1>3, <2>1, <2>3, <2>4
<1> QED BY <1>2, <1>3

\* A message arrives, new, known or correcting another.
LEMMA ArrivalKeeps ==
    ASSUME HistIInv, NEW m \in Msgs, Arrives(m)
    PROVE  HistIInv'
<1>1. /\ archive \in Seq(Msgs) /\ shown \subseteq Msgs /\ got \subseteq Msgs
      /\ late \subseteq Msgs /\ evicted \in BOOLEAN /\ Unique(archive)
      /\ \A x \in late : Corrects(got, x)
  BY DEF HistIInv, HistTypeOK, ArchiveHoldsOneVersion, Unique
<1>2. /\ archive' = Recorded(archive, m) /\ shown' = Listed(shown, m)
      /\ got' = got \cup {m}
      /\ late' = IF Corrects(got, m) THEN late \cup {m} ELSE late
      /\ evicted' = (evicted \/ (~Known(archive, m) /\ Len(Entered(archive, m)) > HistoryLimit))
  BY DEF Arrives
<1>3. /\ archive' \in Seq(Msgs) /\ Unique(archive')
      /\ Known(archive, m) => archive' = archive
      /\ (~Known(archive, m) /\ Len(Entered(archive, m)) <= HistoryLimit)
           => Entries(archive') = (Entries(archive) \ {Fix(m)}) \cup {m}
      /\ Len(Entered(archive, m)) \in Nat /\ HistoryLimit \in Nat
  BY <1>1, <1>2, RecordedWell
<1>8. /\ ~Known(archive, m) =>
           Entries(archive') \subseteq (Entries(archive) \ {Fix(m)}) \cup {m}
      /\ ~Known(archive, m) => \E n \in {Len(archive), Len(archive) + 1} :
           /\ Len(Entered(archive, m)) = n
           /\ Len(archive') = IF n > HistoryLimit THEN n - 1 ELSE n
  BY <1>1, <1>2, RecordedWell
<1>9. /\ Uncorrected(archive) /\ Len(archive) <= HistoryLimit
      /\ evicted => Len(archive) = HistoryLimit
  BY DEF HistIInv, ArchiveHoldsOneVersion, Uncorrected
<1>4. HistTypeOK'
  BY <1>1, <1>2, <1>3 DEF HistTypeOK, Listed
<1>5. \A x \in late' : Corrects(got', x)
  BY <1>1, <1>2 DEF Corrects
<1>6. NoMsg \notin Msgs /\ Fix(m) # m
  BY MucHistoryAssumption
<1>10. Uncorrected(archive')
  <2>1. CASE Known(archive, m)
    BY <1>3, <1>9, <2>1
  <2>2. CASE ~Known(archive, m)
    BY <1>6, <1>8, <1>9, <2>2 DEF Known, Uncorrected, Corrects
  <2> QED BY <2>1, <2>2
<1>11. Len(archive') <= HistoryLimit /\ (evicted' => Len(archive') = HistoryLimit)
  <2>1. CASE Known(archive, m)
    BY <1>2, <1>3, <1>9, <2>1
  <2>2. CASE ~Known(archive, m)
    <3>1. Len(archive) \in Nat
      BY <1>1
    <3>2. PICK n \in {Len(archive), Len(archive) + 1} :
             /\ Len(Entered(archive, m)) = n
             /\ Len(archive') = IF n > HistoryLimit THEN n - 1 ELSE n
      BY <1>8, <2>2
    <3>3. evicted' => evicted \/ n > HistoryLimit
      BY <1>2, <3>2
    <3> QED BY <1>3, <1>9, <3>1, <3>2, <3>3
  <2> QED BY <2>1, <2>2
<1>7. ASSUME ~evicted', ~Chained'
      PROVE  /\ Entries(archive') = Current'
             /\ Entries(archive') \subseteq shown' /\ shown' \subseteq Entries(archive') \cup late'
  <2>1. ~evicted /\ (Known(archive, m) \/ Len(Entered(archive, m)) <= HistoryLimit)
    <3>1. ~evicted /\ (Known(archive, m) \/ ~(Len(Entered(archive, m)) > HistoryLimit))
      BY <1>2, <1>7
    <3> DEFINE n == Len(Entered(archive, m))
    <3>2. n \in Nat /\ HistoryLimit \in Nat
      BY <1>3
    <3> HIDE DEF n
    <3>3. ~(n > HistoryLimit) => n <= HistoryLimit
      BY <3>2
    <3> QED BY <3>1, <3>3 DEF n
  <2>2. ~Chained
    BY <1>2, <1>7 DEF Chained, Corrects
  <2>3. /\ Entries(archive) = Current
        /\ Entries(archive) \subseteq shown /\ shown \subseteq Entries(archive) \cup late
    BY <2>1, <2>2 DEF HistIInv, ArchiveHoldsOneVersion, PageShowsArchive
  \* No correction in got, or m, is corrected.
  <2>4. \A f, g \in got' : Fix(f) # NoMsg => Fix(g) # f
    BY <1>7 DEF Chained, Corrects
  <2>5. m \in got' /\ got \subseteq got' /\ Current \subseteq got
    BY <1>2 DEF Current
  <2>6. CASE m \in Entries(archive)
    <3>1. got' = got /\ archive' = archive /\ shown' = shown
      BY <1>2, <1>3, <2>3, <2>5, <2>6 DEF Known, Listed
    <3> QED BY <1>2, <2>3, <3>1 DEF Current
  <2>7. CASE m \notin Entries(archive) /\ Corrects(Entries(archive), m)
    <3>1. PICK f \in Entries(archive) : Fix(f) = m
      BY <2>7 DEF Corrects
    <3>2. f \in got /\ Corrects(got, m)
      BY <2>3, <2>5, <3>1 DEF Corrects
    <3>3. Fix(m) = NoMsg
      BY <2>4, <2>5, <3>1, <3>2
    <3>4. archive' = archive /\ late' = late \cup {m}
      BY <1>2, <1>3, <2>7, <3>2 DEF Known
    <3>5. shown' = shown \cup {m}
      BY <1>1, <1>2, <1>6, <3>3 DEF Listed
    <3>6. \A x \in Msgs : Corrects(got', x) <=> Corrects(got, x)
      BY <1>2, <1>6, <3>3 DEF Corrects
    <3>7. Corrects(got', m)
      BY <1>2, <3>2 DEF Corrects
    <3>8. Current' = Current
      BY <1>1, <1>2, <3>2, <3>6, <3>7 DEF Current
    <3> QED BY <2>3, <3>4, <3>5, <3>8
  <2>8. CASE m \notin Entries(archive) /\ ~Corrects(Entries(archive), m)
    <3>1. Entries(archive') = (Entries(archive) \ {Fix(m)}) \cup {m}
      BY <1>3, <2>1, <2>8 DEF Known
    <3>2. ~Corrects(got, m)
      <4>1. SUFFICES ASSUME NEW g \in got, Fix(g) = m PROVE FALSE
        BY DEF Corrects
      <4>2. g \notin Current
        BY <2>3, <2>8, <4>1 DEF Corrects
      <4>3. PICK h \in got : Fix(h) = g
        BY <4>2 DEF Current, Corrects
      <4> QED BY <1>6, <2>4, <2>5, <4>1, <4>3
    <3>3. ~Corrects(got', m)
      BY <1>2, <1>6, <3>2 DEF Corrects
    <3>4. \A x : Corrects(got', x) <=> Corrects(got, x) \/ x = Fix(m)
      BY <1>2 DEF Corrects
    <3>5. Current' = (Current \ {Fix(m)}) \cup {m}
      BY <1>2, <3>3, <3>4 DEF Current
    <3>6. m \notin shown /\ late' = late
      BY <1>1, <1>2, <2>3, <2>8, <3>2
    <3>7. shown' = (shown \ {Fix(m)}) \cup {m}
      BY <1>2, <3>6 DEF Listed
    <3> QED BY <2>3, <3>1, <3>5, <3>6, <3>7
  <2> QED BY <2>6, <2>7, <2>8
<1>12. ArchiveHoldsOneVersion' /\ PageShowsArchive'
  BY <1>3, <1>7, <1>10, <1>11
  DEF ArchiveHoldsOneVersion, PageShowsArchive, Unique, Uncorrected
<1> QED BY <1>4, <1>5, <1>12 DEF HistIInv

(* In every behaviour the archive of a room and its page satisfy the invariant: however often
   and in whatever order the messages of `recordMucMessage` arrive. *)
THEOREM HistInvariant == HistSpec => []HistIInv
<1>1. HistInit => HistIInv
  <2> SUFFICES ASSUME HistInit PROVE HistIInv
    OBVIOUS
  <2>1. /\ archive = <<>> /\ shown = {} /\ got = {} /\ late = {} /\ evicted = FALSE
    BY DEF HistInit
  <2>2. archive \in Seq(Msgs) /\ Len(archive) = 0
    BY <2>1
  <2>3. HistTypeOK /\ Entries(archive) = {}
    <3>1. Entries(archive) = {}
      BY <2>2 DEF Entries
    <3> QED BY <2>1, <2>2, <3>1 DEF HistTypeOK
  <2>4. Current = {} /\ ~Chained
    BY <2>1 DEF Current, Chained
  <2>5. Len(archive) <= HistoryLimit /\ \A i, j \in 1..Len(archive) : archive[i] = archive[j] => i = j
    BY <2>2, MucHistoryAssumption
  <2>6. ArchiveHoldsOneVersion
    BY <2>1, <2>3, <2>4, <2>5 DEF ArchiveHoldsOneVersion
  <2> QED BY <2>1, <2>3, <2>4, <2>6 DEF HistIInv, PageShowsArchive
<1>2. HistIInv /\ [HistNext]_histVars => HistIInv'
  <2>1. ASSUME HistIInv, HistNext PROVE HistIInv'
    BY <2>1, ArrivalKeeps DEF HistNext, SendsMessage, HearsMessage
  <2>2. ASSUME HistIInv, UNCHANGED histVars PROVE HistIInv'
    BY <2>2 DEF histVars, HistIInv, HistTypeOK, ArchiveHoldsOneVersion, PageShowsArchive,
                Current, Chained
  <2> QED BY <2>1, <2>2
<1> QED BY <1>1, <1>2, PTL DEF HistSpec

\* The archive and the page have their types.
THEOREM HistTypeCorrect == HistSpec => []HistTypeOK
<1>1. HistIInv => HistTypeOK
  BY DEF HistIInv
<1> QED BY <1>1, HistInvariant, PTL

\* recordMucMessage keeps one version of each message and never more than the limit,
\* in whatever order and however often messages come; and as long as nothing was
\* evicted and no correction corrected, what it keeps does not depend on the order.
THEOREM OrderDoesNotMatter == HistSpec => []ArchiveHoldsOneVersion
<1>1. HistIInv => ArchiveHoldsOneVersion
  BY DEF HistIInv
<1> QED BY <1>1, HistInvariant, PTL

\* And the page of the controller shows that archive, and beyond it what is outdated.
THEOREM PageFollowsArchive == HistSpec => []PageShowsArchive
<1>1. HistIInv => PageShowsArchive
  BY DEF HistIInv
<1> QED BY <1>1, HistInvariant, PTL

-----------------------------------------------------------------------------
(* The page of a conversation *)

TextLists == [Texts -> Entry]

PageCalls == [kind : {"send"}, here : BOOLEAN, text : Mine \X {0}, list : TextLists]
         \cup [kind : {"edit"}, here : BOOLEAN, text : Mine \X {0}]
         \cup [kind : {"retry"}, here : BOOLEAN, text : Own]

PageShape ==
    /\ view \in TextLists /\ saved \in TextLists /\ outdated \in BOOLEAN
    /\ attempt \in [Attempts -> {NoAttempt} \cup PageCalls]
    /\ flushed \subseteq outboxed /\ outboxed \subseteq Own
    /\ atHand \subseteq written /\ written \subseteq Own /\ taken \subseteq Own
    /\ refusals \in 0..PageMaxRefusals

\* Nothing of the user's in a list looks delivered that was not taken (T), and the list
\* lacks none of the messages W.
Honest(list, T)  == \A x \in Own : list[x] = "delivered" => x \in T
InSight(list, W) == \A x \in W : On(list, x)

\* The list that a send has captured will be the page's once more, if the page is still
\* the send's: it is then the only one, and its list is as good as the page.
IsSendHere(c) == c.kind = "send" /\ c.here
SendsAreSafe ==
    /\ \A t, u \in Attempts : IsSendHere(attempt[t]) /\ IsSendHere(attempt[u]) => t = u
    /\ \A t \in Attempts : IsSendHere(attempt[t]) =>
          /\ Honest(attempt[t].list, taken) /\ InSight(attempt[t].list, atHand \ taken)

HistoryIsSafe ==
    /\ Honest(saved, taken)
    /\ refusals = 0 => InSight(saved, written \ taken)

InStep == (refusals = 0 /\ ~outdated) => \A x \in Texts : On(saved, x) => view[x] = saved[x]

PageIInv ==
    /\ PageShape /\ SendsAreSafe /\ HistoryIsSafe /\ InStep
    /\ Honest(view, taken) /\ InSight(view, atHand \ taken)

\* The names of what the user writes, and that the contact's are others.
LEMMA TextNames ==
    /\ Own = (Mine \X {0}) \cup (Mine \X {1}) /\ Own \subseteq Texts
    /\ \A x \in Texts : /\ <<x[1], 0>> \in Texts /\ x[2] \in {0, 1}
                        /\ x[2] = 0 => x = <<x[1], 0>>
    /\ \A x \in Mine \X {0} : <<x[1], 1>> \in Own
<1>1. /\ Own = (Mine \X {0}) \cup (Mine \X {1}) /\ Own \subseteq Texts
      /\ \A x \in Mine \X {0} : <<x[1], 1>> \in Own
  BY DEF Own, Texts
<1>2. ASSUME NEW x \in Texts
      PROVE  <<x[1], 0>> \in Texts /\ x[2] \in {0, 1} /\ (x[2] = 0 => x = <<x[1], 0>>)
  <2>1. CASE x \in Own
    BY <2>1 DEF Own, Texts
  <2>2. CASE x \in Theirs \X {0}
    BY <2>2 DEF Texts
  <2>3. CASE x \in Corrected \X {1}
    <3>1. x[1] \in Theirs /\ x[2] = 1
      BY <2>3, PageAssumption
    <3> QED BY <3>1 DEF Texts
  <2> QED BY <2>1, <2>2, <2>3 DEF Texts
<1> QED BY <1>1, <1>2

\* A list stays honest and lacks nothing when only what was taken looks delivered and
\* only what is not asked for goes.
LEMMA SafePut ==
    ASSUME NEW L \in TextLists, NEW T, NEW T2, Honest(L, T), T \subseteq T2,
           NEW x \in Texts, NEW e \in Entry, e = "delivered" => x \in T2 \/ x \notin Own,
           NEW W, NEW W2, W2 \subseteq Own, W2 \subseteq W \cup {x},
           e # "absent" \/ x \notin W2
    PROVE  /\ Honest([L EXCEPT ![x] = e], T2)
           /\ InSight(L, W) => InSight([L EXCEPT ![x] = e], W2)
<1>1. \A y \in Texts : [L EXCEPT ![x] = e][y] = IF y = x THEN e ELSE L[y]
  BY DEF TextLists
<1>2. Honest([L EXCEPT ![x] = e], T2)
  BY <1>1, TextNames DEF Honest
<1>3. InSight(L, W) => InSight([L EXCEPT ![x] = e], W2)
  BY <1>1, TextNames DEF InSight, On
<1> QED BY <1>2, <1>3

\* The history after a save: it is a list, honest if what is put there as delivered was
\* taken, and it lacks nothing that it had.
LEMMA SavedIsSafe ==
    ASSUME saved \in TextLists, NEW T, NEW T2, Honest(saved, T), T \subseteq T2,
           NEW x \in Texts, NEW e \in {"failed", "delivered"},
           e = "delivered" => x \in T2 \/ x \notin Own,
           NEW W, NEW W2, W2 \subseteq Own, W2 \subseteq W \cup {x}
    PROVE  /\ Saved(x, e) \in TextLists /\ Honest(Saved(x, e), T2)
           /\ InSight(saved, W) => InSight(Saved(x, e), W2)
<1> DEFINE d == IF saved[x] = "delivered" THEN "delivered" ELSE e
<1>1. Saved(x, e) = [saved EXCEPT ![x] = d]
  BY DEF Saved, TextLists
<1>2. d \in Entry /\ d # "absent"
  BY DEF Entry
<1>3. d = "delivered" => x \in T2 \/ x \notin Own
  BY DEF Honest
<1> HIDE DEF d
<1>4. [saved EXCEPT ![x] = d] \in TextLists
  BY <1>2 DEF TextLists
<1>5. /\ Honest([saved EXCEPT ![x] = d], T2)
      /\ InSight(saved, W) => InSight([saved EXCEPT ![x] = d], W2)
  BY <1>2, <1>3, SafePut
<1> QED BY <1>1, <1>4, <1>5

\* The same of a replacement, if what another message replaces is not asked for.
LEMMA ReplacedIsSafe ==
    ASSUME saved \in TextLists, NEW T, NEW T2, Honest(saved, T), T \subseteq T2,
           NEW old \in Texts, NEW x \in Texts, NEW e \in {"failed", "delivered"},
           e = "delivered" => x \in T2 \/ x \notin Own,
           NEW W, NEW W2, W2 \subseteq Own, W2 \subseteq W \cup {x},
           old = x \/ old \notin W2
    PROVE  /\ Replaced(old, x, e) \in TextLists /\ Honest(Replaced(old, x, e), T2)
           /\ InSight(saved, W) => InSight(Replaced(old, x, e), W2)
<1> DEFINE M == [saved EXCEPT ![old] = "absent"]
           V == W2 \ {x, old}
<1>1. Replaced(old, x, e) = [M EXCEPT ![x] = e]
  BY DEF Replaced
<1>2. "absent" \in Entry /\ e \in Entry /\ "absent" # "delivered" /\ e # "absent"
  BY DEF Entry
<1>3. M \in TextLists
  BY <1>2 DEF TextLists
<1>4. /\ V \subseteq Own /\ V \subseteq W \cup {old} /\ old \notin V
      /\ W2 \subseteq V \cup {x}
  OBVIOUS
<1> HIDE DEF V
<1>5. Honest(M, T2) /\ (InSight(saved, W) => InSight(M, V))
  BY <1>2, <1>4, SafePut
<1> HIDE DEF M
<1>6. [M EXCEPT ![x] = e] \in TextLists
  BY <1>2, <1>3 DEF TextLists
<1>7. /\ Honest([M EXCEPT ![x] = e], T2)
      /\ InSight(M, V) => InSight([M EXCEPT ![x] = e], W2)
  BY <1>2, <1>3, <1>4, <1>5, SafePut
<1> QED BY <1>1, <1>5, <1>6, <1>7

\* A save leaves the history safe, whether the storage takes it or not, and the page is
\* told, or one save has failed.
LEMMA StoreKeeps ==
    ASSUME PageShape, HistoryIsSafe, NEW s \in TextLists, NEW tells \in BOOLEAN,
           Store(s, tells), taken \subseteq taken', Honest(s, taken'),
           InSight(saved, written \ taken) => InSight(s, written' \ taken')
    PROVE  /\ saved' \in TextLists /\ outdated' \in BOOLEAN
           /\ refusals' \in 0..PageMaxRefusals /\ HistoryIsSafe'
           /\ (refusals' = 0 /\ ~outdated') =>
                 /\ ~tells /\ refusals = 0 /\ ~outdated /\ saved' = saved /\ s = saved
<1>1. /\ saved \in TextLists /\ outdated \in BOOLEAN
      /\ refusals \in 0..PageMaxRefusals /\ PageMaxRefusals \in Nat
  BY PageAssumption DEF PageShape
<1>2. CASE saved' = s /\ outdated' = (outdated \/ tells \/ s # saved) /\ UNCHANGED refusals
  <2>1. HistoryIsSafe'
    BY <1>2 DEF HistoryIsSafe
  <2> QED BY <1>1, <1>2, <2>1
<1>3. CASE /\ refusals < PageMaxRefusals /\ refusals' = refusals + 1
           /\ UNCHANGED <<saved, outdated>>
  <2>1. refusals' # 0 /\ refusals' \in 0..PageMaxRefusals
    BY <1>1, <1>3
  <2>2. Honest(saved, taken')
    BY DEF HistoryIsSafe, Honest
  <2> QED BY <1>1, <1>3, <2>1, <2>2 DEF HistoryIsSafe
<1> QED BY <1>2, <1>3 DEF Store

\* A list remains safe when more is taken and no more is asked for.
LEMMA MoreTaken ==
    ASSUME NEW L, NEW W, NEW T, NEW W2, NEW T2, T \subseteq T2, W2 \subseteq W
    PROVE  (Honest(L, T) => Honest(L, T2)) /\ (InSight(L, W) => InSight(L, W2))
BY DEF Honest, InSight

\* So do the lists of the sends, when calls end and no more is asked for.
LEMMA SendsKept ==
    ASSUME SendsAreSafe, taken \subseteq taken', atHand' \ taken' \subseteq atHand \ taken,
           \A t \in Attempts : IsSendHere(attempt'[t]) => attempt'[t] = attempt[t]
    PROVE  SendsAreSafe'
<1>1. ASSUME NEW t \in Attempts, IsSendHere(attempt'[t])
      PROVE  Honest(attempt'[t].list, taken') /\ InSight(attempt'[t].list, atHand' \ taken')
  BY <1>1, MoreTaken DEF SendsAreSafe
<1>2. \A t, u \in Attempts : IsSendHere(attempt'[t]) /\ IsSendHere(attempt'[u]) => t = u
  BY DEF SendsAreSafe
<1> QED BY <1>1, <1>2 DEF SendsAreSafe, IsSendHere

\* A call ends.
LEMMA CallEnds ==
    ASSUME PageShape, NEW t \in Attempts, CallOver(t)
    PROVE  /\ attempt' \in [Attempts -> {NoAttempt} \cup PageCalls]
           /\ attempt'[t] = NoAttempt /\ ~IsSendHere(attempt'[t])
           /\ \A u \in Attempts : IsSendHere(attempt'[u]) => attempt'[u] = attempt[u]
<1>1. attempt \in [Attempts -> {NoAttempt} \cup PageCalls]
  BY DEF PageShape
<1>2. NoAttempt.kind # "send"
  BY DEF NoAttempt
<1> QED BY <1>1, <1>2 DEF CallOver, IsSendHere

\* What the calls under way send.
LEMMA CallTexts ==
    ASSUME PageShape, NEW t \in Attempts, attempt[t].kind # "none"
    PROVE  /\ attempt[t] \in PageCalls /\ attempt[t].text \in Own
           /\ attempt[t].kind \in {"send", "edit"} => attempt[t].text \in Mine \X {0}
           /\ attempt[t].kind = "send" => attempt[t].list \in TextLists
<1>1. attempt[t] \in PageCalls
  BY DEF PageShape, NoAttempt
<1> QED BY <1>1, TextNames DEF PageCalls

\* The page reads the history again: a failed message stays, and no other can be one
\* that no one took.
LEMMA UpdateKeeps == ASSUME PageIInv, UpdateChat PROVE PageIInv'
<1>0. /\ PageShape /\ SendsAreSafe /\ HistoryIsSafe
      /\ Honest(view, taken) /\ InSight(view, atHand \ taken)
  BY DEF PageIInv
<1>1. /\ outdated' = FALSE /\ view' = [x \in Texts |-> Reread(x)]
      /\ UNCHANGED <<saved, attempt, outboxed, flushed, written, atHand, taken, refusals>>
  BY DEF UpdateChat
<1>2. view \in TextLists /\ saved \in TextLists /\ atHand \subseteq Own
  BY <1>0 DEF PageShape
<1>3. \A x \in Texts : /\ view'[x] = Reread(x)
                       /\ Reread(x) \in Entry
                       /\ On(saved, x) => Reread(x) = saved[x]
                       /\ ~On(saved, x) => Reread(x) # "delivered"
  BY <1>1, <1>2 DEF Reread, TextLists, Entry
<1>4. PageShape'
  BY <1>0, <1>1, <1>3 DEF PageShape, TextLists
<1>5. Honest(view', taken)
  BY <1>0, <1>3, TextNames DEF Honest, HistoryIsSafe
<1>6. InSight(view', atHand \ taken)
  <2> SUFFICES ASSUME NEW x \in atHand \ taken PROVE On(view', x)
    BY DEF InSight
  <2>1. x \in Own /\ x \in Texts /\ view[x] = "failed"
    BY <1>0, <1>2, TextNames DEF InSight, Honest, On, TextLists, Entry
  <2> QED BY <1>3, <2>1 DEF On, Reread
<1>7. SendsAreSafe' /\ HistoryIsSafe'
  BY <1>0, <1>1 DEF SendsAreSafe, HistoryIsSafe
<1>8. InStep'
  BY <1>1, <1>3 DEF InStep, On
<1> QED BY <1>1, <1>4, <1>5, <1>6, <1>7, <1>8 DEF PageIInv

\* A new controller shows the history, and no call is its own.
LEMMA NewControllerKeeps == ASSUME PageIInv, NewController PROVE PageIInv'
<1>0. PageShape /\ HistoryIsSafe
  BY DEF PageIInv
<1>1. /\ view' = saved /\ outdated' = FALSE
      /\ atHand' = {x \in written : On(saved, x)}
      /\ attempt' = [t \in Attempts |-> IF attempt[t] = NoAttempt THEN NoAttempt
                                        ELSE [attempt[t] EXCEPT !.here = FALSE]]
      /\ UNCHANGED <<saved, outboxed, flushed, written, taken, refusals>>
  BY DEF NewController
<1>2. ASSUME NEW t \in Attempts
      PROVE  attempt'[t] \in {NoAttempt} \cup PageCalls /\ ~IsSendHere(attempt'[t])
  <2>1. CASE attempt[t] = NoAttempt
    BY <1>1, <2>1 DEF NoAttempt, IsSendHere
  <2>2. CASE attempt[t] # NoAttempt
    <3>1. attempt[t] \in PageCalls /\ attempt'[t] = [attempt[t] EXCEPT !.here = FALSE]
      BY <1>0, <1>1, <2>2 DEF PageShape
    <3>2. attempt'[t] \in PageCalls /\ attempt'[t].here = FALSE
      BY <3>1 DEF PageCalls
    <3> QED BY <3>2 DEF IsSendHere
  <2> QED BY <2>1, <2>2
<1>3. attempt' \in [Attempts -> {NoAttempt} \cup PageCalls]
  BY <1>1, <1>2
<1>4. PageShape'
  BY <1>0, <1>1, <1>3 DEF PageShape
<1>5. SendsAreSafe'
  BY <1>2 DEF SendsAreSafe, IsSendHere
<1>6. HistoryIsSafe' /\ Honest(view', taken') /\ InSight(view', atHand' \ taken')
  BY <1>0, <1>1 DEF HistoryIsSafe, InSight
<1>7. InStep'
  BY <1>1 DEF InStep
<1> QED BY <1>4, <1>5, <1>6, <1>7 DEF PageIInv

\* A call begins; a send captures what is as good as the page.
LEMMA BeginsKeeps ==
    ASSUME PageIInv, NEW t \in Attempts, NEW c \in PageCalls, Begins(t, c),
           c.kind = "send" => ~SendingHere /\ c.list = view
    PROVE  PageIInv'
<1>0. /\ PageShape /\ SendsAreSafe /\ HistoryIsSafe /\ InStep
      /\ Honest(view, taken) /\ InSight(view, atHand \ taken)
  BY DEF PageIInv
<1>1. /\ attempt' = [attempt EXCEPT ![t] = c]
      /\ UNCHANGED <<view, saved, outdated, outboxed, flushed, written, atHand, taken, refusals>>
  BY DEF Begins
<1>2. PageShape'
  BY <1>0, <1>1 DEF PageShape
<1>3. \A u \in Attempts : attempt'[u] = IF u = t THEN c ELSE attempt[u]
  BY <1>0, <1>1 DEF PageShape
<1>4. SendsAreSafe'
  <2>1. CASE IsSendHere(c)
    <3>1. /\ Honest(c.list, taken) /\ InSight(c.list, atHand \ taken)
          /\ \A u \in Attempts : ~IsSendHere(attempt[u])
      BY <1>0, <2>1 DEF IsSendHere, SendingHere
    <3> QED BY <1>1, <1>3, <3>1 DEF SendsAreSafe, IsSendHere
  <2>2. CASE ~IsSendHere(c)
    BY <1>0, <1>1, <1>3, <2>2, SendsKept
  <2> QED BY <2>1, <2>2
<1>5. HistoryIsSafe' /\ InStep'
  BY <1>0, <1>1 DEF HistoryIsSafe, InStep
<1> QED BY <1>0, <1>1, <1>2, <1>4, <1>5 DEF PageIInv

\* The calls there are.
LEMMA StartsKeep ==
    ASSUME PageIInv, NEW t \in Attempts,
           \/ \E m \in Mine : StartSend(t, m) \/ StartEdit(t, m)
           \/ \E x \in Own : StartRetry(t, x)
    PROVE  PageIInv'
<1>1. view \in TextLists
  BY DEF PageIInv, PageShape
<1>2. ASSUME NEW m \in Mine, StartSend(t, m) PROVE PageIInv'
  <2> DEFINE c == [kind |-> "send", here |-> TRUE, text |-> <<m, 0>>, list |-> view]
  <2>1. c \in PageCalls /\ c.list = view
    BY <1>1 DEF PageCalls
  <2>2. Begins(t, c) /\ ~SendingHere
    BY <1>2 DEF StartSend
  <2> HIDE DEF c
  <2> QED BY <2>1, <2>2, BeginsKeeps
<1>3. ASSUME NEW m \in Mine, StartEdit(t, m) PROVE PageIInv'
  <2> DEFINE c == [kind |-> "edit", here |-> TRUE, text |-> <<m, 0>>]
  <2>1. c \in PageCalls /\ c.kind # "send"
    BY DEF PageCalls
  <2>2. Begins(t, c)
    BY <1>3 DEF StartEdit
  <2> HIDE DEF c
  <2> QED BY <2>1, <2>2, BeginsKeeps
<1>4. ASSUME NEW x \in Own, StartRetry(t, x) PROVE PageIInv'
  <2> DEFINE c == [kind |-> "retry", here |-> TRUE, text |-> x]
  <2>1. c \in PageCalls /\ c.kind # "send"
    BY DEF PageCalls
  <2>2. Begins(t, c)
    BY <1>4 DEF StartRetry
  <2> HIDE DEF c
  <2> QED BY <2>1, <2>2, BeginsKeeps
<1> QED BY <1>2, <1>3, <1>4

\* A call that gives up changes nothing else.
LEMMA GivesUpKeeps == ASSUME PageIInv, NEW t \in Attempts, GivesUp(t) PROVE PageIInv'
<1>0. /\ PageShape /\ SendsAreSafe /\ HistoryIsSafe /\ InStep
      /\ Honest(view, taken) /\ InSight(view, atHand \ taken)
  BY DEF PageIInv
<1>1. /\ CallOver(t)
      /\ UNCHANGED <<view, saved, outdated, outboxed, flushed, written, atHand, taken, refusals>>
  BY DEF GivesUp
<1>2. PageShape'
  BY <1>0, <1>1, CallEnds DEF PageShape
<1>3. SendsAreSafe'
  BY <1>0, <1>1, CallEnds, SendsKept
<1>4. HistoryIsSafe' /\ InStep'
  BY <1>0, <1>1 DEF HistoryIsSafe, InStep
<1> QED BY <1>0, <1>1, <1>2, <1>3, <1>4 DEF PageIInv

\* The outbox forgets what the flush has sent.
LEMMA FlushDoneKeeps == ASSUME PageIInv, FlushDone PROVE PageIInv'
<1>0. /\ PageShape /\ SendsAreSafe /\ HistoryIsSafe /\ InStep
      /\ Honest(view, taken) /\ InSight(view, atHand \ taken)
  BY DEF PageIInv
<1>1. /\ outboxed' = outboxed \ flushed /\ flushed' = {}
      /\ UNCHANGED <<view, saved, outdated, attempt, written, atHand, taken, refusals>>
  BY DEF FlushDone
<1>2. PageShape'
  BY <1>0, <1>1 DEF PageShape
<1>3. SendsAreSafe' /\ HistoryIsSafe' /\ InStep'
  BY <1>0, <1>1 DEF SendsAreSafe, HistoryIsSafe, InStep
<1> QED BY <1>0, <1>1, <1>2, <1>3 DEF PageIInv

\* A send ends: the captured list takes the place of the page, if that is still the
\* send's own.
LEMMA SentKeeps ==
    ASSUME PageIInv, NEW t \in Attempts, NEW e \in {"failed", "delivered"}, Sent(t, e),
           taken' = IF e = "delivered" THEN taken \cup {attempt[t].text} ELSE taken,
           outboxed' \in {outboxed, outboxed \cup {attempt[t].text}}
    PROVE  PageIInv'
<1>0. /\ PageShape /\ SendsAreSafe /\ HistoryIsSafe
      /\ Honest(view, taken) /\ InSight(view, atHand \ taken)
  BY DEF PageIInv
<1> DEFINE x == attempt[t].text
           L == attempt[t].list
<1>1. /\ attempt[t].kind = "send" /\ CallOver(t) /\ Store(Saved(x, e), TRUE)
      /\ written' = written \cup {x} /\ UNCHANGED flushed
      /\ IF attempt[t].here
         THEN view' = [L EXCEPT ![x] = e] /\ atHand' = atHand \cup {x}
         ELSE UNCHANGED <<view, atHand>>
  BY DEF Sent
<1>2. x \in Own /\ x \in Texts /\ L \in TextLists
  BY <1>0, <1>1, CallTexts, TextNames
<1>3. /\ saved \in TextLists /\ view \in TextLists /\ e \in Entry /\ e # "absent"
      /\ written \subseteq Own /\ atHand \subseteq written /\ taken \subseteq Own
  BY <1>0 DEF PageShape, Entry
<1>4. /\ taken \subseteq taken' /\ taken' \subseteq taken \cup {x}
      /\ e = "delivered" => x \in taken'
  OBVIOUS
<1> HIDE DEF x, L
<1>5. /\ Saved(x, e) \in TextLists /\ Honest(Saved(x, e), taken')
      /\ InSight(saved, written \ taken) => InSight(Saved(x, e), written' \ taken')
  <2>1. written' \ taken' \subseteq Own /\ written' \ taken' \subseteq (written \ taken) \cup {x}
    BY <1>1, <1>2, <1>3, <1>4
  <2>2. Honest(saved, taken)
    BY <1>0 DEF HistoryIsSafe
  <2>3. e = "delivered" => x \in taken' \/ x \notin Own
    BY <1>4
  <2> QED BY <1>2, <1>3, <1>4, <2>1, <2>2, <2>3, SavedIsSafe
<1>6. /\ saved' \in TextLists /\ outdated' \in BOOLEAN /\ refusals' \in 0..PageMaxRefusals
      /\ HistoryIsSafe' /\ ~(refusals' = 0 /\ ~outdated')
  BY <1>0, <1>1, <1>4, <1>5, StoreKeeps
<1>7. InStep'
  BY <1>6 DEF InStep
<1>8. /\ view' \in TextLists /\ Honest(view', taken') /\ InSight(view', atHand' \ taken')
      /\ atHand' \subseteq written'
  <2>1. CASE attempt[t].here
    <3>1. IsSendHere(attempt[t])
      BY <1>1, <2>1 DEF IsSendHere
    <3>2. Honest(L, taken) /\ InSight(L, atHand \ taken)
      BY <1>0, <3>1 DEF SendsAreSafe, L
    <3>3. /\ atHand' \ taken' \subseteq Own
          /\ atHand' \ taken' \subseteq (atHand \ taken) \cup {x}
          /\ atHand' \subseteq written'
      BY <1>1, <1>2, <1>3, <1>4, <2>1
    <3>4. /\ Honest([L EXCEPT ![x] = e], taken')
          /\ InSight([L EXCEPT ![x] = e], atHand' \ taken')
      BY <1>2, <1>3, <1>4, <3>2, <3>3, SafePut
    <3> QED BY <1>1, <1>2, <1>3, <2>1, <3>3, <3>4 DEF TextLists
  <2>2. CASE ~attempt[t].here
    <3>1. atHand' \ taken' \subseteq atHand \ taken /\ atHand' \subseteq written'
      BY <1>1, <1>3, <1>4, <2>2
    <3> QED BY <1>0, <1>1, <1>3, <1>4, <2>2, <3>1, MoreTaken
  <2> QED BY <2>1, <2>2
<1>9. SendsAreSafe'
  <2>1. CASE attempt[t].here
    <3>1. \A u \in Attempts : ~IsSendHere(attempt'[u])
      BY <1>0, <1>1, <2>1, CallEnds DEF SendsAreSafe, IsSendHere
    <3> QED BY <3>1 DEF SendsAreSafe, IsSendHere
  <2>2. CASE ~attempt[t].here
    <3>1. atHand' \ taken' \subseteq atHand \ taken
      BY <1>1, <1>4, <2>2
    <3> QED BY <1>0, <1>1, <1>4, <3>1, CallEnds, SendsKept
  <2> QED BY <2>1, <2>2
<1>10. /\ attempt' \in [Attempts -> {NoAttempt} \cup PageCalls]
       /\ outboxed' \subseteq Own /\ flushed' \subseteq outboxed' /\ written' \subseteq Own
       /\ taken' \subseteq Own
  <2>1. outboxed' \in {outboxed, outboxed \cup {x}} /\ flushed \subseteq outboxed /\ outboxed \subseteq Own
    BY <1>0 DEF PageShape, x
  <2>2. attempt' \in [Attempts -> {NoAttempt} \cup PageCalls]
    BY <1>0, <1>1, CallEnds
  <2> QED BY <1>1, <1>2, <1>3, <1>4, <2>1, <2>2
<1>11. PageShape'
  BY <1>6, <1>8, <1>10 DEF PageShape
<1> QED BY <1>6, <1>7, <1>8, <1>9, <1>11 DEF PageIInv

\* A step after which the page is V and the history s, if that can be saved: both safe.
LEMMA TellsKeeps ==
    ASSUME PageIInv, NEW V \in TextLists, view' = V, NEW s \in TextLists,
           NEW tells \in BOOLEAN, Store(s, tells),
           (~tells /\ s = saved /\ refusals = 0 /\ ~outdated) => V = view,
           taken \subseteq taken', taken' \subseteq Own, atHand' = atHand,
           written \subseteq written', written' \subseteq Own,
           Honest(V, taken'), InSight(V, atHand \ taken'), Honest(s, taken'),
           InSight(saved, written \ taken) => InSight(s, written' \ taken'),
           attempt' \in [Attempts -> {NoAttempt} \cup PageCalls],
           \A t \in Attempts : IsSendHere(attempt'[t]) => attempt'[t] = attempt[t],
           flushed' \subseteq outboxed', outboxed' \subseteq Own
    PROVE  PageIInv'
<1>0. PageShape /\ SendsAreSafe /\ HistoryIsSafe /\ InStep /\ atHand \subseteq written
  BY DEF PageIInv, PageShape
<1>1. /\ saved' \in TextLists /\ outdated' \in BOOLEAN /\ refusals' \in 0..PageMaxRefusals
      /\ HistoryIsSafe'
      /\ (refusals' = 0 /\ ~outdated') =>
            /\ ~tells /\ refusals = 0 /\ ~outdated /\ saved' = saved /\ s = saved
  BY <1>0, StoreKeeps
<1>2. PageShape'
  BY <1>0, <1>1 DEF PageShape
<1>3. SendsAreSafe'
  BY <1>0, SendsKept
<1>4. InStep'
  <2> SUFFICES ASSUME refusals' = 0, ~outdated', NEW x \in Texts, On(saved', x)
               PROVE  view'[x] = saved'[x]
    BY DEF InStep, On
  <2>1. saved' = saved /\ view' = view /\ refusals = 0 /\ ~outdated
    BY <1>1
  <2> QED BY <1>0, <2>1 DEF InStep, On
<1> QED BY <1>1, <1>2, <1>3, <1>4 DEF PageIInv

\* The history that a message is saved in, or put in the place of one that was taken.
LEMMA HistoryPut ==
    ASSUME PageShape, HistoryIsSafe, taken \subseteq taken',
           NEW old \in Texts, NEW x \in Texts, NEW e \in {"failed", "delivered"},
           e = "delivered" => x \in taken' \/ x \notin Own,
           old = x \/ old \in taken' \/ old \notin Own,
           written' \subseteq Own, written' \subseteq written \cup taken' \cup {x}
    PROVE  \A s \in {Replaced(old, x, e), Saved(x, e)} :
              /\ s \in TextLists /\ Honest(s, taken')
              /\ InSight(saved, written \ taken) => InSight(s, written' \ taken')
<1> DEFINE A == written \ taken
           B == written' \ taken'
<1>1. saved \in TextLists /\ Honest(saved, taken)
  BY DEF PageShape, HistoryIsSafe
<1>2. B \subseteq Own /\ B \subseteq A \cup {x} /\ (old = x \/ old \notin B)
  OBVIOUS
<1> HIDE DEF A, B
<1>3. /\ Replaced(old, x, e) \in TextLists /\ Honest(Replaced(old, x, e), taken')
      /\ InSight(saved, A) => InSight(Replaced(old, x, e), B)
  BY ONLY <1>1, <1>2, taken \subseteq taken', old \in Texts, x \in Texts,
          e \in {"failed", "delivered"}, e = "delivered" => x \in taken' \/ x \notin Own,
          ReplacedIsSafe
<1>4. /\ Saved(x, e) \in TextLists /\ Honest(Saved(x, e), taken')
      /\ InSight(saved, A) => InSight(Saved(x, e), B)
  BY ONLY <1>1, <1>2, taken \subseteq taken', x \in Texts,
          e \in {"failed", "delivered"}, e = "delivered" => x \in taken' \/ x \notin Own,
          SavedIsSafe
<1> QED BY <1>3, <1>4 DEF A, B

\* A message is marked: on the page, or there not, and in the history.
LEMMA MarkedKeeps ==
    ASSUME PageIInv, NEW x \in Own, NEW e \in {"failed", "delivered"},
           view' \in {view, [view EXCEPT ![x] = e]},
           Store(Replaced(x, x, e), TRUE) \/ Store(Saved(x, e), TRUE),
           taken \subseteq taken', taken' \subseteq Own, e = "delivered" => x \in taken',
           UNCHANGED <<atHand, written>>,
           attempt' \in [Attempts -> {NoAttempt} \cup PageCalls],
           \A t \in Attempts : IsSendHere(attempt'[t]) => attempt'[t] = attempt[t],
           flushed' \subseteq outboxed', outboxed' \subseteq Own
    PROVE  PageIInv'
<1>0. /\ PageShape /\ HistoryIsSafe /\ x \in Texts /\ e \in Entry /\ e # "absent"
      /\ Honest(view, taken) /\ InSight(view, atHand \ taken)
  BY TextNames DEF PageIInv, Entry
<1>1. /\ view \in TextLists /\ saved \in TextLists /\ atHand \subseteq Own
      /\ written \subseteq Own /\ Honest(saved, taken)
  BY <1>0 DEF PageShape, HistoryIsSafe
<1>2. /\ view' \in TextLists /\ Honest(view', taken') /\ InSight(view', atHand \ taken')
  <2>1. CASE view' = view
    BY <1>0, <1>1, <2>1, MoreTaken
  <2>2. CASE view' = [view EXCEPT ![x] = e]
    <3>1. atHand \ taken' \subseteq Own /\ atHand \ taken' \subseteq (atHand \ taken) \cup {x}
      BY <1>1
    <3>2. Honest(view', taken') /\ InSight(view', atHand \ taken')
      BY <1>0, <1>1, <2>2, <3>1, SafePut
    <3> QED BY <1>0, <1>1, <2>2, <3>2 DEF TextLists
  <2> QED BY <2>1, <2>2
<1>4. PICK s : s \in {Replaced(x, x, e), Saved(x, e)} /\ Store(s, TRUE)
  OBVIOUS
<1>5. /\ s \in TextLists /\ Honest(s, taken')
      /\ InSight(saved, written \ taken) => InSight(s, written' \ taken')
  <2>1. /\ written' \subseteq Own /\ written' \subseteq written \cup taken' \cup {x}
        /\ e = "delivered" => x \in taken' \/ x \notin Own
    BY <1>1
  <2> QED BY ONLY <1>0, <1>4, <2>1, taken \subseteq taken', e \in {"failed", "delivered"},
                  HistoryPut
<1>6. TRUE \in BOOLEAN
  OBVIOUS
<1> QED BY <1>1, <1>2, <1>4, <1>5, <1>6, TellsKeeps

\* Nothing changes the calls, the outbox.
LEMMA CallsAsTheyAre ==
    ASSUME PageShape
    PROVE  /\ attempt \in [Attempts -> {NoAttempt} \cup PageCalls]
           /\ flushed \subseteq outboxed /\ outboxed \subseteq Own /\ taken \subseteq Own
           /\ written \subseteq Own
BY DEF PageShape

\* A retry succeeds.
LEMMA RetrySucceedsKeeps ==
    ASSUME PageIInv, NEW t \in Attempts, RetrySucceeds(t) PROVE PageIInv'
<1>0. PageShape
  BY DEF PageIInv
<1> DEFINE x == attempt[t].text
<1>1. /\ attempt[t].kind = "retry" /\ CallOver(t)
      /\ view' \in {view, [view EXCEPT ![x] = "delivered"]}
      /\ Store(Replaced(x, x, "delivered"), TRUE)
      /\ taken' = taken \cup {x}
      /\ UNCHANGED <<outboxed, flushed, written, atHand>>
  BY DEF RetrySucceeds
<1>2. x \in Own
  BY <1>0, <1>1, CallTexts
<1>3. /\ attempt' \in [Attempts -> {NoAttempt} \cup PageCalls]
      /\ \A u \in Attempts : IsSendHere(attempt'[u]) => attempt'[u] = attempt[u]
  BY <1>0, <1>1, CallEnds
<1> HIDE DEF x
<1>4. /\ taken \subseteq taken' /\ taken' \subseteq Own /\ x \in taken'
      /\ flushed' \subseteq outboxed' /\ outboxed' \subseteq Own
      /\ UNCHANGED <<atHand, written>>
  BY <1>0, <1>1, <1>2, CallsAsTheyAre
<1> QED BY <1>1, <1>2, <1>3, <1>4, MarkedKeeps

\* A flush has sent a message.
LEMMA FlushSendsKeeps == ASSUME PageIInv, NEW x \in Own, FlushSends(x) PROVE PageIInv'
<1>0. /\ PageShape /\ SendsAreSafe /\ HistoryIsSafe /\ InStep
      /\ Honest(view, taken) /\ InSight(view, atHand \ taken)
  BY DEF PageIInv
<1>1. /\ x \in outboxed /\ flushed' = flushed \cup {x} /\ taken' = taken \cup {x}
      /\ UNCHANGED <<attempt, outboxed, written, atHand>>
  BY DEF FlushSends
<1>2. /\ attempt' \in [Attempts -> {NoAttempt} \cup PageCalls]
      /\ \A u \in Attempts : IsSendHere(attempt'[u]) => attempt'[u] = attempt[u]
      /\ flushed' \subseteq outboxed' /\ outboxed' \subseteq Own
      /\ taken \subseteq taken' /\ taken' \subseteq Own /\ x \in taken'
  BY <1>0, <1>1, CallsAsTheyAre
<1>3. CASE On(saved, x)
  <2>1. /\ view' \in {view, [view EXCEPT ![x] = "delivered"]}
        /\ Store([saved EXCEPT ![x] = "delivered"], TRUE)
    BY <1>3 DEF FlushSends
  <2>2. x \in Texts /\ saved \in TextLists
    BY <1>0, TextNames DEF PageShape
  <2>3. [saved EXCEPT ![x] = "delivered"] = Replaced(x, x, "delivered")
    BY <2>2 DEF Replaced, TextLists
  <2> QED BY <1>1, <1>2, <2>1, <2>3, MarkedKeeps
<1>4. CASE ~On(saved, x)
  <2>1. UNCHANGED <<view, saved, outdated, refusals>>
    BY <1>4 DEF FlushSends
  <2>2. PageShape'
    BY <1>0, <1>1, <1>2, <2>1 DEF PageShape
  <2>3. SendsAreSafe'
    BY <1>0, <1>1, <1>2, SendsKept
  <2>4. /\ HistoryIsSafe' /\ InStep' /\ Honest(view', taken')
        /\ InSight(view', atHand' \ taken')
    BY <1>0, <1>1, <2>1 DEF HistoryIsSafe, InStep, Honest, InSight
  <2> QED BY <2>2, <2>3, <2>4 DEF PageIInv
<1> QED BY <1>3, <1>4

\* A receipt, for what the page or the history has.
LEMMA HearReceiptKeeps == ASSUME PageIInv, NEW x \in Own, HearReceipt(x) PROVE PageIInv'
<1>0. /\ PageShape /\ SendsAreSafe /\ HistoryIsSafe /\ InStep
      /\ Honest(view, taken) /\ InSight(view, atHand \ taken)
  BY DEF PageIInv
<1>1. /\ view' \in {view, [view EXCEPT ![x] = "delivered"]}
      /\ taken' = taken \cup {x}
      /\ UNCHANGED <<attempt, outboxed, flushed, written, atHand>>
  BY DEF HearReceipt
<1>2. /\ attempt' \in [Attempts -> {NoAttempt} \cup PageCalls]
      /\ \A u \in Attempts : IsSendHere(attempt'[u]) => attempt'[u] = attempt[u]
      /\ flushed' \subseteq outboxed' /\ outboxed' \subseteq Own
      /\ taken \subseteq taken' /\ taken' \subseteq Own /\ x \in taken'
  BY <1>0, <1>1, CallsAsTheyAre
<1>3. CASE On(view, x) \/ On(saved, x)
  <2>1. Store(Saved(x, "delivered"), TRUE)
    BY <1>3 DEF HearReceipt
  <2> QED BY <1>1, <1>2, <2>1, MarkedKeeps
<1>4. CASE ~(On(view, x) \/ On(saved, x))
  <2>1. UNCHANGED <<view, saved, outdated, refusals>>
    BY <1>4 DEF HearReceipt
  <2>2. PageShape'
    BY <1>0, <1>1, <1>2, <2>1 DEF PageShape
  <2>3. SendsAreSafe'
    BY <1>0, <1>1, <1>2, SendsKept
  <2>4. /\ HistoryIsSafe' /\ InStep' /\ Honest(view', taken')
        /\ InSight(view', atHand' \ taken')
    BY <1>0, <1>1, <2>1 DEF HistoryIsSafe, InStep, Honest, InSight
  <2> QED BY <2>2, <2>3, <2>4 DEF PageIInv
<1> QED BY <1>3, <1>4

\* A rejection: the message is failed again, and stays.
LEMMA HearRejectionKeeps == ASSUME PageIInv, NEW x \in Own, HearRejection(x) PROVE PageIInv'
<1>0. PageShape
  BY DEF PageIInv
<1>1. /\ view' = [view EXCEPT ![x] = "failed"] /\ Store(Replaced(x, x, "failed"), TRUE)
      /\ UNCHANGED <<attempt, outboxed, flushed, written, atHand, taken>>
  BY DEF HearRejection
<1>2. /\ attempt' \in [Attempts -> {NoAttempt} \cup PageCalls]
      /\ \A u \in Attempts : IsSendHere(attempt'[u]) => attempt'[u] = attempt[u]
      /\ flushed' \subseteq outboxed' /\ outboxed' \subseteq Own
      /\ taken \subseteq taken' /\ taken' \subseteq Own /\ UNCHANGED <<atHand, written>>
      /\ "failed" # "delivered"
  BY <1>0, <1>1, CallsAsTheyAre
<1> QED BY <1>1, <1>2, MarkedKeeps

\* An edit succeeds: the message that was sent gives way to the new text, both taken.
LEMMA EditSucceedsKeeps ==
    ASSUME PageIInv, NEW t \in Attempts, EditSucceeds(t) PROVE PageIInv'
<1>0. /\ PageShape /\ HistoryIsSafe /\ Honest(view, taken) /\ InSight(view, atHand \ taken)
  BY DEF PageIInv
<1> DEFINE x == attempt[t].text
           y == <<x[1], 1>>
           V == [view EXCEPT ![x] = "absent"]
<1>1. /\ attempt[t].kind = "edit" /\ CallOver(t)
      /\ view' \in {view, [V EXCEPT ![y] = "delivered"]}
      /\ Store(Replaced(x, y, "delivered"), TRUE)
      /\ taken' = taken \cup {x, y}
      /\ UNCHANGED <<outboxed, flushed, written, atHand>>
  BY DEF EditSucceeds
<1>2. x \in Own /\ y \in Own /\ x \in Texts /\ y \in Texts
  BY <1>0, <1>1, CallTexts, TextNames
<1>3. /\ attempt' \in [Attempts -> {NoAttempt} \cup PageCalls]
      /\ \A u \in Attempts : IsSendHere(attempt'[u]) => attempt'[u] = attempt[u]
  BY <1>0, <1>1, CallEnds
<1> HIDE DEF x, y
<1>4. /\ view \in TextLists /\ saved \in TextLists /\ atHand \subseteq Own
      /\ "absent" \in Entry /\ "delivered" \in Entry /\ Honest(saved, taken)
  BY <1>0 DEF PageShape, Entry, HistoryIsSafe
<1>5. /\ taken \subseteq taken' /\ taken' \subseteq Own /\ x \in taken' /\ y \in taken'
      /\ flushed' \subseteq outboxed' /\ outboxed' \subseteq Own
      /\ written \subseteq written' /\ written' \subseteq Own /\ atHand' = atHand
  BY <1>0, <1>1, <1>2, CallsAsTheyAre
<1>6. view' \in TextLists /\ Honest(view', taken') /\ InSight(view', atHand \ taken')
  <2>1. CASE view' = view
    <3>1. atHand \ taken' \subseteq atHand \ taken
      BY <1>5
    <3> QED BY <1>0, <1>4, <1>5, <2>1, <3>1, MoreTaken
  <2>2. CASE view' = [V EXCEPT ![y] = "delivered"]
    <3> DEFINE W == atHand \ taken'
    <3>1. W \subseteq Own /\ W \subseteq atHand \ taken /\ x \notin W
      BY <1>4, <1>5
    <3> HIDE DEF W
    <3>2. V \in TextLists
      BY <1>2, <1>4 DEF TextLists
    <3>3. Honest(V, taken') /\ InSight(V, W)
      BY <1>0, <1>2, <1>4, <1>5, <3>1, SafePut
    <3> HIDE DEF V
    <3>4. [V EXCEPT ![y] = "delivered"] \in TextLists
      BY <1>2, <1>4, <3>2 DEF TextLists
    <3>5. /\ Honest([V EXCEPT ![y] = "delivered"], taken')
          /\ InSight([V EXCEPT ![y] = "delivered"], W)
      <4>1. taken' \subseteq taken' /\ W \subseteq W \cup {y}
        OBVIOUS
      <4> QED BY <1>2, <1>4, <1>5, <3>1, <3>2, <3>3, <4>1, SafePut
    <3> QED BY <2>2, <3>4, <3>5 DEF W
  <2> QED BY <1>1, <2>1, <2>2
<1>7. /\ Replaced(x, y, "delivered") \in TextLists
      /\ Honest(Replaced(x, y, "delivered"), taken')
      /\ InSight(saved, written \ taken) =>
            InSight(Replaced(x, y, "delivered"), written' \ taken')
  <2>1. written' \subseteq Own /\ written' \subseteq written \cup taken' \cup {y}
    BY <1>1, <1>5
  <2> QED BY <1>0, <1>2, <1>5, <2>1, HistoryPut
<1>8. TRUE \in BOOLEAN
  OBVIOUS
<1> QED BY <1>1, <1>3, <1>5, <1>6, <1>7, <1>8, TellsKeeps

\* A message or a correction arrives: the page skips what it shows.
LEMMA HearTextKeeps == ASSUME PageIInv, NEW x \in Texts, HearText(x) PROVE PageIInv'
<1>0. /\ PageShape /\ HistoryIsSafe /\ InStep
      /\ Honest(view, taken) /\ InSight(view, atHand \ taken)
  BY DEF PageIInv
<1> DEFINE y == <<x[1], 0>>
           V == IF x[2] = 1 THEN [view EXCEPT ![y] = "absent"] ELSE view
           s == IF x[2] = 0 THEN Saved(x, "delivered") ELSE Replaced(y, x, "delivered")
           tells == x[2] # 0
<1>1. y \in Texts /\ (x[2] = 0 \/ x[2] = 1) /\ (x[2] = 0 => x = y)
  BY TextNames
<1>2. /\ view \in TextLists /\ saved \in TextLists /\ atHand \subseteq Own
      /\ written \subseteq Own /\ taken \subseteq Own
      /\ "absent" \in Entry /\ "delivered" \in Entry /\ Honest(saved, taken)
  BY <1>0 DEF PageShape, Entry, HistoryIsSafe
<1>3. [view EXCEPT ![y] = IF x[2] = 1 THEN "absent" ELSE @, ![x] = "delivered"]
        = [V EXCEPT ![x] = "delivered"]
  BY <1>1, <1>2 DEF TextLists
<1>4. /\ view' = IF On(view, x) THEN view ELSE [V EXCEPT ![x] = "delivered"]
      /\ Store(s, tells)
      /\ written' = written \cup ({y} \cap Own)
      /\ taken' = taken \cup ({y, x} \cap Own)
      /\ UNCHANGED <<attempt, outboxed, flushed, atHand>>
  BY <1>1, <1>3 DEF HearText
<1>5. tells \in BOOLEAN /\ (~tells => s = Saved(x, "delivered"))
  OBVIOUS
<1>6. /\ taken \subseteq taken' /\ taken' \subseteq Own
      /\ x \in taken' \/ x \notin Own
      /\ y \notin atHand \ taken' /\ y \notin written' \ taken'
      /\ written \subseteq written' /\ written' \subseteq Own /\ atHand' = atHand
      /\ written' \ taken' \subseteq Own /\ atHand \ taken' \subseteq Own
      /\ written' \ taken' \subseteq written \ taken
      /\ atHand \ taken' \subseteq atHand \ taken
  BY <1>1, <1>2, <1>4
<1>7. V \in TextLists /\ Honest(V, taken') /\ InSight(V, atHand \ taken')
  <2>1. CASE V = view
    BY <1>0, <1>2, <1>6, <2>1, MoreTaken
  <2>2. CASE V = [view EXCEPT ![y] = "absent"]
    <3>1. V \in TextLists
      BY <1>1, <1>2, <2>2 DEF TextLists
    <3>2. atHand \ taken' \subseteq (atHand \ taken) \cup {y} /\ "absent" # "delivered"
      BY <1>6
    <3> DEFINE A == atHand \ taken
               B == atHand \ taken'
    <3>3. B \subseteq Own /\ B \subseteq A \cup {y} /\ y \notin B /\ InSight(view, A)
      BY <1>0, <1>6, <3>2
    <3> HIDE DEF A, B, y, V
    <3>4. Honest(V, taken') /\ InSight(V, B)
      BY ONLY <1>0, <1>1, <1>2, <1>6, <2>2, <3>2, <3>3, SafePut
    <3> QED BY <3>1, <3>4 DEF B
  <2> QED BY <2>1, <2>2
<1> HIDE DEF V
<1>8. view' \in TextLists /\ Honest(view', taken') /\ InSight(view', atHand \ taken')
  <2>1. CASE view' = view
    BY <1>0, <1>2, <1>6, <2>1, MoreTaken
  <2>2. CASE view' = [V EXCEPT ![x] = "delivered"]
    <3>1. view' \in TextLists
      BY <1>2, <1>7, <2>2 DEF TextLists
    <3>2. /\ atHand \ taken' \subseteq (atHand \ taken') \cup {x} /\ taken' \subseteq taken'
          /\ "delivered" # "absent"
      OBVIOUS
    <3>3. Honest(view', taken') /\ InSight(view', atHand \ taken')
      BY <1>2, <1>6, <1>7, <2>2, <3>2, SafePut
    <3> QED BY <3>1, <3>3
  <2> QED BY <1>4, <2>1, <2>2
<1>9. /\ s \in TextLists /\ Honest(s, taken')
      /\ InSight(saved, written \ taken) => InSight(s, written' \ taken')
  <2>1. /\ written' \subseteq written \cup taken' \cup {x}
        /\ y = x \/ y \in taken' \/ y \notin Own
    BY <1>4
  <2>2. s \in {Replaced(y, x, "delivered"), Saved(x, "delivered")}
    OBVIOUS
  <2> HIDE DEF s, y
  <2> QED BY <1>0, <1>1, <1>6, <2>1, <2>2, HistoryPut
<1>10. (~tells /\ s = saved /\ refusals = 0 /\ ~outdated) => view' = view
  <2> SUFFICES ASSUME Saved(x, "delivered") = saved, refusals = 0, ~outdated
               PROVE  On(view, x)
    BY <1>4, <1>5
  <2>1. saved[x] = "delivered"
    BY <1>2 DEF Saved, TextLists
  <2>2. view[x] = saved[x]
    BY <1>0, <2>1 DEF InStep, On
  <2> QED BY <2>1, <2>2 DEF On
<1> HIDE DEF s, tells
<1>11. /\ attempt' \in [Attempts -> {NoAttempt} \cup PageCalls]
       /\ \A t \in Attempts : IsSendHere(attempt'[t]) => attempt'[t] = attempt[t]
       /\ flushed' \subseteq outboxed' /\ outboxed' \subseteq Own
  BY <1>0, <1>4, CallsAsTheyAre
<1> QED BY <1>4, <1>5, <1>6, <1>8, <1>9, <1>10, <1>11, TellsKeeps

\* Every step of the page keeps it and the history safe.
LEMMA PageStep == ASSUME PageIInv, [PageNext]_pageVars PROVE PageIInv'
<1>1. CASE PageNext
  <2>1. ASSUME NEW t \in Attempts, SendSucceeds(t) PROVE PageIInv'
    BY <2>1, SentKeeps DEF SendSucceeds
  <2>2. ASSUME NEW t \in Attempts, SendFails(t) PROVE PageIInv'
    BY <2>2, SentKeeps DEF SendFails
  <2> QED BY <1>1, <2>1, <2>2, UpdateKeeps, NewControllerKeeps, StartsKeep, GivesUpKeeps,
             EditSucceedsKeeps, RetrySucceedsKeeps, HearTextKeeps, FlushSendsKeeps,
             HearReceiptKeeps, HearRejectionKeeps, FlushDoneKeeps DEF PageNext
<1>2. CASE UNCHANGED pageVars
  BY <1>2 DEF PageIInv, pageVars, PageShape, SendsAreSafe, HistoryIsSafe, InStep, Honest,
              InSight, On, IsSendHere
<1> QED BY <1>1, <1>2

\* The page and the history are safe for every set of messages, any number of calls at
\* once and of refused saves.
THEOREM PageInvariant == PageSpec => []PageIInv
<1>1. PageInit => PageIInv
  <2> SUFFICES ASSUME PageInit PROVE PageIInv
    OBVIOUS
  <2>1. \A t \in Attempts : attempt[t] = NoAttempt /\ ~IsSendHere(attempt[t])
    BY DEF PageInit, NoAttempt, IsSendHere
  <2>2. PageShape
    <3>1. view \in TextLists /\ saved \in TextLists
      BY DEF PageInit, TextLists, Entry
    <3>2. attempt \in [Attempts -> {NoAttempt} \cup PageCalls]
      BY DEF PageInit
    <3>3. refusals \in 0..PageMaxRefusals
      BY PageAssumption DEF PageInit
    <3> QED BY <3>1, <3>2, <3>3 DEF PageInit, PageShape
  <2>3. SendsAreSafe
    BY <2>1 DEF SendsAreSafe
  <2>4. \A x \in Texts : view[x] = "absent" /\ saved[x] = "absent"
    BY DEF PageInit
  <2>5. HistoryIsSafe /\ InStep /\ Honest(view, taken) /\ InSight(view, atHand \ taken)
    BY <2>4, TextNames DEF PageInit, HistoryIsSafe, InStep, Honest, InSight, On
  <2> QED BY <2>2, <2>3, <2>5 DEF PageIInv
<1> QED BY <1>1, PageStep, PTL DEF PageSpec

\* The variables of the page keep their types.
THEOREM PageTypeCorrect == PageSpec => []PageTypeOK
<1>1. PageIInv => PageTypeOK
  <2> SUFFICES ASSUME PageShape PROVE PageTypeOK
    BY DEF PageIInv
  <2>1. \A t \in Attempts : attempt[t].kind \in {"none", "send", "edit", "retry"}
    BY DEF PageShape, PageCalls, NoAttempt
  <2> QED BY <2>1 DEF PageShape, PageTypeOK, TextLists
<1> QED BY <1>1, PageInvariant, PTL

\* Unless a save failed, the history has every message that no one took, and a page that
\* has read it again shows what that has, whatever list a send has written over it; and
\* a message that no one took stays on the page of the controller that sent it or found it.
THEOREM NothingLostFromSight == PageSpec => []PageShowsConversation
<1>1. PageIInv => PageShowsConversation
  BY DEF PageIInv, HistoryIsSafe, InStep, InSight, PageShowsConversation
<1> QED BY <1>1, PageInvariant, PTL

-----------------------------------------------------------------------------
(* The archive of direct messages *)

\* A set that has zero, and with each number the next one, has every number.
LEMMA SetOfNumbers ==
    ASSUME NEW N, 0 \in N, \A n \in Nat : n \in N => n + 1 \in N PROVE Nat \subseteq N
<1> DEFINE R == {ss \in Nat \X Nat : ss[1] < ss[2]}
           M == Nat \ N
<1>1. IsWellFoundedOn(R, Nat)
  BY NatLessThanWellFounded DEF OpToRel
<1> SUFFICES ASSUME M # {} PROVE FALSE
  OBVIOUS
<1> HIDE DEF R, M
<1>2. M \subseteq Nat
  BY DEF M
<1>3. PICK x \in M : \A y \in M : ~(<<y, x>> \in R)
  BY <1>1, <1>2, WFMin
<1>4. x \in Nat /\ x \notin N
  BY <1>3 DEF M
<1>5. x # 0 /\ x - 1 \in Nat /\ x - 1 < x /\ (x - 1) + 1 = x
  BY <1>4
<1>6. x - 1 \notin M
  <2>1. <<x - 1, x>> \in R
    BY <1>4, <1>5 DEF R
  <2> QED BY <1>3, <2>1
<1>7. x - 1 \in N
  BY <1>5, <1>6 DEF M
<1> QED BY <1>4, <1>5, <1>7

\* The messages of s that are in S, step by step.
Picks(s, S, n, g) ==
    g = [i \in 0..n |-> IF i = 0 THEN <<>>
                        ELSE IF s[i] \in S THEN Append(g[i - 1], s[i]) ELSE g[i - 1]]

\* There is such a sequence for each n: the next one goes one step further.
LEMMA PicksExist ==
    ASSUME NEW s, NEW S, NEW n \in Nat PROVE \E g : Picks(s, S, n, g)
<1> DEFINE N == {k \in Nat : \E g : Picks(s, S, k, g)}
<1>1. 0 \in N
  <2> DEFINE z == [i \in 0..0 |-> <<>>]
  <2>1. Picks(s, S, 0, z)
    BY DEF Picks
  <2> QED BY <2>1
<1>2. ASSUME NEW k \in Nat, k \in N PROVE k + 1 \in N
  <2>1. PICK g : Picks(s, S, k, g)
    BY <1>2
  <2> DEFINE h == [i \in 0..(k + 1) |->
                     IF i = k + 1 THEN IF s[k + 1] \in S THEN Append(g[k], s[k + 1]) ELSE g[k]
                     ELSE g[i]]
             b == [i \in 0..(k + 1) |-> IF i = 0 THEN <<>>
                     ELSE IF s[i] \in S THEN Append(h[i - 1], s[i]) ELSE h[i - 1]]
  <2>2. \A i \in 0..k : h[i] = g[i]
    OBVIOUS
  <2>3. h[k + 1] = IF s[k + 1] \in S THEN Append(g[k], s[k + 1]) ELSE g[k]
    OBVIOUS
  <2>4. \A i \in 0..k : g[i] = IF i = 0 THEN <<>>
                               ELSE IF s[i] \in S THEN Append(g[i - 1], s[i]) ELSE g[i - 1]
    BY <2>1 DEF Picks
  <2>5. DOMAIN h = 0..(k + 1) /\ DOMAIN b = 0..(k + 1)
        /\ h = [i \in DOMAIN h |-> h[i]] /\ b = [i \in DOMAIN b |-> b[i]]
    OBVIOUS
  <2>6. \A i \in 0..(k + 1) : b[i] = IF i = 0 THEN <<>>
                     ELSE IF s[i] \in S THEN Append(h[i - 1], s[i]) ELSE h[i - 1]
    OBVIOUS
  <2>7. ASSUME NEW i \in 0..(k + 1) PROVE h[i] = b[i]
    <3> HIDE DEF h, b
    <3>1. CASE i = k + 1
      <4>1. i - 1 = k /\ k \in 0..k /\ i # 0
        BY <3>1
      <4> QED BY <2>2, <2>3, <2>6, <3>1, <4>1
    <3>2. CASE i # k + 1
      <4>1. i \in 0..k /\ (i # 0 => i - 1 \in 0..k)
        BY <3>2
      <4> QED BY <2>2, <2>4, <2>6, <4>1
    <3> QED BY <3>1, <3>2
  <2>8. h = b
    <3> HIDE DEF h, b
    <3> QED BY <2>5, <2>7
  <2>9. Picks(s, S, k + 1, h)
    <3> HIDE DEF h
    <3> QED BY <2>8 DEF Picks
  <2> QED BY <2>9
<1>3. Nat \subseteq N
  <2> HIDE DEF N
  <2> QED BY <1>1, <1>2, SetOfNumbers
<1> QED BY <1>3

\* So Only has what it should have.
LEMMA OnlyHas ==
    ASSUME NEW X, NEW s \in Seq(X), NEW S
    PROVE  /\ Only(s, S) \in Seq(X)
           /\ Items(Only(s, S)) = Items(s) \cap S
<1> DEFINE f == CHOOSE g : Picks(s, S, Len(s), g)
<1>1. Len(s) \in Nat
  OBVIOUS
<1>2. Picks(s, S, Len(s), f)
  BY <1>1, PicksExist
<1>3. Only(s, S) = f[Len(s)]
  BY DEF Only, Picks
<1> HIDE DEF f
<1>4. \A i \in 0..Len(s) : f[i] = IF i = 0 THEN <<>>
                           ELSE IF s[i] \in S THEN Append(f[i - 1], s[i]) ELSE f[i - 1]
  BY <1>2 DEF Picks
<1> DEFINE N == {n \in Nat : n <= Len(s) => /\ f[n] \in Seq(X)
                                            /\ Items(f[n]) = {s[i] : i \in 1..n} \cap S}
<1>5. 0 \in N
  <2>1. f[0] = <<>>
    BY <1>1, <1>4
  <2>2. Items(<<>>) = {} /\ <<>> \in Seq(X)
    BY DEF Items
  <2>3. 1..0 = {}
    OBVIOUS
  <2> QED BY <2>1, <2>2, <2>3
<1>6. ASSUME NEW n \in Nat, n \in N PROVE n + 1 \in N
  <2> SUFFICES ASSUME n + 1 <= Len(s)
               PROVE  /\ f[n + 1] \in Seq(X)
                      /\ Items(f[n + 1]) = {s[i] : i \in 1..(n + 1)} \cap S
    OBVIOUS
  <2>1. n + 1 \in 0..Len(s) /\ n + 1 # 0 /\ (n + 1) - 1 = n /\ n + 1 \in 1..Len(s)
    BY <1>1
  <2>2. f[n + 1] = IF s[n + 1] \in S THEN Append(f[n], s[n + 1]) ELSE f[n]
    BY <1>4, <2>1
  <2>3. f[n] \in Seq(X) /\ Items(f[n]) = {s[i] : i \in 1..n} \cap S
    BY <1>1, <1>6
  <2>4. s[n + 1] \in X
    BY <2>1
  <2>5. {s[i] : i \in 1..(n + 1)} = {s[i] : i \in 1..n} \cup {s[n + 1]}
    <3>1. 1..(n + 1) = 1..n \cup {n + 1}
      OBVIOUS
    <3> QED BY <3>1
  <2>6. CASE s[n + 1] \in S
    <3> DEFINE a == Append(f[n], s[n + 1])
    <3>1. a \in Seq(X) /\ Len(a) = Len(f[n]) + 1 /\ Len(f[n]) \in Nat
          /\ a[Len(f[n]) + 1] = s[n + 1] /\ \A i \in 1..Len(f[n]) : a[i] = f[n][i]
      BY <2>3, <2>4
    <3>2. Items(a) = Items(f[n]) \cup {s[n + 1]}
      <4> HIDE DEF a
      <4>1. 1..Len(a) = 1..Len(f[n]) \cup {Len(f[n]) + 1}
        BY <3>1
      <4> QED BY <3>1, <4>1 DEF Items
    <3> QED BY <2>2, <2>3, <2>5, <2>6, <3>1, <3>2
  <2>7. CASE s[n + 1] \notin S
    BY <2>2, <2>3, <2>5, <2>7
  <2> QED BY <2>6, <2>7
<1>7. Len(s) \in N
  <2>1. Nat \subseteq N
    <3> HIDE DEF N
    <3> QED BY <1>5, <1>6, SetOfNumbers
  <2> QED BY <1>1, <2>1
<1> QED BY <1>1, <1>3, <1>7 DEF Items

\* What two sequences have, one after the other.
LEMMA JoinedHas ==
    ASSUME NEW X, NEW a \in Seq(X), NEW b \in Seq(X)
    PROVE  /\ a \o b \in Seq(X)
           /\ Items(a) \cup Items(b) \subseteq Items(a \o b)
<1>1. a \o b \in Seq(X) /\ Len(a \o b) = Len(a) + Len(b) /\ Len(a) \in Nat /\ Len(b) \in Nat
  OBVIOUS
<1>2. \A i \in 1..Len(a \o b) : (a \o b)[i] = IF i <= Len(a) THEN a[i] ELSE b[i - Len(a)]
  OBVIOUS
<1> DEFINE c == a \o b
<1>3. c \in Seq(X) /\ Len(c) = Len(a) + Len(b)
      /\ \A i \in 1..Len(c) : c[i] = IF i <= Len(a) THEN a[i] ELSE b[i - Len(a)]
  BY <1>1, <1>2
<1> HIDE DEF c
<1>4. \A i \in 1..Len(a) : i \in 1..Len(c) /\ c[i] = a[i]
  BY <1>1, <1>3
<1>5. ASSUME NEW i \in 1..Len(b) PROVE i + Len(a) \in 1..Len(c) /\ c[i + Len(a)] = b[i]
  <2>1. i + Len(a) \in 1..Len(c) /\ ~(i + Len(a) <= Len(a)) /\ (i + Len(a)) - Len(a) = i
    BY <1>1, <1>3
  <2>2. c[i + Len(a)] = b[(i + Len(a)) - Len(a)]
    BY <1>3, <2>1
  <2> QED BY <2>1, <2>2
<1>6. Items(a) \subseteq Items(c)
  BY <1>4 DEF Items
<1>7. Items(b) \subseteq Items(c)
  BY <1>5 DEF Items
<1> QED BY <1>3, <1>6, <1>7 DEF c

\* A save writes every message of the map.
LEMMA ByStampHas ==
    ASSUME NEW s \in Seq(ChatIds)
    PROVE  ByStamp(s) \in Seq(ChatIds) /\ Items(s) \subseteq Items(ByStamp(s))
<1> DEFINE a == Only(s, ChatIds \ Stamped)
           b == Only(s, Stamped)
<1>1. /\ a \in Seq(ChatIds) /\ Items(a) = Items(s) \cap (ChatIds \ Stamped)
      /\ b \in Seq(ChatIds) /\ Items(b) = Items(s) \cap Stamped
  BY OnlyHas
<1>2. ByStamp(s) = a \o b
  BY DEF ByStamp
<1> HIDE DEF a, b
<1>3. a \o b \in Seq(ChatIds) /\ Items(a) \cup Items(b) \subseteq Items(a \o b)
  BY <1>1, JoinedHas
<1>4. Items(s) \subseteq ChatIds
  BY DEF Items
<1> QED BY <1>1, <1>2, <1>3, <1>4

\* The limit leaves a sequence of messages.
LEMMA ChatTrim == ASSUME NEW s \in Seq(ChatIds) PROVE Trim(s) \in Seq(ChatIds)
<1>1. Len(s) \in Nat /\ ChatLimit \in Nat \ {0}
  BY ChatAssumption
<1>2. CASE Len(s) > ChatLimit
  <2>1. Len(s) - ChatLimit + 1 \in 1..Len(s)
    BY <1>1, <1>2
  <2>2. SubSeq(s, Len(s) - ChatLimit + 1, Len(s)) \in Seq(ChatIds)
    BY <1>1, <2>1
  <2> QED BY <1>2, <2>2 DEF Trim
<1> QED BY <1>2 DEF Trim

\* A message more in the map, and its limit.
LEMMA PutKeeps ==
    ASSUME NEW s \in Seq(ChatIds), NEW i \in ChatIds PROVE Trim(Put(s, i)) \in Seq(ChatIds)
<1>1. Put(s, i) \in Seq(ChatIds)
  BY DEF Put
<1> QED BY <1>1, ChatTrim

\* What a start loads.
LEMMA LoadedKeeps ==
    ASSUME NEW s \in Seq(ChatIds), NEW r \in Seq(ChatIds) PROVE Loaded(s, r) \in Seq(ChatIds)
<1> DEFINE t == Trim(s)
           u == Only(r, ChatIds \ Items(t))
<1>1. t \in Seq(ChatIds)
  BY ChatTrim
<1>2. u \in Seq(ChatIds)
  BY OnlyHas
<1> HIDE DEF t, u
<1>3. t \o u \in Seq(ChatIds)
  BY <1>1, <1>2, JoinedHas
<1>4. Trim(t \o u) \in Seq(ChatIds)
  BY <1>3, ChatTrim
<1> QED BY <1>4 DEF Loaded, t, u

\* What the local record will have when the write under way has come to an end.
Latest == IF job.on = "disk" THEN job.copy ELSE disk

\* A recorded message is in the record, or a save is still to come that copies it.
SaveToCome ==
    ~excused => \/ scheduled \/ queued > 0
                \/ recorded \cap Items(chat) \subseteq Items(Latest)

\* What close() promised is in the record already, or is being written by a save
\* that close() waits for, or one of those that it waits for has not begun.
PromiseToCome ==
    (phase # "open" /\ ~excused) =>
        \/ promised \subseteq Items(disk) /\ promised \subseteq Items(Latest)
        \/ owed > 0 /\ job.on = "disk" /\ promised \subseteq Items(job.copy)
        \/ queued > 0 /\ owed > (IF job.on = "none" THEN 0 ELSE 1)

ChatIInv ==
    /\ ChatTypeOK
    /\ promised \subseteq Items(chat)
    /\ phase = "closed" => owed = 0
    /\ SaveToCome /\ PromiseToCome

\* At first nothing is promised.
LEMMA ChatInitially == ChatInit => ChatIInv
<1> SUFFICES ASSUME ChatInit PROVE ChatIInv
  OBVIOUS
<1>1. <<>> \in Seq(ChatIds)
  OBVIOUS
<1>2. 0 \in 0..ChatMaxActs /\ 0 \in 0..ChatMaxFails
  BY ChatAssumption
<1>3. ChatTypeOK
  BY <1>1, <1>2 DEF ChatInit, ChatTypeOK, NoJob
<1> QED BY <1>3 DEF ChatInit, ChatIInv, SaveToCome, PromiseToCome

\* A message is recorded: a save will come.
LEMMA RecordKeeps ==
    ASSUME ChatIInv, NEW i \in ChatIds, RecordChatMessage(i) PROVE ChatIInv'
<1>0. ChatTypeOK /\ PromiseToCome /\ (phase = "closed" => owed = 0)
  BY DEF ChatIInv
<1>1. /\ phase # "closed" /\ chatActs < ChatMaxActs
      /\ chat' = Trim(Put(chat, i)) /\ scheduled' = TRUE
      /\ recorded' = recorded \cup {i} /\ promised' = promised \cap Items(chat')
      /\ chatActs' = chatActs + 1
      /\ UNCHANGED <<disk, dht, queued, job, phase, owed, excused, chatFails>>
  BY DEF RecordChatMessage
<1>2. chat' \in Seq(ChatIds)
  BY <1>0, <1>1, PutKeeps DEF ChatTypeOK
<1>3. chatActs' \in 0..ChatMaxActs
  BY <1>0, <1>1, ChatAssumption DEF ChatTypeOK
<1>4. recorded' \subseteq ChatIds /\ promised' \subseteq ChatIds
  BY <1>0, <1>1 DEF ChatTypeOK
<1>5. ChatTypeOK'
  BY <1>0, <1>1, <1>2, <1>3, <1>4 DEF ChatTypeOK
<1>6. PromiseToCome'
  <2>1. promised' \subseteq promised
    BY <1>1
  <2> QED BY <1>0, <1>1, <2>1 DEF PromiseToCome, Latest, Items
<1>7. SaveToCome'
  BY <1>1 DEF SaveToCome
<1> QED BY <1>0, <1>1, <1>5, <1>6, <1>7 DEF ChatIInv

\* The microtask chains a save, which is still to begin.
LEMMA ChainKeeps == ASSUME ChatIInv, ChainSave PROVE ChatIInv'
<1>0. ChatTypeOK /\ PromiseToCome /\ (phase = "closed" => owed = 0) /\ promised \subseteq Items(chat)
  BY DEF ChatIInv
<1>1. /\ phase # "closed" /\ scheduled' = FALSE /\ queued' = queued + 1
      /\ UNCHANGED <<chat, disk, dht, job, phase, owed, recorded, promised,
                     excused, chatActs, chatFails>>
  BY DEF ChainSave
<1>2. queued' \in Nat /\ queued' > 0
  BY <1>0, <1>1 DEF ChatTypeOK
<1>3. ChatTypeOK'
  BY <1>0, <1>1, <1>2 DEF ChatTypeOK
<1>4. SaveToCome' /\ PromiseToCome'
  BY <1>0, <1>1, <1>2 DEF SaveToCome, PromiseToCome, Latest, Items
<1> QED BY <1>0, <1>1, <1>3, <1>4 DEF ChatIInv, Items

\* A save begins: what it copies has all that is recorded.
LEMMA BeginKeeps == ASSUME ChatIInv, BeginSave PROVE ChatIInv'
<1>0. ChatTypeOK /\ PromiseToCome /\ (phase = "closed" => owed = 0) /\ promised \subseteq Items(chat)
  BY DEF ChatIInv
<1> DEFINE k == ByStamp(chat)
<1>1. /\ phase # "closed" /\ queued > 0 /\ job.on = "none" /\ queued' = queued - 1
      /\ job' = [on |-> "disk", copy |-> k]
      /\ UNCHANGED <<chat, disk, dht, scheduled, phase, owed, recorded, promised,
                     excused, chatActs, chatFails>>
  BY DEF BeginSave
<1>2. k \in Seq(ChatIds) /\ Items(chat) \subseteq Items(k)
  BY <1>0, ByStampHas DEF ChatTypeOK
<1> HIDE DEF k
<1>3. queued' \in Nat /\ job' \in [on : {"none", "disk", "dht"}, copy : Seq(ChatIds)]
      /\ job'.on = "disk" /\ job'.copy = k
  BY <1>0, <1>1, <1>2 DEF ChatTypeOK
<1>4. ChatTypeOK'
  BY <1>0, <1>1, <1>3 DEF ChatTypeOK
<1>5. Latest' = k /\ Items(chat') = Items(chat) /\ Items(disk') = Items(disk)
  BY <1>1, <1>3 DEF Latest, Items
<1>6. SaveToCome'
  <2>1. recorded' \cap Items(chat') \subseteq Items(k)
    BY <1>2, <1>5
  <2>2. Items(Latest)' = Items(k)
    BY <1>5 DEF Items
  <2> QED BY <2>1, <2>2 DEF SaveToCome
<1>7. PromiseToCome'
  <2>1. promised' \subseteq Items(k) /\ Items(Latest') = Items(k) /\ Items(job'.copy) = Items(k)
    BY <1>0, <1>1, <1>2, <1>3, <1>5
  <2>2. SUFFICES ASSUME phase # "open", ~excused, ~(promised \subseteq Items(disk))
                 PROVE  owed > 0
    BY <1>1, <1>3, <1>5, <2>1 DEF PromiseToCome, Items
  <2> QED BY <1>0, <1>1, <2>2 DEF PromiseToCome
<1> QED BY <1>0, <1>1, <1>4, <1>5, <1>6, <1>7 DEF ChatIInv

\* The record is what was being written.
LEMMA WrittenKeeps == ASSUME ChatIInv, LocalWritten PROVE ChatIInv'
<1>0. /\ ChatTypeOK /\ SaveToCome /\ PromiseToCome /\ (phase = "closed" => owed = 0)
      /\ promised \subseteq Items(chat)
  BY DEF ChatIInv
<1>1. /\ phase # "closed" /\ job.on = "disk" /\ disk' = job.copy
      /\ job' = [on |-> "dht", copy |-> chat]
      /\ UNCHANGED <<chat, dht, scheduled, queued, phase, owed, recorded, promised,
                     excused, chatActs, chatFails>>
  BY DEF LocalWritten
<1>2. disk' \in Seq(ChatIds) /\ job' \in [on : {"none", "disk", "dht"}, copy : Seq(ChatIds)]
      /\ job'.on = "dht"
  BY <1>0, <1>1 DEF ChatTypeOK
<1>3. ChatTypeOK'
  BY <1>0, <1>1, <1>2 DEF ChatTypeOK
<1>4. Latest' = Latest /\ Latest = job.copy /\ disk' = Latest
  BY <1>1, <1>2 DEF Latest
<1>5. SaveToCome'
  BY <1>0, <1>1, <1>4 DEF SaveToCome, Items
<1>6. PromiseToCome'
  BY <1>0, <1>1, <1>2, <1>4 DEF PromiseToCome, Items
<1> QED BY <1>0, <1>1, <1>3, <1>5, <1>6 DEF ChatIInv, Items

\* A local write that fails excuses what is not in the record.
LEMMA FailsKeeps == ASSUME ChatIInv, LocalFails PROVE ChatIInv'
<1>0. ChatTypeOK /\ promised \subseteq Items(chat)
  BY DEF ChatIInv
<1>1. /\ phase # "closed" /\ chatFails < ChatMaxFails /\ job' = NoJob
      /\ owed' = (IF owed > 0 THEN owed - 1 ELSE 0) /\ excused' = TRUE
      /\ chatFails' = chatFails + 1
      /\ UNCHANGED <<chat, disk, dht, scheduled, queued, phase, recorded, promised, chatActs>>
  BY DEF LocalFails, SaveEnds
<1>2. job' \in [on : {"none", "disk", "dht"}, copy : Seq(ChatIds)] /\ owed' \in Nat
      /\ chatFails' \in 0..ChatMaxFails
  BY <1>0, <1>1, ChatAssumption DEF ChatTypeOK, NoJob
<1>3. ChatTypeOK'
  BY <1>0, <1>1, <1>2 DEF ChatTypeOK
<1> QED BY <1>0, <1>1, <1>3 DEF ChatIInv, SaveToCome, PromiseToCome, Items

\* The save is over: if close() waits for another, that one has not begun.
LEMMA DhtKeeps == ASSUME ChatIInv, DhtEnds PROVE ChatIInv'
<1>0. /\ ChatTypeOK /\ SaveToCome /\ PromiseToCome /\ (phase = "closed" => owed = 0)
      /\ promised \subseteq Items(chat)
  BY DEF ChatIInv
<1>1. /\ phase # "closed" /\ job.on = "dht" /\ job' = NoJob
      /\ owed' = (IF owed > 0 THEN owed - 1 ELSE 0)
      /\ \/ dht' = job.copy /\ chatFails' = chatFails
         \/ dht' = dht /\ chatFails < ChatMaxFails /\ chatFails' = chatFails + 1
      /\ UNCHANGED <<chat, disk, scheduled, queued, phase, recorded, promised,
                     excused, chatActs>>
  BY DEF DhtEnds, SaveEnds
<1>2. job' \in [on : {"none", "disk", "dht"}, copy : Seq(ChatIds)] /\ job'.on = "none"
      /\ owed' \in Nat /\ chatFails' \in 0..ChatMaxFails /\ dht' \in Seq(ChatIds)
  BY <1>0, <1>1, ChatAssumption DEF ChatTypeOK, NoJob
<1>3. ChatTypeOK'
  BY <1>0, <1>1, <1>2 DEF ChatTypeOK
<1>4. Latest' = Latest /\ Latest = disk
  BY <1>1, <1>2 DEF Latest
<1>5. SaveToCome'
  BY <1>0, <1>1, <1>4 DEF SaveToCome, Items
<1>6. PromiseToCome'
  <2>1. owed \in Nat
    BY <1>0 DEF ChatTypeOK
  <2> QED BY <1>0, <1>1, <1>2, <1>4, <2>1 DEF PromiseToCome, Items
<1> QED BY <1>0, <1>1, <1>3, <1>5, <1>6 DEF ChatIInv, Items

\* close() begins to wait for the chain.
LEMMA CloseKeeps == ASSUME ChatIInv, CloseHistory PROVE ChatIInv'
<1>0. ChatTypeOK /\ SaveToCome
  BY DEF ChatIInv
<1>1. /\ phase = "open" /\ phase' = "closing" /\ owed' = InChain
      /\ promised' = recorded \cap Items(chat) /\ excused' = (excused \/ scheduled)
      /\ UNCHANGED <<chat, disk, dht, scheduled, queued, job, recorded, chatActs, chatFails>>
  BY DEF CloseHistory
<1>2. owed' \in Nat /\ promised' \subseteq ChatIds /\ excused' \in BOOLEAN
  BY <1>0, <1>1 DEF ChatTypeOK, InChain
<1>3. ChatTypeOK'
  BY <1>0, <1>1, <1>2 DEF ChatTypeOK
<1>4. Latest' = Latest
  BY <1>1 DEF Latest
<1>5. SaveToCome'
  BY <1>0, <1>1, <1>4 DEF SaveToCome, Items
<1>6. PromiseToCome'
  <2> SUFFICES ASSUME ~excused, ~scheduled
               PROVE  PromiseToCome'
    BY <1>1 DEF PromiseToCome
  <2>1. queued \in Nat /\ Items(disk') = Items(disk) /\ Items(job'.copy) = Items(job.copy)
        /\ Items(Latest') = Items(Latest)
    BY <1>0, <1>1, <1>4 DEF ChatTypeOK
  <2>2. CASE queued > 0
    <3>1. queued' > 0 /\ owed' > (IF job'.on = "none" THEN 0 ELSE 1)
      BY <1>1, <2>1, <2>2 DEF InChain
    <3> QED BY <3>1 DEF PromiseToCome
  <2>3. CASE ~(queued > 0)
    <3>1. promised' \subseteq Items(Latest')
      BY <1>0, <1>1, <2>1, <2>3 DEF SaveToCome
    <3>2. CASE job.on = "disk"
      <4>1. owed' > 0 /\ job'.on = "disk" /\ promised' \subseteq Items(job'.copy)
        BY <1>1, <2>1, <3>1, <3>2 DEF InChain, Latest
      <4> QED BY <4>1 DEF PromiseToCome
    <3>3. CASE job.on # "disk"
      <4>1. promised' \subseteq Items(disk')
        BY <1>1, <2>1, <3>1, <3>3 DEF Latest
      <4> QED BY <3>1, <4>1 DEF PromiseToCome, Items
    <3> QED BY <3>2, <3>3
  <2> QED BY <2>2, <2>3
<1> QED BY <1>1, <1>3, <1>5, <1>6 DEF ChatIInv, Items

\* close() returns when it waits for no save.
LEMMA ClosedKeeps == ASSUME ChatIInv, Closed PROVE ChatIInv'
<1>0. /\ ChatTypeOK /\ SaveToCome /\ PromiseToCome /\ promised \subseteq Items(chat)
  BY DEF ChatIInv
<1>1. /\ phase = "closing" /\ owed = 0 /\ phase' = "closed"
      /\ UNCHANGED <<chat, disk, dht, scheduled, queued, job, owed, recorded,
                     promised, excused, chatActs, chatFails>>
  BY DEF Closed
<1>2. ChatTypeOK'
  BY <1>0, <1>1 DEF ChatTypeOK
<1>3. SaveToCome' /\ PromiseToCome'
  BY <1>0, <1>1 DEF SaveToCome, PromiseToCome, Latest, Items
<1> QED BY <1>0, <1>1, <1>2, <1>3 DEF ChatIInv, Items

\* A start promises nothing yet.
LEMMA RestartKeeps == ASSUME ChatIInv, RestartHistory PROVE ChatIInv'
<1>0. ChatTypeOK
  BY DEF ChatIInv
<1>1. /\ chatActs < ChatMaxActs /\ chat' = Loaded(disk, dht) /\ scheduled' = FALSE
      /\ queued' = 0 /\ job' = NoJob /\ phase' = "open" /\ owed' = 0
      /\ recorded' = {} /\ promised' = {} /\ excused' = FALSE
      /\ chatActs' = chatActs + 1 /\ UNCHANGED <<disk, dht, chatFails>>
  BY DEF RestartHistory
<1>2. chat' \in Seq(ChatIds)
  BY <1>0, <1>1, LoadedKeeps DEF ChatTypeOK
<1>3. chatActs' \in 0..ChatMaxActs /\ job' \in [on : {"none", "disk", "dht"}, copy : Seq(ChatIds)]
  BY <1>0, <1>1, ChatAssumption DEF ChatTypeOK, NoJob
<1>4. ChatTypeOK'
  BY <1>0, <1>1, <1>2, <1>3 DEF ChatTypeOK
<1> QED BY <1>1, <1>4 DEF ChatIInv, SaveToCome, PromiseToCome

\* Every step keeps this so.
LEMMA ChatStep == ChatIInv /\ [ChatNext]_chatVars => ChatIInv'
<1> SUFFICES ASSUME ChatIInv, [ChatNext]_chatVars PROVE ChatIInv'
  OBVIOUS
<1>1. CASE UNCHANGED chatVars
  BY <1>1 DEF chatVars, ChatIInv, ChatTypeOK, SaveToCome, PromiseToCome, Latest, Items
<1>2. ASSUME NEW i \in ChatIds, RecordChatMessage(i) PROVE ChatIInv'
  BY <1>2, RecordKeeps
<1> QED BY <1>1, <1>2, ChainKeeps, BeginKeeps, WrittenKeeps, FailsKeeps, DhtKeeps,
           CloseKeeps, ClosedKeeps, RestartKeeps DEF ChatNext

\* What holds of the archive and its saves in every state they reach.
THEOREM ChatInvariant == ChatSpec => []ChatIInv
BY ChatInitially, ChatStep, PTL DEF ChatSpec

\* The archive, its copies and the chain of saves keep their types.
THEOREM ChatTypeCorrect == ChatSpec => []ChatTypeOK
<1>1. ChatIInv => ChatTypeOK
  BY DEF ChatIInv
<1> QED BY <1>1, ChatInvariant, PTL

\* close() returns when what was recorded before it is in local storage, unless a write
\* failed or a message was recorded in the same turn.
THEOREM CloseWaits == ChatSpec => []CloseWaitsForSaves
<1>1. ChatIInv => CloseWaitsForSaves
  BY DEF ChatIInv, ChatTypeOK, PromiseToCome, CloseWaitsForSaves
<1> QED BY <1>1, ChatInvariant, PTL
=============================================================================
