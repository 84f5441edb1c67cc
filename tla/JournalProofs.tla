---------------------------- MODULE JournalProofs ----------------------------
(***************************************************************************)
(* Proofs about Journal, for every set of documents, workers and amounts   *)
(* and every bound: reversals are whole and done once, a posted entry      *)
(* stays, a closed month is kept, the entries of a document add up to its  *)
(* amount or to nothing, and a closed year is at zero.                     *)
(*                                                                         *)
(* Every action is shown to be one of six steps of the journal (Step):     *)
(* a posting, a reversal, both, the two single reversals, a change of      *)
(* status, nothing.  What a step keeps is proved of any two journals; that *)
(* the actions are such steps needs only the types and what a request      *)
(* knows between its read and its write.                                   *)
(***************************************************************************)
EXTENDS Journal, Sums, FunctionTheorems, SequenceTheorems

---------------------------------------------------------------------------
(***************************************************************************)
(* Entries, and what the operations on the journal do to them.             *)
(***************************************************************************)

Type  == {"auto", "reversing", "closing", "manual"}
State == {"draft", "posted", "validated", "cancelled", "error"}

\* An entry is well formed.
Row == [d : Doc \union {"manual", "closing"}, type : Type, mv : [Account -> Int], m : Month,
        st : State, rev : BOOLEAN, of : Nat, shut : BOOLEAN, late : BOOLEAN, raced : BOOLEAN]

\* How an entry may change: its status, but not to or from posted; marks are set.
Kept(e, f) ==
    /\ f.d = e.d /\ f.type = e.type /\ f.mv = e.mv /\ f.m = e.m /\ f.of = e.of
    /\ f.shut = e.shut /\ f.late = e.late
    /\ f.st = "posted" <=> e.st = "posted"
    /\ e.rev => f.rev
    /\ e.raced => f.raced

\* A reversal by a request that has seen no mark on the entries it picks.
Mark(e)      == Marked(e, FALSE)
Turned(j, p) == Reversed(j, p, {})

\* Marks of other entries make no difference.
LEMMA SameTurn ==
  ASSUME NEW j, NEW p, NEW known, p \cap known = {}
  PROVE  Reversed(j, p, known) = Turned(j, p)
<1>1. \A i \in p : (i \in known) = (i \in {})
  OBVIOUS
<1> QED
  BY <1>1 DEF Turned, Reversed

\* Entries in order are ranked the other way round.
LEMMA RankFalls ==
  ASSUME NEW picks, IsFiniteSet(picks), picks \subseteq Nat,
         NEW i \in picks, NEW k \in picks, i < k
  PROVE  Rank(picks, k) < Rank(picks, i)
<1> DEFINE A == {x \in picks : x > i}
           B == {x \in picks : x > k}
<1>1. B \subseteq A /\ k \in A /\ k \notin B /\ A \subseteq picks
  <2>1. \A x \in picks : x \in Nat
    OBVIOUS
  <2>2. \A x \in picks : x > k => x > i
    BY <2>1
  <2>3. ~(k > k) /\ k > i
    BY <2>1
  <2> QED
    BY <2>2, <2>3
<1> HIDE DEF A, B
<1>2. IsFiniteSet(A) /\ IsFiniteSet(B)
  BY <1>1, FS_Subset
<1>3. Cardinality(B) <= Cardinality(A) /\ Cardinality(A) # Cardinality(B)
  BY <1>1, <1>2, FS_Subset
<1>4. Cardinality(A) \in Nat /\ Cardinality(B) \in Nat
  BY <1>2, FS_CardinalityType
<1> QED
  BY <1>3, <1>4 DEF Rank, A, B

\* Ranks number the entries from 1.
LEMMA Ranks ==
  ASSUME NEW picks, IsFiniteSet(picks), picks \subseteq Nat
  PROVE  /\ Cardinality(picks) \in Nat
         /\ \A i \in picks : Rank(picks, i) \in 1 .. Cardinality(picks)
         /\ \A i, k \in picks : Rank(picks, i) = Rank(picks, k) => i = k
         /\ \A n \in 1 .. Cardinality(picks) : \E i \in picks : Rank(picks, i) = n
<1> DEFINE c == Cardinality(picks)
           f == [i \in picks |-> Rank(picks, i)]
<1>1. c \in Nat
  BY FS_CardinalityType
<1>2. ASSUME NEW i \in picks PROVE Rank(picks, i) \in 1 .. c
  <2> DEFINE A == {x \in picks : x > i}
  <2>1. A \subseteq picks \ {i}
    OBVIOUS
  <2>2. IsFiniteSet(picks \ {i}) /\ Cardinality(picks \ {i}) = c - 1
    BY FS_RemoveElement
  <2> HIDE DEF A, c
  <2>3. IsFiniteSet(A) /\ Cardinality(A) <= c - 1
    BY <2>1, <2>2, FS_Subset
  <2>4. Cardinality(A) \in Nat
    BY <2>3, FS_CardinalityType
  <2> QED
    BY <1>1, <2>3, <2>4 DEF Rank, A
<1>3. ASSUME NEW i \in picks, NEW k \in picks, Rank(picks, i) = Rank(picks, k) PROVE i = k
  <2>1. /\ i < k => Rank(picks, k) < Rank(picks, i)
        /\ k < i => Rank(picks, i) < Rank(picks, k)
    BY RankFalls
  <2> QED
    BY <1>1, <1>2, <1>3, <2>1
<1>4. f \in Injection(picks, 1 .. c)
  <2>1. f \in [picks -> 1 .. c]
    BY <1>2
  <2>2. \A a, b \in picks : f[a] = f[b] => a = b
    BY <1>3
  <2> HIDE DEF f, c
  <2> QED
    BY <2>1, <2>2 DEF Injection, IsInjective
<1>5. IsFiniteSet(1 .. c) /\ Cardinality(1 .. c) = c
  BY <1>1, FS_Interval
<1>6. f \in Surjection(picks, 1 .. c)
  <2> HIDE DEF f
  <2> QED
    BY <1>4, <1>5, FS_Injection
<1>7. \A n \in 1 .. c : \E i \in picks : Rank(picks, i) = n
  BY <1>6 DEF Surjection
<1> QED
  BY <1>1, <1>2, <1>3, <1>7

\* The sides exchanged.
LEMMA NegatedType ==
  ASSUME NEW mv \in [Account -> Int]
  PROVE  Negated(mv) \in [Account -> Int] /\ \A x \in Account : Negated(mv)[x] = -mv[x]
BY DEF Negated

\* The mirror of an entry.
LEMMA MirrorRow ==
  ASSUME NEW e \in Row, NEW i \in Nat
  PROVE  /\ Mirror(e, i) \in Row
         /\ Mirror(e, i).d = e.d /\ Mirror(e, i).type = "reversing"
         /\ Mirror(e, i).mv = Negated(e.mv) /\ Mirror(e, i).m = Now
         /\ Mirror(e, i).st = "posted" /\ Mirror(e, i).of = i
         /\ Mirror(e, i).rev = FALSE /\ Mirror(e, i).raced = FALSE
         /\ Mirror(e, i).late = FALSE
<1> DEFINE b == Entry(e.d, "reversing", Negated(e.mv), Now, "posted", FALSE)
<1>1. e.d \in Doc \union {"manual", "closing"} /\ e.mv \in [Account -> Int]
  BY DEF Row
<1>2. Negated(e.mv) \in [Account -> Int]
  BY <1>1, NegatedType
<1>3. "reversing" \in Type /\ Now \in Month /\ "posted" \in State /\ FALSE \in BOOLEAN
  BY DEF Type, Month, State
<1>4. /\ b \in Row
      /\ b.d = e.d /\ b.type = "reversing" /\ b.mv = Negated(e.mv) /\ b.m = Now
      /\ b.st = "posted" /\ b.rev = FALSE /\ b.raced = FALSE /\ b.late = FALSE
  BY <1>1, <1>2, <1>3 DEF Entry, Row
<1>5. Mirror(e, i) = [b EXCEPT !.of = i]
  BY DEF Mirror
<1> HIDE DEF b
<1>6. [b EXCEPT !.of = i] \in Row
  BY <1>4 DEF Row
<1> QED
  BY <1>4, <1>5, <1>6 DEF Row

\* An entry with the mark of its reversal.
LEMMA MarkedRow ==
  ASSUME NEW e \in Row
  PROVE  /\ Mark(e) \in Row /\ Kept(e, Mark(e))
         /\ Mark(e).rev = TRUE /\ Mark(e).st = e.st
         /\ ~Mark(e).raced => ~e.raced /\ ~e.rev
<1> DEFINE f == Mark(e)
<1>1. /\ f.d = e.d /\ f.type = e.type /\ f.mv = e.mv /\ f.m = e.m /\ f.of = e.of
      /\ f.st = e.st
  BY DEF Mark, Marked, Row
<1>2. /\ f.shut = e.shut /\ f.late = e.late
      /\ f.rev = TRUE /\ f.raced = (e.raced \/ e.rev)
  BY DEF Mark, Marked, Row
<1>3. e.rev \in BOOLEAN /\ e.raced \in BOOLEAN
  BY DEF Row
<1>4. f \in Row
  BY <1>3 DEF Mark, Marked, Row
<1> HIDE DEF f
<1>5. Kept(e, f)
  BY <1>1, <1>2, <1>3 DEF Kept
<1> QED
  BY <1>1, <1>2, <1>3, <1>4, <1>5 DEF f

\* A reversal marks the entries it picks, leaves the others and appends one mirror for
\* each entry picked.
LEMMA ReversedFacts ==
  ASSUME NEW j \in Seq(Row), NEW picks \in SUBSET (DOMAIN j)
  PROVE  LET k == Turned(j, picks)
             n == Len(j)
             c == Cardinality(picks)
         IN  /\ k \in Seq(Row) /\ Len(k) = n + c /\ c \in Nat
             /\ \A i \in 1 .. n : k[i] = IF i \in picks THEN Mark(j[i]) ELSE j[i]
             /\ \A i \in n + 1 .. n + c : /\ k[i].of \in picks
                                          /\ k[i] = Mirror(j[k[i].of], k[i].of)
             /\ \A a, b \in n + 1 .. n + c : k[a].of = k[b].of => a = b
             /\ \A p \in picks : \E i \in n + 1 .. n + c : k[i].of = p
<1> DEFINE n == Len(j)
           c == Cardinality(picks)
           at(r) == Ranked(picks, r)
           k == Turned(j, picks)
<1>1. /\ n \in Nat /\ DOMAIN j = 1 .. n /\ picks \subseteq Nat
      /\ \A i \in 1 .. n : j[i] \in Row
  OBVIOUS
<1>2. IsFiniteSet(picks)
  <2>1. IsFiniteSet(1 .. n) /\ picks \in SUBSET (1 .. n)
    BY <1>1, FS_Interval
  <2> HIDE DEF n
  <2> QED
    BY <2>1, FS_Subset
<1>3. /\ c \in Nat
      /\ \A i \in picks : Rank(picks, i) \in 1 .. c
      /\ \A a, b \in picks : Rank(picks, a) = Rank(picks, b) => a = b
      /\ \A r \in 1 .. c : \E i \in picks : Rank(picks, i) = r
  BY <1>1, <1>2, Ranks
<1>4. k = [i \in 1 .. n + c |-> IF i > n THEN Mirror(j[at(i - n)], at(i - n))
                                ELSE IF i \in picks THEN Mark(j[i]) ELSE j[i]]
  <2>1. \A i : Marked(j[i], i \in {}) = Mark(j[i])
    <3>1. \A i : (i \in {}) = FALSE
      OBVIOUS
    <3> QED
      BY <3>1 DEF Mark
  <2>2. k = [i \in 1 .. n + c |-> IF i > n THEN Mirror(j[at(i - n)], at(i - n))
                                ELSE IF i \in picks THEN Marked(j[i], i \in {}) ELSE j[i]]
    BY DEF Turned, Reversed
  <2> QED
    BY <2>1, <2>2
<1>5. \A r \in 1 .. c : at(r) \in picks /\ Rank(picks, at(r)) = r
  BY <1>3 DEF Ranked
<1>6. \A i \in picks : at(Rank(picks, i)) = i
  BY <1>3, <1>5
<1> HIDE DEF n, c, at, k
<1>7. ASSUME NEW i \in n + 1 .. n + c
      PROVE  /\ i - n \in 1 .. c /\ at(i - n) \in picks /\ at(i - n) \in Nat
             /\ k[i] = Mirror(j[at(i - n)], at(i - n)) /\ k[i] \in Row /\ k[i].of = at(i - n)
  <2>1. i - n \in 1 .. c /\ i > n /\ i \in 1 .. n + c
    BY <1>1, <1>3
  <2>2. at(i - n) \in picks /\ at(i - n) \in 1 .. n
    BY <1>1, <1>5, <2>1
  <2>3. k[i] = Mirror(j[at(i - n)], at(i - n))
    BY <1>4, <2>1
  <2>4. j[at(i - n)] \in Row /\ at(i - n) \in Nat
    BY <1>1, <2>2
  <2>5. Mirror(j[at(i - n)], at(i - n)) \in Row
        /\ Mirror(j[at(i - n)], at(i - n)).of = at(i - n)
    BY <2>4, MirrorRow
  <2> QED
    BY <2>1, <2>2, <2>3, <2>4, <2>5
<1>8. ASSUME NEW i \in 1 .. n
      PROVE  k[i] = (IF i \in picks THEN Mark(j[i]) ELSE j[i]) /\ k[i] \in Row
  <2>1. ~(i > n) /\ i \in 1 .. n + c
    BY <1>1, <1>3
  <2>2. k[i] = IF i \in picks THEN Mark(j[i]) ELSE j[i]
    BY <1>4, <2>1
  <2>3. j[i] \in Row /\ Mark(j[i]) \in Row
    BY <1>1, MarkedRow
  <2> QED
    BY <2>2, <2>3
<1>9. k \in Seq(Row) /\ Len(k) = n + c
  <2>1. \A i \in 1 .. n + c : i \in 1 .. n \/ i \in n + 1 .. n + c
    BY <1>1, <1>3
  <2>2. \A i \in 1 .. n + c : k[i] \in Row
    BY <1>7, <1>8, <2>1
  <2>3. n + c \in Nat /\ DOMAIN k = 1 .. n + c /\ k = [i \in 1 .. n + c |-> k[i]]
    BY <1>1, <1>3, <1>4
  <2>4. k \in [1 .. n + c -> Row]
    BY <2>2, <2>3
  <2> QED
    BY <2>3, <2>4, SeqDef, LenProperties
<1>10. ASSUME NEW a \in n + 1 .. n + c, NEW b \in n + 1 .. n + c, k[a].of = k[b].of
       PROVE  a = b
  <2>1. at(a - n) = at(b - n)
    BY <1>7, <1>10
  <2>2. a - n = b - n
    BY <1>5, <1>7, <2>1
  <2> QED
    BY <1>1, <1>3, <2>2
<1>11. ASSUME NEW p \in picks PROVE \E i \in n + 1 .. n + c : k[i].of = p
  <2>1. Rank(picks, p) \in 1 .. c /\ at(Rank(picks, p)) = p
    BY <1>3, <1>6
  <2>2. PICK i \in n + 1 .. n + c : i - n = Rank(picks, p)
    <3>1. n + Rank(picks, p) \in n + 1 .. n + c /\ (n + Rank(picks, p)) - n = Rank(picks, p)
      BY <1>1, <1>3, <2>1
    <3> QED
      BY <3>1
  <2> QED
    BY <1>7, <2>1, <2>2
<1>12. \A i \in n + 1 .. n + c : k[i].of \in picks /\ k[i] = Mirror(j[k[i].of], k[i].of)
  BY <1>7
<1>13. \A i \in 1 .. n : k[i] = IF i \in picks THEN Mark(j[i]) ELSE j[i]
  BY <1>8
<1>14. \A a, b \in n + 1 .. n + c : k[a].of = k[b].of => a = b
  BY <1>10
<1>15. \A p \in picks : \E i \in n + 1 .. n + c : k[i].of = p
  BY <1>11
<1> QED
  BY <1>3, <1>9, <1>12, <1>13, <1>14, <1>15 DEF n, c, k

\* A journal that went on: entries are added, and the old ones kept.
Grows(j, k) == Len(j) <= Len(k) /\ \A i \in 1 .. Len(j) : Kept(j[i], k[i])

\* The mirror reverse_entry_advanced makes, and the journal it leaves.
LooseMirror(e, i, late) == [Mirror(e, i) EXCEPT !.d = "manual", !.late = late]
Advanced(j, i, late)    == Append([j EXCEPT ![i] = Mark(@)], LooseMirror(j[i], i, late))

\* The journal after a change of status.
WithStatus(j, i, s, b) == [j EXCEPT ![i].st = s, ![i].raced = @ \/ b]

\* An entry keeps itself, and what is kept twice is kept.
LEMMA KeptOrder ==
  /\ \A e : Kept(e, e)
  /\ \A e, f, g : Kept(e, f) /\ Kept(f, g) => Kept(e, g)
BY DEF Kept

\* The same for journals.
LEMMA GrowsOrder ==
  /\ \A j \in Seq(Row) : Grows(j, j)
  /\ \A j, k, l \in Seq(Row) : Grows(j, k) /\ Grows(k, l) => Grows(j, l)
<1>1. ASSUME NEW j \in Seq(Row) PROVE Grows(j, j)
  BY KeptOrder DEF Grows
<1>2. ASSUME NEW j \in Seq(Row), NEW k \in Seq(Row), NEW l \in Seq(Row),
             Grows(j, k), Grows(k, l)
      PROVE  Grows(j, l)
  <2>1. Len(j) \in Nat /\ Len(k) \in Nat /\ Len(l) \in Nat
    OBVIOUS
  <2>2. Len(j) <= Len(l) /\ \A i \in 1 .. Len(j) : i \in 1 .. Len(k)
    BY <1>2, <2>1 DEF Grows
  <2>3. \A i \in 1 .. Len(j) : Kept(j[i], l[i])
    BY <1>2, <2>2, KeptOrder DEF Grows
  <2> QED
    BY <2>2, <2>3 DEF Grows
<1> QED
  BY <1>1, <1>2

\* One entry more.
LEMMA AppendFacts ==
  ASSUME NEW j \in Seq(Row), NEW e \in Row
  PROVE  /\ Append(j, e) \in Seq(Row) /\ Len(Append(j, e)) = Len(j) + 1
         /\ \A i \in 1 .. Len(j) : Append(j, e)[i] = j[i]
         /\ Append(j, e)[Len(j) + 1] = e
         /\ Grows(j, Append(j, e))
<1>1. /\ Append(j, e) \in Seq(Row) /\ Len(Append(j, e)) = Len(j) + 1 /\ Len(j) \in Nat
      /\ \A i \in 1 .. Len(j) : Append(j, e)[i] = j[i]
      /\ Append(j, e)[Len(j) + 1] = e
  OBVIOUS
<1>2. Grows(j, Append(j, e))
  BY <1>1, KeptOrder DEF Grows
<1> QED
  BY <1>1, <1>2

\* A reversal keeps the entries.
LEMMA ReversedGrows ==
  ASSUME NEW j \in Seq(Row), NEW picks \in SUBSET (DOMAIN j)
  PROVE  Turned(j, picks) \in Seq(Row) /\ Grows(j, Turned(j, picks))
<1> DEFINE k == Turned(j, picks)
<1>1. /\ k \in Seq(Row) /\ Len(k) = Len(j) + Cardinality(picks) /\ Cardinality(picks) \in Nat
      /\ \A i \in 1 .. Len(j) : k[i] = IF i \in picks THEN Mark(j[i]) ELSE j[i]
  BY ReversedFacts
<1>2. \A i \in 1 .. Len(j) : j[i] \in Row
  OBVIOUS
<1> HIDE DEF k
<1>3. \A i \in 1 .. Len(j) : Kept(j[i], k[i])
  BY <1>1, <1>2, MarkedRow, KeptOrder
<1>4. Len(j) <= Len(k)
  BY <1>1
<1> QED
  BY <1>1, <1>3, <1>4 DEF Grows, k

\* The mirror of reverse_entry_advanced.
LEMMA LooseMirrorRow ==
  ASSUME NEW e \in Row, NEW i \in Nat, NEW late \in BOOLEAN
  PROVE  LET f == LooseMirror(e, i, late) IN
         /\ f \in Row /\ f.d = "manual" /\ f.type = "reversing" /\ f.mv = Negated(e.mv)
         /\ f.m = Now /\ f.st = "posted" /\ f.of = i /\ f.rev = FALSE /\ f.raced = FALSE
<1> DEFINE b == Mirror(e, i)
<1>1. /\ b \in Row /\ b.mv = Negated(e.mv) /\ b.m = Now /\ b.st = "posted" /\ b.of = i
      /\ b.rev = FALSE /\ b.raced = FALSE /\ b.type = "reversing"
  BY MirrorRow
<1> HIDE DEF b
<1>2. LET f == [b EXCEPT !.d = "manual", !.late = late] IN
         /\ f \in Row /\ f.d = "manual" /\ f.type = b.type /\ f.mv = b.mv
         /\ f.m = b.m /\ f.st = b.st /\ f.of = b.of /\ f.rev = b.rev /\ f.raced = b.raced
  <2> DEFINE f == [b EXCEPT !.d = "manual", !.late = late]
  <2>1. /\ f.d = "manual" /\ f.type = b.type /\ f.mv = b.mv /\ f.m = b.m /\ f.st = b.st
        /\ f.of = b.of
    BY <1>1 DEF Row
  <2>2. f.rev = b.rev /\ f.raced = b.raced
    BY <1>1 DEF Row
  <2>3. f \in Row
    BY <1>1 DEF Row
  <2> QED
    BY <2>1, <2>2, <2>3
<1> QED
  BY <1>1, <1>2 DEF LooseMirror, b

\* The same, one field after another.
LEMMA LooseMirrorFields ==
  /\ \A e \in Row, i \in Nat, late \in BOOLEAN : LooseMirror(e, i, late) \in Row
  /\ \A e \in Row, i \in Nat, late \in BOOLEAN : LooseMirror(e, i, late).d = "manual"
  /\ \A e \in Row, i \in Nat, late \in BOOLEAN : LooseMirror(e, i, late).type = "reversing"
  /\ \A e \in Row, i \in Nat, late \in BOOLEAN : LooseMirror(e, i, late).of = i
  /\ \A e \in Row, i \in Nat, late \in BOOLEAN : ~LooseMirror(e, i, late).rev
  /\ \A e \in Row, i \in Nat, late \in BOOLEAN : LooseMirror(e, i, late).mv = Negated(e.mv)
<1>1. \A e \in Row, i \in Nat, late \in BOOLEAN : LooseMirror(e, i, late) \in Row
  BY LooseMirrorRow, ZenonT(60)
<1>2. \A e \in Row, i \in Nat, late \in BOOLEAN : LooseMirror(e, i, late).d = "manual"
  BY LooseMirrorRow, ZenonT(60)
<1>3. \A e \in Row, i \in Nat, late \in BOOLEAN : LooseMirror(e, i, late).type = "reversing"
  BY LooseMirrorRow, ZenonT(60)
<1>4. \A e \in Row, i \in Nat, late \in BOOLEAN : LooseMirror(e, i, late).of = i
  BY LooseMirrorRow, ZenonT(60)
<1>5. \A e \in Row, i \in Nat, late \in BOOLEAN : ~LooseMirror(e, i, late).rev
  BY LooseMirrorRow, ZenonT(60)
<1>6. \A e \in Row, i \in Nat, late \in BOOLEAN : LooseMirror(e, i, late).mv = Negated(e.mv)
  BY LooseMirrorRow, ZenonT(60)
<1> QED
  BY <1>1, <1>2, <1>3, <1>4, <1>5, <1>6

\* What reverse_entry_advanced leaves.
LEMMA AdvancedFacts ==
  ASSUME NEW j \in Seq(Row), NEW i \in 1 .. Len(j), NEW late \in BOOLEAN,
         NEW k, k = Advanced(j, i, late)
  PROVE  /\ k \in Seq(Row) /\ Len(k) = Len(j) + 1 /\ Grows(j, k)
         /\ \A a \in 1 .. Len(j) : k[a] = IF a = i THEN Mark(j[i]) ELSE j[a]
         /\ k[Len(j) + 1].d = "manual" /\ k[Len(j) + 1].type = "reversing"
         /\ k[Len(j) + 1].of = i /\ ~k[Len(j) + 1].rev
         /\ k[Len(j) + 1].mv = Negated(j[i].mv)
<1> DEFINE n == Len(j)
           h == [j EXCEPT ![i] = Mark(@)]
           e == LooseMirror(j[i], i, late)
<1>1. n \in Nat /\ j[i] \in Row /\ i \in Nat /\ DOMAIN j = 1 .. n
      /\ \A a \in 1 .. n : j[a] \in Row
  OBVIOUS
<1>2. Mark(j[i]) \in Row /\ Kept(j[i], Mark(j[i]))
  BY <1>1, MarkedRow
<1>8. k = Append(h, e)
  BY DEF Advanced
<1> HIDE DEF e
<1>7. /\ e \in Row /\ e.d = "manual" /\ e.type = "reversing" /\ e.of = i /\ ~e.rev
      /\ e.mv = Negated(j[i].mv)
  BY <1>1, LooseMirrorFields DEF e
<1>3. /\ h \in Seq(Row) /\ Len(h) = n
      /\ \A a \in 1 .. n : h[a] = IF a = i THEN Mark(j[i]) ELSE j[a]
  BY <1>1, <1>2
<1> HIDE DEF h
<1>4. /\ k \in Seq(Row) /\ Len(k) = n + 1 /\ k[n + 1] = e
      /\ \A a \in 1 .. n : k[a] = h[a]
  BY <1>3, <1>7, <1>8, AppendFacts
<1>5. \A a \in 1 .. n : Kept(j[a], k[a])
  BY <1>2, <1>3, <1>4, KeptOrder
<1>6. Grows(j, k)
  BY <1>1, <1>4, <1>5 DEF Grows
<1> QED
  BY <1>3, <1>4, <1>6, <1>7

\* A change of status that keeps posted entries posted and the others not.
LEMMA StatusFacts ==
  ASSUME NEW j \in Seq(Row), NEW i \in 1 .. Len(j), NEW s \in State, NEW b \in BOOLEAN,
         s # "posted", j[i].st # "posted"
  PROVE  LET k == WithStatus(j, i, s, b) IN
         /\ k \in Seq(Row) /\ Len(k) = Len(j) /\ Grows(j, k)
         /\ \A a \in 1 .. Len(j) : k[a].rev = j[a].rev
<1> DEFINE n == Len(j)
           e == j[i]
           f == [e EXCEPT !.st = s, !.raced = @ \/ b]
           k == WithStatus(j, i, s, b)
<1>1. n \in Nat /\ e \in Row /\ DOMAIN j = 1 .. n /\ \A a \in 1 .. n : j[a] \in Row
  OBVIOUS
<1>2. k = [j EXCEPT ![i] = f]
  BY <1>1 DEF WithStatus
<1> HIDE DEF e, k
<1>3. /\ f.d = e.d /\ f.type = e.type /\ f.mv = e.mv /\ f.m = e.m /\ f.of = e.of /\ f.st = s
  BY <1>1 DEF Row
<1>4. e.raced \in BOOLEAN /\ f.shut = e.shut /\ f.late = e.late /\ f.rev = e.rev
      /\ f.raced = (e.raced \/ b)
  BY <1>1 DEF Row
<1>5. f \in Row
  BY <1>1, <1>4 DEF Row
<1> HIDE DEF f
<1>6. Kept(e, f)
  BY <1>3, <1>4 DEF Kept, e
<1>7. /\ k \in Seq(Row) /\ Len(k) = n
      /\ \A a \in 1 .. n : k[a] = IF a = i THEN f ELSE j[a]
  BY <1>1, <1>2, <1>5
<1>8. \A a \in 1 .. n : Kept(j[a], k[a]) /\ k[a].rev = j[a].rev
  BY <1>4, <1>6, <1>7, KeptOrder DEF e
<1>9. Grows(j, k)
  BY <1>1, <1>7, <1>8 DEF Grows
<1> QED
  BY <1>7, <1>8, <1>9 DEF k

---------------------------------------------------------------------------
(***************************************************************************)
(* Types: the journal, the documents, the months, and what a request knows *)
(* while it is served.                                                     *)
(***************************************************************************)

\* Every field of a document.
Document == [kind : Kind \union {"none"}, st : {"none", "live", "paid", "cancelled"}, amt : Nat,
             on : Month, cancels : Nat, paid : BOOLEAN, edited : BOOLEAN, clerk : BOOLEAN,
             raced : BOOLEAN]

\* A document that is in a state is of a kind.
Known(D) == D \in [Doc -> Document] /\ \A d \in Doc : D[d].st # "none" => D[d].kind \in Kind

\* The month a request posts into was open when it looked, and still is unless it was
\* closed again since.
GoodMonth(r, c, g) == /\ r.m \in Month /\ r.gen \in Nat /\ r.gen <= g[r.m]
                      /\ r.m \in c => r.gen < g[r.m]

\* A new document.
GoodPost(r, c, g) == /\ r.d \in Doc /\ r.kind \in Kind /\ r.a \in Amounts
                     /\ GoodMonth(r, c, g)

\* A manual entry.
GoodManual(r, c, g) == r.m = Now /\ r.pl \in [Account -> Int] /\ GoodMonth(r, c, g)

\* A document that was loaded is there, of the kind it had.
GoodOnDoc(r, D, j) == /\ r.d \in Doc /\ D[r.d].st # "none" /\ r.kind = D[r.d].kind
                      /\ r.seen \in SUBSET {i \in DOMAIN j : j[i].d = r.d}
                      /\ r.marks \in SUBSET {i \in DOMAIN j : j[i].rev}
                      /\ r.seen \cap r.marks = {}
                      /\ r.m = Now
                      /\ r.op = "edit" => r.a \in Amounts
                      /\ r.op = "pay" => r.kind = "fee"

\* An entry that was loaded is there; it is posted if and only if it was.
GoodOnEntry(r, j) == /\ r.i \in DOMAIN j
                     /\ r.st = "posted" <=> j[r.i].st = "posted"
                     /\ r.m = Now

OnDoc   == {"cancel", "edit", "pay"}
OnEntry == {"reverse", "advanced", "approve", "delete"}

Fields == {"pc", "op", "d", "i", "kind", "m", "st", "seen", "marks", "pl", "gen", "a"}

Good(r, D, j, c, g) ==
    /\ DOMAIN r = Fields
    /\ r.pc = "read" => /\ r.op = "post" => GoodPost(r, c, g)
                        /\ r.op = "manual" => GoodManual(r, c, g)
                        /\ r.op = "year" => r.pl \in [Account -> Int]
    /\ r.pc \in {"read", "checked"} => /\ r.op \in OnDoc => GoodOnDoc(r, D, j)
                                       /\ r.op \in OnEntry => GoodOnEntry(r, j)
    /\ r.pc = "checked" => r.op \in OnDoc \union OnEntry /\ GoodMonth(r, c, g)

Requests(q, D, j, c, g) == /\ q = [w \in Worker |-> q[w]]
                           /\ \A w \in Worker : Good(q[w], D, j, c, g)

Months(c, g) == c \in SUBSET Month /\ g \in [Month -> Nat]

Types == /\ journal \in Seq(Row)
         /\ Known(doc)
         /\ Months(closed, closings)
         /\ Requests(req, doc, journal, closed, closings)

\* Documents stay what they are, and time goes on.
DocsStand(D, E) == \A d \in Doc : D[d].st # "none" => E[d].st # "none" /\ E[d].kind = D[d].kind

Later(c, g, c2, g2) == \A m \in Month : /\ g[m] <= g2[m]
                                        /\ m \in c2 => m \in c \/ g[m] < g2[m]

\* What a request knows stays true while others are served.
LEMMA GoodStays ==
  ASSUME NEW r, NEW D, NEW E, NEW j \in Seq(Row), NEW k \in Seq(Row),
         NEW c, NEW g, NEW c2, NEW g2,
         Good(r, D, j, c, g), Months(c, g), Months(c2, g2),
         DocsStand(D, E), Grows(j, k), Later(c, g, c2, g2)
  PROVE  Good(r, E, k, c2, g2)
<1>1. DOMAIN j \subseteq DOMAIN k /\ \A i \in DOMAIN j : Kept(j[i], k[i])
  <2>1. DOMAIN j = 1 .. Len(j) /\ DOMAIN k = 1 .. Len(k) /\ Len(j) \in Nat /\ Len(k) \in Nat
    OBVIOUS
  <2> QED
    BY <2>1 DEF Grows
<1>2. /\ GoodMonth(r, c, g) => GoodMonth(r, c2, g2)
      /\ GoodPost(r, c, g) => GoodPost(r, c2, g2)
      /\ GoodManual(r, c, g) => GoodManual(r, c2, g2)
  BY DEF GoodMonth, GoodPost, GoodManual, Months, Later
<1>3. GoodOnDoc(r, D, j) => GoodOnDoc(r, E, k)
  BY <1>1 DEF GoodOnDoc, DocsStand, Kept
<1>4. GoodOnEntry(r, j) => GoodOnEntry(r, k)
  BY <1>1 DEF GoodOnEntry, Kept
<1> QED
  BY <1>2, <1>3, <1>4 DEF Good

\* A request that is answered leaves its worker idle; the others go on.
LEMMA RequestsStay ==
  ASSUME NEW D, NEW E, NEW j \in Seq(Row), NEW k \in Seq(Row),
         NEW c, NEW g, NEW c2, NEW g2, NEW q, NEW q2,
         Requests(q, D, j, c, g), Months(c, g), Months(c2, g2),
         DocsStand(D, E), Grows(j, k), Later(c, g, c2, g2),
         q2 = q \/ \E w \in Worker : q2 = [q EXCEPT ![w] = NoRead]
  PROVE  Requests(q2, E, k, c2, g2)
<1>1. \A w \in Worker : Good(q[w], E, k, c2, g2)
  BY GoodStays DEF Requests
<1>2. Good(NoRead, E, k, c2, g2)
  BY DEF Good, NoRead, Fields
<1>3. CASE q2 = q
  BY <1>1, <1>3 DEF Requests
<1>4. ASSUME NEW w \in Worker, q2 = [q EXCEPT ![w] = NoRead]
      PROVE  Requests(q2, E, k, c2, g2)
  <2>1. /\ q2 = [v \in Worker |-> q2[v]]
        /\ \A v \in Worker : q2[v] = q[v] \/ q2[v] = NoRead
    BY <1>4 DEF Requests
  <2> QED
    BY <1>1, <1>2, <2>1 DEF Requests
<1> QED
  BY <1>3, <1>4

\* A new request is served beside the others.
LEMMA RequestBegins ==
  ASSUME NEW D, NEW j, NEW c, NEW g, NEW q, NEW w \in Worker, NEW r,
         Requests(q, D, j, c, g), Good(r, D, j, c, g)
  PROVE  Requests([q EXCEPT ![w] = r], D, j, c, g)
BY DEF Requests

\* Nothing changes, or only the months do.
LEMMA Unmoved ==
  /\ \A D : DocsStand(D, D)
  /\ \A c, g : Months(c, g) => Later(c, g, c, g)
BY DEF DocsStand, Months, Later

---------------------------------------------------------------------------
(***************************************************************************)
(* What one step does to the journal, and that it keeps the types.         *)
(***************************************************************************)

\* A new entry in a closed month is a reversal, a closing entry, or late.
Lawful(e) == e.shut => e.type \in {"reversing", "closing"} \/ e.late

Fresh == {e \in Row : e.of = 0 /\ ~e.rev /\ Lawful(e)}

\* A closing entry is posted in the year; unless an entry slipped in, it takes the balances
\* of the year off.
Closes(j, e) == e.type = "closing" =>
    /\ e.st = "posted" /\ e.m = Year
    /\ ~e.raced => \A x \in {"revenue", "expense"} : e.mv[x] = -Abs(Balance(j, x, {Year}))

\* A posting, a reversal, both at once, the reversal of one entry outside its document, a
\* change of status of an entry that is not posted and does not become so, or nothing.
Step(j, k) ==
    \/ k = j
    \/ \E e \in Fresh : Closes(j, e) /\ k = Append(j, e)
    \/ \E p \in SUBSET (DOMAIN j) : k = Turned(j, p)
    \/ \E p \in SUBSET (DOMAIN j) : \E e \in Fresh :
          e.type # "closing" /\ k = Append(Turned(j, p), e)
    \/ \E i \in DOMAIN j, late \in BOOLEAN : k = Advanced(j, i, late)
    \/ \E i \in DOMAIN j, s \in State \ {"posted"}, b \in BOOLEAN :
          j[i].st # "posted" /\ k = WithStatus(j, i, s, b)

\* A step keeps the entries.
LEMMA StepGrows ==
  ASSUME NEW j \in Seq(Row), NEW k, Step(j, k)
  PROVE  k \in Seq(Row) /\ Grows(j, k)
<1>0. DOMAIN j = 1 .. Len(j) /\ Fresh \subseteq Row
  BY DEF Fresh
<1>1. CASE k = j
  BY <1>1, GrowsOrder
<1>2. CASE \E e \in Fresh : k = Append(j, e)
  BY <1>0, <1>2, AppendFacts
<1>3. CASE \E p \in SUBSET (DOMAIN j) : k = Turned(j, p)
  BY <1>3, ReversedGrows
<1>4. CASE \E p \in SUBSET (DOMAIN j) : \E e \in Fresh : k = Append(Turned(j, p), e)
  <2>1. PICK p \in SUBSET (DOMAIN j) : \E e \in Fresh : k = Append(Turned(j, p), e)
    BY <1>4
  <2>2. PICK e \in Fresh : k = Append(Turned(j, p), e)
    BY <2>1
  <2>3. PICK l \in Seq(Row) : l = Turned(j, p) /\ Grows(j, l)
    BY ReversedGrows
  <2>4. k \in Seq(Row) /\ Grows(l, k)
    BY <1>0, <2>2, <2>3, AppendFacts
  <2> QED
    BY <2>3, <2>4, GrowsOrder
<1>5. CASE \E i \in DOMAIN j, late \in BOOLEAN : k = Advanced(j, i, late)
  BY <1>0, <1>5, AdvancedFacts
<1>6. CASE \E i \in DOMAIN j, s \in State \ {"posted"}, b \in BOOLEAN :
             j[i].st # "posted" /\ k = WithStatus(j, i, s, b)
  BY <1>0, <1>6, StatusFacts
<1> QED
  BY <1>1, <1>2, <1>3, <1>4, <1>5, <1>6 DEF Step

\* A step of the journal, of the documents and of the months keeps the types.
LEMMA StepTypes ==
  ASSUME Types, Step(journal, journal'), Known(doc'), DocsStand(doc, doc'),
         Months(closed', closings'), Later(closed, closings, closed', closings'),
         req' = req \/ \E w \in Worker : req' = [req EXCEPT ![w] = NoRead]
  PROVE  Types'
<1>1. journal' \in Seq(Row) /\ Grows(journal, journal')
  BY StepGrows DEF Types
<1>2. Requests(req', doc', journal', closed', closings')
  BY <1>1, RequestsStay DEF Types
<1> QED
  BY <1>1, <1>2 DEF Types

\* The moves of a posting.
LEMMA MovesType ==
  ASSUME NEW x \in Account, NEW a \in Int
  PROVE  /\ Moves(x, a) \in [Account -> Int]
         /\ Moves(x, a)[x] = a /\ \A y \in Account \ {x} : Moves(x, a)[y] = 0
BY DEF Moves

\* The account and the amount of a document.
LEMMA SignedType ==
  ASSUME NEW k \in Kind, NEW a \in Nat
  PROVE  /\ AccountOf(k) \in Account
         /\ Signed(k, a) \in Int
         /\ Moves(AccountOf(k), Signed(k, a)) \in [Account -> Int]
<1>1. AccountOf(k) \in Account
  BY DEF AccountOf, Account, Kind
<1>2. Signed(k, a) \in Int
  BY DEF Signed
<1> QED
  BY <1>1, <1>2, MovesType

\* An entry made now is fresh if the month is open, or late.
LEMMA EntryFresh ==
  ASSUME NEW d \in Doc \union {"manual", "closing"}, NEW type \in Type,
         NEW mv \in [Account -> Int], NEW m \in Month, NEW st \in State, NEW late \in BOOLEAN,
         m \in closed => late
  PROVE  Entry(d, type, mv, m, st, late) \in Fresh
<1> DEFINE e == Entry(d, type, mv, m, st, late)
<1>1. e \in Row /\ e.of = 0 /\ e.rev = FALSE
  BY DEF Entry, Row
<1>2. e.late = late /\ e.shut = (m \in closed)
  BY DEF Entry, Row
<1> HIDE DEF e
<1> QED
  BY <1>1, <1>2 DEF Fresh, Lawful, e

\* An entry for a month that was closed since it was looked up is late.
LEMMA LateIs ==
  ASSUME Types, NEW w \in Worker, GoodMonth(req[w], closed, closings)
  PROVE  Late(w) \in BOOLEAN /\ (req[w].m \in closed => Late(w))
BY DEF Late, GoodMonth, Types, Months

\* A new document and its entry.
LEMMA PostStep ==
  ASSUME Types, NEW w \in Worker, Post(w)
  PROVE  Step(journal, journal') /\ Known(doc') /\ DocsStand(doc, doc')
<1> DEFINE r == req[w]
           e == Entry(r.d, "auto", Moves(AccountOf(r.kind), Signed(r.kind, r.a)), r.m, "posted",
                      Late(w))
           x == [NoDoc EXCEPT !.kind = r.kind, !.st = "live", !.amt = r.a, !.on = r.m]
<1>1. GoodPost(r, closed, closings) /\ doc[r.d].st = "none"
  BY DEF Types, Requests, Good, Post, Serves
<1>2. /\ r.d \in Doc /\ r.kind \in Kind /\ r.a \in Nat /\ r.m \in Month
      /\ Late(w) \in BOOLEAN /\ (r.m \in closed => Late(w))
  <2>1. r.d \in Doc /\ r.kind \in Kind /\ r.a \in Amounts /\ GoodMonth(r, closed, closings)
    BY <1>1 DEF GoodPost
  <2> QED
    BY <2>1, LateIs, JournalAssumption DEF GoodMonth
<1>3. e \in Fresh /\ e.type # "closing"
  <2>1. e \in Fresh
    BY <1>2, SignedType, EntryFresh DEF Type, State
  <2>2. e.type = "auto"
    BY DEF Entry
  <2> QED
    BY <2>1, <2>2
<1>4. journal' = Append(journal, e) /\ doc' = [doc EXCEPT ![r.d] = x]
  BY DEF Post
<1>5. x \in Document /\ x.kind \in Kind
  BY <1>2 DEF NoDoc, Document, Month, Now
<1> HIDE DEF r, e, x
<1>6. Step(journal, journal')
  BY <1>3, <1>4 DEF Step, Closes
<1>7. Known(doc') /\ DocsStand(doc, doc')
  BY <1>1, <1>4, <1>5 DEF Types, Known, DocsStand
<1> QED
  BY <1>6, <1>7

\* The entries a cancellation or an edit picks are in the journal, and it has seen no mark
\* on them.
LEMMA PickedEntries ==
  ASSUME Types, NEW w \in Worker, GoodOnDoc(req[w], doc, journal)
  PROVE  \A p \in Picked(w) :
            /\ p \in SUBSET (DOMAIN journal)
            /\ Reversed(journal, p, req[w].marks) = Turned(journal, p)
<1> SUFFICES ASSUME NEW p \in Picked(w)
             PROVE  /\ p \in SUBSET (DOMAIN journal)
                    /\ Reversed(journal, p, req[w].marks) = Turned(journal, p)
  OBVIOUS
<1>1. p = LiveOf(req[w].d) \/ p = req[w].seen
  BY DEF Picked
<1>2. p \in SUBSET (DOMAIN journal)
  BY <1>1 DEF LiveOf, Entries, GoodOnDoc
<1>3. p \cap req[w].marks = {}
  BY <1>1 DEF LiveOf, Entries, GoodOnDoc
<1> QED
  BY <1>2, <1>3, SameTurn

\* A document keeps its kind.
LEMMA DocKept ==
  ASSUME Known(doc), NEW d \in Doc, doc[d].st # "none",
         NEW x \in Document, x.kind = doc[d].kind, x.st # "none",
         doc' = [doc EXCEPT ![d] = x]
  PROVE  Known(doc') /\ DocsStand(doc, doc')
BY DEF Known, DocsStand

\* The cancellation of a document.
LEMMA CancelStep ==
  ASSUME Types, NEW w \in Worker, Cancel(w)
  PROVE  Step(journal, journal') /\ Known(doc') /\ DocsStand(doc, doc')
<1> DEFINE r == req[w]
           y == doc[r.d]
           x == [y EXCEPT !.st = IF r.kind = "expense" THEN @ ELSE "cancelled",
                          !.cancels = @ + 1,
                          !.raced = @ \/ doc[r.d].st # r.st \/ r.seen # LiveOf(r.d)]
<1>1. GoodOnDoc(r, doc, journal)
  BY DEF Types, Requests, Good, Cancel, Serves, OnDoc
<1>2. y \in Document /\ r.d \in Doc /\ y.st # "none" /\ r.kind = y.kind
  BY <1>1 DEF GoodOnDoc, Types, Known
<1>3. PICK p \in Picked(w) :
        journal' = IF Reverses(r.kind, r.st) THEN Turned(journal, p) ELSE journal
  BY <1>1, PickedEntries DEF Cancel
<1>4. p \in SUBSET (DOMAIN journal)
  BY <1>1, PickedEntries
<1>5. doc' = [doc EXCEPT ![r.d] = x]
  BY <1>2 DEF Cancel, Types, Known
<1>6. x \in Document /\ x.kind = y.kind /\ x.st # "none"
  <2>1. PICK t \in BOOLEAN : t = (y.raced \/ doc[r.d].st # r.st \/ r.seen # LiveOf(r.d))
    OBVIOUS
  <2>2. PICK s \in {"live", "paid", "cancelled"} :
          s = IF r.kind = "expense" THEN y.st ELSE "cancelled"
    BY <1>2 DEF Document
  <2>3. PICK n \in Nat : n = y.cancels + 1
    BY <1>2 DEF Document
  <2>4. x = [y EXCEPT !.st = s, !.cancels = n, !.raced = t]
    BY <1>2, <2>1, <2>2, <2>3
  <2> HIDE DEF x
  <2>5. x.kind = y.kind /\ x.st = s
    BY <1>2, <2>4 DEF Document
  <2>6. x \in Document
    BY <1>2, <2>4 DEF Document
  <2> QED
    BY <2>5, <2>6
<1>7. Step(journal, journal')
  BY <1>3, <1>4 DEF Step
<1> HIDE DEF r, x
<1>8. Known(doc') /\ DocsStand(doc, doc')
  BY <1>2, <1>5, <1>6, DocKept DEF Types
<1> QED
  BY <1>7, <1>8

\* The edit of an expense.
LEMMA EditStep ==
  ASSUME Types, NEW w \in Worker, EditExpense(w)
  PROVE  Step(journal, journal') /\ Known(doc') /\ DocsStand(doc, doc')
<1> DEFINE r == req[w]
           y == doc[r.d]
           x == [y EXCEPT !.amt = r.a, !.edited = TRUE,
                          !.raced = @ \/ r.seen # LiveOf(r.d)]
           e == Entry(r.d, "auto", Moves("expense", r.a), Now, "posted", Late(w))
<1>1. /\ GoodOnDoc(r, doc, journal) /\ r.op = "edit"
      /\ Late(w) \in BOOLEAN /\ (Now \in closed => Late(w))
  <2>1. GoodOnDoc(r, doc, journal) /\ r.op = "edit" /\ GoodMonth(r, closed, closings)
    BY DEF Types, Requests, Good, EditExpense, Posts, OnDoc
  <2>2. r.m = Now
    BY <2>1 DEF GoodOnDoc
  <2> QED
    BY <2>1, <2>2, LateIs
<1>2. y \in Document /\ r.d \in Doc /\ y.st # "none" /\ r.a \in Nat
  BY <1>1, JournalAssumption DEF GoodOnDoc, Types, Known
<1>3. PICK p \in Picked(w) : journal' = Append(Turned(journal, p), e)
  BY <1>1, PickedEntries DEF EditExpense
<1>4. p \in SUBSET (DOMAIN journal)
  BY <1>1, PickedEntries
<1>5. e \in Fresh /\ e.type # "closing"
  <2>1. Moves("expense", r.a) \in [Account -> Int]
    BY <1>2, MovesType DEF Account
  <2>2. e \in Fresh
    BY <1>1, <1>2, <2>1, EntryFresh DEF Type, State, Month
  <2>3. e.type = "auto"
    BY DEF Entry
  <2> QED
    BY <2>2, <2>3
<1>6. doc' = [doc EXCEPT ![r.d] = x]
  BY <1>2 DEF EditExpense, Types, Known
<1>7. x \in Document /\ x.kind = y.kind /\ x.st # "none"
  BY <1>2 DEF Document
<1> HIDE DEF r, x, e
<1>8. Step(journal, journal')
  BY <1>3, <1>4, <1>5 DEF Step
<1>9. Known(doc') /\ DocsStand(doc, doc')
  BY <1>2, <1>6, <1>7, DocKept DEF Types
<1> QED
  BY <1>8, <1>9

\* The payment of a fee.
LEMMA PayStep ==
  ASSUME Types, NEW w \in Worker, PayFee(w)
  PROVE  Step(journal, journal') /\ Known(doc') /\ DocsStand(doc, doc')
<1> DEFINE r == req[w]
           y == doc[r.d]
           x == [y EXCEPT !.st = "paid", !.paid = TRUE,
                          !.raced = @ \/ doc[r.d].st # r.st]
           e == Entry(r.d, "auto", Moves("balance", y.amt), Now, "posted", Late(w))
<1>1. GoodOnDoc(r, doc, journal) /\ Late(w) \in BOOLEAN /\ (Now \in closed => Late(w))
  <2>1. GoodOnDoc(r, doc, journal) /\ GoodMonth(r, closed, closings)
    BY DEF Types, Requests, Good, PayFee, Posts, OnDoc
  <2>2. r.m = Now
    BY <2>1 DEF GoodOnDoc
  <2> QED
    BY <2>1, <2>2, LateIs
<1>2. y \in Document /\ r.d \in Doc /\ y.st # "none" /\ y.amt \in Nat
  BY <1>1 DEF GoodOnDoc, Types, Known, Document
<1>3. e \in Fresh /\ e.type # "closing"
  <2>1. Moves("balance", y.amt) \in [Account -> Int]
    BY <1>2, MovesType DEF Account
  <2>2. e \in Fresh
    BY <1>1, <1>2, <2>1, EntryFresh DEF Type, State, Month
  <2>3. e.type = "auto"
    BY DEF Entry
  <2> QED
    BY <2>2, <2>3
<1>4. journal' = Append(journal, e) /\ doc' = [doc EXCEPT ![r.d] = x]
  BY <1>2 DEF PayFee, Types, Known
<1>5. x \in Document /\ x.kind = y.kind /\ x.st # "none"
  BY <1>2 DEF Document
<1> HIDE DEF r, x, e
<1>6. Step(journal, journal')
  BY <1>3, <1>4 DEF Step, Closes
<1>7. Known(doc') /\ DocsStand(doc, doc')
  BY <1>2, <1>4, <1>5, DocKept DEF Types
<1> QED
  BY <1>6, <1>7

\* The mark of a document whose entry was reversed by hand.
LEMMA ClerkDoc ==
  ASSUME Types, NEW i \in Entries, MarkClerk(i)
  PROVE  Known(doc') /\ DocsStand(doc, doc')
<1> DEFINE d == journal[i].d
<1>1. CASE d \in Doc
  <2> DEFINE x == [doc[d] EXCEPT !.clerk = TRUE]
  <2>1. doc' = [doc EXCEPT ![d] = x] /\ doc[d] \in Document
    BY <1>1 DEF MarkClerk, Types, Known
  <2>2. x \in Document /\ x.kind = doc[d].kind /\ x.st = doc[d].st
    BY <2>1 DEF Document
  <2> HIDE DEF x, d
  <2> QED
    BY <1>1, <2>1, <2>2 DEF Types, Known, DocsStand
<1>2. CASE d \notin Doc
  BY <1>2, Unmoved DEF MarkClerk, Types
<1> QED
  BY <1>1, <1>2

\* What reverse_entry_advanced does.
LEMMA AdvancedIs ==
  ASSUME NEW w \in Worker, ReverseAdvanced(w), req[w].i \notin req[w].marks
  PROVE  journal' = Advanced(journal, req[w].i, Late(w))
<1>1. \A e : Marked(e, req[w].i \in req[w].marks) = Mark(e)
  <2>1. (req[w].i \in req[w].marks) = FALSE
    OBVIOUS
  <2> QED
    BY <2>1 DEF Mark
<1> QED
  BY <1>1 DEF ReverseAdvanced, Advanced, LooseMirror

\* The two reversals of single entries.
LEMMA OneStep ==
  ASSUME Types, NEW w \in Worker, ReverseEntry(w) \/ ReverseAdvanced(w)
  PROVE  Step(journal, journal') /\ Known(doc') /\ DocsStand(doc, doc')
<1> DEFINE i == req[w].i
<1>1. GoodOnEntry(req[w], journal) /\ i \notin req[w].marks
  BY DEF Types, Requests, Good, ReverseEntry, ReverseAdvanced, Serves, Posts, OnEntry, MayReverse
<1>2. i \in Entries /\ MarkClerk(i)
  BY <1>1 DEF GoodOnEntry, Entries, ReverseEntry, ReverseAdvanced
<1>3. Known(doc') /\ DocsStand(doc, doc')
  BY <1>2, ClerkDoc
<1>4. CASE ReverseEntry(w)
  <2>1. journal' = Turned(journal, {i}) /\ {i} \in SUBSET (DOMAIN journal)
    BY <1>1, <1>2, <1>4, SameTurn DEF ReverseEntry, Entries
  <2> HIDE DEF i
  <2> QED
    BY <1>3, <2>1 DEF Step
<1>5. CASE ReverseAdvanced(w)
  <2>1. /\ journal' = Advanced(journal, i, Late(w)) /\ i \in DOMAIN journal
        /\ Late(w) \in BOOLEAN
    BY <1>1, <1>2, <1>5, AdvancedIs DEF Entries, Late
  <2> HIDE DEF i
  <2> QED
    BY <1>3, <2>1 DEF Step
<1> QED
  BY <1>4, <1>5

\* A change of status.
LEMMA StatusStep ==
  ASSUME Types, NEW w \in Worker, Approve(w) \/ DeleteEntry(w)
  PROVE  Step(journal, journal') /\ doc' = doc
<1> DEFINE i == req[w].i
           b == journal[i].st # req[w].st
<1>1. GoodOnEntry(req[w], journal)
  BY DEF Types, Requests, Good, Approve, DeleteEntry, Serves, OnEntry
<1>2. i \in DOMAIN journal /\ journal[i].st # "posted"
  BY <1>1 DEF GoodOnEntry, Approve, DeleteEntry, MayDelete
<1>3. PICK s \in State \ {"posted"} : SetStatus(w, s)
  BY DEF Approve, DeleteEntry, State
<1>4. journal' = WithStatus(journal, i, s, b) /\ doc' = doc /\ b \in BOOLEAN
  BY <1>3 DEF SetStatus, WithStatus
<1> HIDE DEF i, b
<1> QED
  BY <1>2, <1>3, <1>4 DEF Step

\* A manual entry.
LEMMA ManualStep ==
  ASSUME Types, NEW w \in Worker, CreateManual(w)
  PROVE  Step(journal, journal') /\ doc' = doc
<1> DEFINE e == Entry("manual", "manual", req[w].pl, Now, "draft", Late(w))
<1>1. /\ req[w].pl \in [Account -> Int]
      /\ Late(w) \in BOOLEAN /\ (Now \in closed => Late(w))
  <2>1. GoodManual(req[w], closed, closings)
    BY DEF Types, Requests, Good, CreateManual, Serves
  <2> QED
    BY <2>1, LateIs DEF GoodManual
<1>2. e \in Fresh /\ e.type # "closing"
  <2>1. e \in Fresh
    BY <1>1, EntryFresh DEF Type, State, Month
  <2>2. e.type = "manual"
    BY DEF Entry
  <2> QED
    BY <2>1, <2>2
<1>3. journal' = Append(journal, e) /\ doc' = doc
  BY DEF CreateManual
<1> HIDE DEF e
<1> QED
  BY <1>2, <1>3 DEF Step, Closes

\* The closing entry, and the closing of the year.
ClosingEntry(pl) ==
    [Entry("closing", "closing", ClosingMoves(pl), Year, "posted", FALSE) EXCEPT
        !.raced = \E x \in {"revenue", "expense"} : Balance(journal, x, {Year}) # pl[x]]

\* The moves of a closing entry.
LEMMA ClosingMovesType ==
  ASSUME NEW pl \in [Account -> Int]
  PROVE  /\ ClosingMoves(pl) \in [Account -> Int]
         /\ \A x \in {"revenue", "expense"} : ClosingMoves(pl)[x] = -Abs(pl[x])
<1>1. \A x \in Account : Abs(pl[x]) \in Int
  BY DEF Abs
<1>2. "revenue" \in Account /\ "expense" \in Account /\ "balance" \in Account
  BY DEF Account
<1> QED
  BY <1>1, <1>2 DEF ClosingMoves

\* A closing entry is an entry.
LEMMA ClosingRow ==
  ASSUME NEW pl \in [Account -> Int]
  PROVE  LET e == ClosingEntry(pl) IN
         /\ e \in Fresh /\ e.type = "closing" /\ e.d = "closing" /\ e.m = Year
         /\ e.st = "posted" /\ e.mv = ClosingMoves(pl) /\ e.of = 0 /\ e.rev = FALSE
         /\ Closes(journal, e)
<1> DEFINE b == Entry("closing", "closing", ClosingMoves(pl), Year, "posted", FALSE)
           t == \E x \in {"revenue", "expense"} : Balance(journal, x, {Year}) # pl[x]
           e == [b EXCEPT !.raced = t]
<1>1. /\ b \in Row /\ b.d = "closing" /\ b.type = "closing" /\ b.mv = ClosingMoves(pl)
      /\ b.m = Year /\ b.st = "posted" /\ b.of = 0 /\ b.rev = FALSE /\ b.late = FALSE
  <2>1. ClosingMoves(pl) \in [Account -> Int] /\ FALSE \in BOOLEAN
        /\ "closing" \in Type /\ Year \in Month /\ "posted" \in State
    BY ClosingMovesType DEF Type, Month, State
  <2> QED
    BY <2>1 DEF Entry, Row
<1>2. t \in BOOLEAN /\ ClosingEntry(pl) = e
  BY DEF ClosingEntry
<1> HIDE DEF b, t
<1>3. /\ e.d = "closing" /\ e.type = "closing" /\ e.mv = ClosingMoves(pl)
      /\ e.m = Year /\ e.st = "posted" /\ e.of = 0
  BY <1>1 DEF Row
<1>4. e.rev = FALSE /\ e.raced = t
  BY <1>1 DEF Row
<1>5. e \in Row
  BY <1>1, <1>2 DEF Row
<1> HIDE DEF e
<1>6. e \in Fresh
  BY <1>3, <1>4, <1>5 DEF Fresh, Lawful
<1>7. Closes(journal, e)
  <2>1. ~e.raced => \A x \in {"revenue", "expense"} : Balance(journal, x, {Year}) = pl[x]
    BY <1>4 DEF t
  <2>2. \A x \in {"revenue", "expense"} : e.mv[x] = -Abs(pl[x])
    BY <1>3, ClosingMovesType
  <2> QED
    BY <1>3, <2>1, <2>2 DEF Closes
<1> QED
  BY <1>2, <1>3, <1>4, <1>6, <1>7

\* The closing of the year.
LEMMA YearStep ==
  ASSUME Types, NEW w \in Worker, CloseYear(w)
  PROVE  /\ Step(journal, journal') /\ Months(closed', closings')
         /\ Later(closed, closings, closed', closings')
<1>1. req[w].pl \in [Account -> Int]
  BY DEF Types, Requests, Good, CloseYear, Serves
<1>2. PICK e \in Fresh : e = ClosingEntry(req[w].pl) /\ Closes(journal, e)
  BY <1>1, ClosingRow
<1>3. journal' = Append(journal, e)
  BY <1>2 DEF CloseYear, ClosingEntry
<1>4. Step(journal, journal')
  BY <1>2, <1>3 DEF Step
<1>5. Months(closed', closings') /\ Later(closed, closings, closed', closings')
  BY DEF CloseYear, Types, Months, Later, Month, Year, Now
<1> QED
  BY <1>4, <1>5

\* A balance is a number.
LEMMA BalanceType ==
  ASSUME NEW j \in Seq(Row), NEW x \in Account, NEW ms
  PROVE  Balance(j, x, ms) \in Int
<1> DEFINE S == {i \in DOMAIN j : j[i].st = "posted" /\ j[i].m \in ms}
           f == Moved(j, x)
<1>1. DOMAIN j = 1 .. Len(j) /\ Len(j) \in Nat /\ \A i \in DOMAIN j : j[i] \in Row
  OBVIOUS
<1>2. IsFiniteSet(S)
  <2>1. IsFiniteSet(DOMAIN j) /\ S \in SUBSET (DOMAIN j)
    BY <1>1, FS_Interval
  <2> HIDE DEF S
  <2> QED
    BY <2>1, FS_Subset
<1>3. \A i \in S : f[i] \in Int
  BY <1>1 DEF Moved, Row
<1> HIDE DEF S, f
<1>4. SumFunctionOnSet(f, S) \in Int
  BY <1>2, <1>3, SumType
<1> QED
  BY <1>4 DEF Balance, S, f

\* The types hold at the start.
LEMMA TypesInit ==
  ASSUME Init PROVE Types
<1>1. journal \in Seq(Row)
  BY DEF Init
<1>2. Known(doc)
  BY DEF Init, Known, Document, NoDoc, Month, Now
<1>3. Months(closed, closings)
  BY DEF Init, Months
<1>4. Requests(req, doc, journal, closed, closings)
  <2>1. Good(NoRead, doc, journal, closed, closings)
    BY DEF Good, NoRead, Fields
  <2> QED
    BY <2>1 DEF Init, Requests
<1> QED
  BY <1>1, <1>2, <1>3, <1>4 DEF Types

\* A request that begins with what it may know keeps the types.
LEMMA BeginTypes ==
  ASSUME Types, NEW w \in Worker, NEW r, Begin(w, r), Good(r, doc, journal, closed, closings)
  PROVE  Types' /\ UNCHANGED <<doc, journal, closed, closings>>
<1>1. /\ req' = [req EXCEPT ![w] = r]
      /\ doc' = doc /\ journal' = journal /\ closed' = closed /\ closings' = closings
  BY DEF Begin
<1>2. Requests(req', doc, journal, closed, closings)
  BY <1>1, RequestBegins DEF Types
<1> QED
  BY <1>1, <1>2 DEF Types

\* What every request knows when it begins.
LEMMA AskTypes ==
  ASSUME Types, NEW w \in Worker, Ask(w)
  PROVE  Types' /\ UNCHANGED <<doc, journal, closed, closings>>
<1>1. ASSUME NEW d \in Doc, NEW k \in Kind, NEW a \in Amounts, NEW m \in Month,
             BeginPost(w, d, k, a, m)
      PROVE  Types' /\ UNCHANGED <<doc, journal, closed, closings>>
  <2>1. PICK r : /\ r = [Asked("post") EXCEPT !.d = d, !.kind = k, !.m = m, !.a = a,
                                              !.gen = closings[m]]
                 /\ Begin(w, r)
    BY <1>1 DEF BeginPost
  <2>2. /\ r.op = "post" /\ r.d = d /\ r.kind = k /\ r.m = m /\ r.a = a
        /\ r.gen = closings[m] /\ r.pc = "read" /\ DOMAIN r = Fields
    BY <2>1 DEF Asked, NoRead, Fields
  <2>3. closings[m] \in Nat /\ m \notin closed
    BY <1>1 DEF Types, Months, BeginPost, PeriodOpen
  <2>4. GoodPost(r, closed, closings)
    BY <2>2, <2>3 DEF GoodPost, GoodMonth
  <2> QED
    BY <2>1, <2>2, <2>4, BeginTypes DEF Good, OnDoc, OnEntry
<1>2. ASSUME NEW d \in Doc, NEW op \in OnDoc, NEW a, BeginOn(w, op, d, a),
             op = "edit" => a \in Amounts
      PROVE  Types' /\ UNCHANGED <<doc, journal, closed, closings>>
  <2>1. PICK r : /\ r = [Asked(op) EXCEPT !.d = d, !.kind = doc[d].kind, !.st = doc[d].st,
                                          !.a = a, !.seen = LiveOf(d), !.marks = MarkedOf(d)]
                 /\ Begin(w, r)
    BY <1>2 DEF BeginOn
  <2>2. /\ r.op = op /\ r.d = d /\ r.kind = doc[d].kind /\ r.a = a /\ r.pc = "read"
        /\ r.seen = LiveOf(d) /\ r.marks = MarkedOf(d) /\ r.m = Now /\ DOMAIN r = Fields
    BY <2>1 DEF Asked, NoRead, Fields
  <2>3. /\ LiveOf(d) \in SUBSET {i \in DOMAIN journal : journal[i].d = d}
        /\ MarkedOf(d) \in SUBSET {i \in DOMAIN journal : journal[i].rev}
        /\ LiveOf(d) \cap MarkedOf(d) = {}
    BY DEF LiveOf, MarkedOf, Entries
  <2>4. GoodOnDoc(r, doc, journal)
    BY <1>2, <2>2, <2>3 DEF GoodOnDoc, BeginOn
  <2>5. Good(r, doc, journal, closed, closings)
    BY <2>2, <2>4 DEF Good, OnDoc, OnEntry
  <2> QED
    BY <2>1, <2>5, BeginTypes
<1>3. ASSUME NEW i \in Entries, NEW op \in OnEntry, BeginEntry(w, op, i)
      PROVE  Types' /\ UNCHANGED <<doc, journal, closed, closings>>
  <2>1. PICK r : /\ r = [Asked(op) EXCEPT !.i = i, !.st = journal[i].st,
                                          !.marks = IF journal[i].rev THEN {i} ELSE {}]
                 /\ Begin(w, r)
    BY <1>3 DEF BeginEntry
  <2>2. r.op = op /\ r.i = i /\ r.st = journal[i].st /\ r.pc = "read" /\ r.m = Now /\ DOMAIN r = Fields
    BY <2>1 DEF Asked, NoRead, Fields
  <2>3. Good(r, doc, journal, closed, closings)
    BY <2>2 DEF Good, GoodOnEntry, OnDoc, OnEntry, Entries
  <2> QED
    BY <2>1, <2>3, BeginTypes
<1>4. ASSUME BeginYear(w)
      PROVE  Types' /\ UNCHANGED <<doc, journal, closed, closings>>
  <2>1. PICK r : /\ r = [Asked("year") EXCEPT !.m = Year,
                            !.pl = [x \in Account |-> Balance(journal, x, {Year})]]
                 /\ Begin(w, r)
    BY <1>4 DEF BeginYear
  <2>2. /\ r.op = "year" /\ r.pl = [x \in Account |-> Balance(journal, x, {Year})]
        /\ r.pc = "read" /\ DOMAIN r = Fields
    BY <2>1 DEF Asked, NoRead, Fields
  <2>3. r.pl \in [Account -> Int]
    BY <2>2, BalanceType DEF Types
  <2>4. Good(r, doc, journal, closed, closings)
    BY <2>2, <2>3 DEF Good, OnDoc, OnEntry
  <2> QED
    BY <2>1, <2>4, BeginTypes
<1>5. ASSUME NEW x \in {"revenue", "expense"}, NEW a \in Amounts, BeginManual(w, x, a)
      PROVE  Types' /\ UNCHANGED <<doc, journal, closed, closings>>
  <2>1. PICK r : /\ r = [Asked("manual") EXCEPT !.pl = Moves(x, a), !.gen = closings[Now]]
                 /\ Begin(w, r)
    BY <1>5 DEF BeginManual
  <2>2. /\ r.op = "manual" /\ r.pl = Moves(x, a) /\ r.gen = closings[Now] /\ r.m = Now
        /\ r.pc = "read" /\ DOMAIN r = Fields
    BY <2>1 DEF Asked, NoRead, Fields
  <2>3. closings[Now] \in Nat /\ Now \notin closed /\ Now \in Month
    BY <1>5 DEF Types, Months, BeginManual, PeriodOpen, Month
  <2>4. Moves(x, a) \in [Account -> Int]
    BY MovesType, JournalAssumption DEF Account
  <2>5. GoodManual(r, closed, closings)
    BY <2>2, <2>3, <2>4 DEF GoodManual, GoodMonth
  <2> QED
    BY <2>1, <2>2, <2>5, BeginTypes DEF Good, OnDoc, OnEntry
<1> QED
  BY <1>1, <1>2, <1>3, <1>4, <1>5 DEF Ask, OnDoc, OnEntry

\* A request that has found the month open.
LEMMA CheckTypes ==
  ASSUME Types, NEW w \in Worker, CheckMonth(w)
  PROVE  Types' /\ UNCHANGED <<doc, journal, closed, closings>>
<1> DEFINE q == [req[w] EXCEPT !.pc = "checked", !.gen = closings[Now]]
<1>1. PICK op \in {"edit", "pay", "advanced"} : Serves(w, op)
  BY DEF CheckMonth
<1>2. /\ req' = [req EXCEPT ![w] = q]
      /\ doc' = doc /\ journal' = journal /\ closed' = closed /\ closings' = closings
  BY DEF CheckMonth
<1>3. /\ Good(req[w], doc, journal, closed, closings)
      /\ closings[Now] \in Nat /\ Now \notin closed /\ Now \in Month
  BY DEF CheckMonth, Types, Requests, Months, Month, PeriodOpen
<1>4. DOMAIN req[w] = Fields
  BY <1>3 DEF Good
<1>5. /\ q.pc = "checked" /\ q.gen = closings[Now] /\ DOMAIN q = Fields
      /\ q.op = req[w].op /\ q.d = req[w].d /\ q.kind = req[w].kind /\ q.a = req[w].a
      /\ q.i = req[w].i /\ q.st = req[w].st /\ q.m = req[w].m
      /\ q.seen = req[w].seen /\ q.marks = req[w].marks
  BY <1>4 DEF Fields
<1> HIDE DEF q
<1>6. /\ req[w].op \in OnDoc \union OnEntry
      /\ req[w].op \in OnDoc => GoodOnDoc(req[w], doc, journal)
      /\ req[w].op \in OnEntry => GoodOnEntry(req[w], journal)
  BY <1>1, <1>3 DEF Good, Serves, OnDoc, OnEntry
<1>7. /\ q.op \in OnDoc => GoodOnDoc(q, doc, journal)
      /\ q.op \in OnEntry => GoodOnEntry(q, journal)
      /\ q.m = Now
  BY <1>5, <1>6 DEF GoodOnDoc, GoodOnEntry
<1>8. GoodMonth(q, closed, closings)
  BY <1>3, <1>5, <1>7 DEF GoodMonth
<1>9. Good(q, doc, journal, closed, closings)
  BY <1>5, <1>6, <1>7, <1>8 DEF Good
<1>10. Requests(req', doc, journal, closed, closings)
  BY <1>2, <1>9, RequestBegins DEF Types
<1> QED
  BY <1>2, <1>10 DEF Types

\* Every step of the ledger is a step of the journal and keeps the types.
LEMMA NextTypes ==
  ASSUME Types, Next
  PROVE  Types' /\ Step(journal, journal')
<1>1. ASSUME NEW w \in Worker, Ask(w)
      PROVE  Types' /\ Step(journal, journal')
  BY <1>1, AskTypes DEF Step
<1>2. ASSUME NEW w \in Worker, Answer(w), Step(journal, journal'), Known(doc'), DocsStand(doc, doc')
      PROVE  Types'
  <2>1. closed' = closed /\ closings' = closings /\ req' = [req EXCEPT ![w] = NoRead]
    BY <1>2 DEF Answer
  <2>2. Months(closed', closings') /\ Later(closed, closings, closed', closings')
    BY <2>1, Unmoved DEF Types
  <2> QED
    BY <1>2, <2>1, <2>2, StepTypes
<1>3. ASSUME NEW w \in Worker, Write(w)
      PROVE  Types' /\ Step(journal, journal')
  <2>1. CASE Post(w)
    BY <1>2, <2>1, PostStep DEF Post
  <2>2. CASE Cancel(w)
    BY <1>2, <2>2, CancelStep DEF Cancel
  <2>3. CASE EditExpense(w)
    BY <1>2, <2>3, EditStep DEF EditExpense
  <2>4. CASE PayFee(w)
    BY <1>2, <2>4, PayStep DEF PayFee
  <2>5. CASE ReverseEntry(w) \/ ReverseAdvanced(w)
    BY <1>2, <2>5, OneStep DEF ReverseEntry, ReverseAdvanced
  <2>6. CASE Approve(w) \/ DeleteEntry(w)
    <3>1. Step(journal, journal') /\ doc' = doc /\ Answer(w)
      BY <2>6, StatusStep DEF Approve, DeleteEntry, SetStatus
    <3>2. Known(doc') /\ DocsStand(doc, doc')
      BY <3>1, Unmoved DEF Types
    <3> QED
      BY <1>2, <3>1, <3>2
  <2>8. CASE CreateManual(w)
    <3>1. Step(journal, journal') /\ doc' = doc /\ Answer(w)
      BY <2>8, ManualStep DEF CreateManual
    <3>2. Known(doc') /\ DocsStand(doc, doc')
      BY <3>1, Unmoved DEF Types
    <3> QED
      BY <1>2, <3>1, <3>2
  <2>7. CASE CloseYear(w)
    <3>1. /\ Step(journal, journal') /\ Months(closed', closings')
          /\ Later(closed, closings, closed', closings')
      BY <2>7, YearStep
    <3>2. doc' = doc /\ req' = [req EXCEPT ![w] = NoRead]
      BY <2>7 DEF CloseYear
    <3>3. Known(doc') /\ DocsStand(doc, doc')
      BY <3>2, Unmoved DEF Types
    <3> QED
      BY <3>1, <3>2, <3>3, StepTypes
  <2> QED
    BY <1>3, <2>1, <2>2, <2>3, <2>4, <2>5, <2>6, <2>7, <2>8 DEF Write
<1>4. ASSUME NEW w \in Worker, GiveUp(w)
      PROVE  Types' /\ Step(journal, journal')
  <2>1. Answer(w) /\ journal' = journal /\ doc' = doc
    BY <1>4 DEF GiveUp
  <2>2. Step(journal, journal') /\ Known(doc') /\ DocsStand(doc, doc')
    BY <2>1, Unmoved DEF Step, Types
  <2> QED
    BY <1>2, <2>1, <2>2
<1>5. ASSUME NEW w \in Worker, CheckMonth(w)
      PROVE  Types' /\ Step(journal, journal')
  BY <1>5, CheckTypes DEF Step
<1>6. ASSUME NEW m \in Month, ClosePeriod(m) \/ OpenPeriod(m)
      PROVE  Types' /\ Step(journal, journal')
  <2>1. doc' = doc /\ req' = req /\ journal' = journal
    BY <1>6 DEF ClosePeriod, OpenPeriod
  <2>2. Months(closed', closings') /\ Later(closed, closings, closed', closings')
    <3>1. closed \in SUBSET Month /\ closings \in [Month -> Nat]
      BY DEF Types, Months
    <3>2. closed' \in SUBSET Month /\ closings' \in [Month -> Nat]
      BY <1>6, <3>1 DEF ClosePeriod, OpenPeriod
    <3>3. Later(closed, closings, closed', closings')
      BY <1>6, <3>1 DEF ClosePeriod, OpenPeriod, Later
    <3> QED
      BY <3>2, <3>3 DEF Months
  <2>3. Step(journal, journal') /\ Known(doc') /\ DocsStand(doc, doc')
    BY <2>1, Unmoved DEF Types, Step
  <2> QED
    BY <2>1, <2>2, <2>3, StepTypes
<1>7. CASE Done
  BY <1>7 DEF Done, vars, Types, Step
<1> QED
  BY <1>1, <1>3, <1>4, <1>5, <1>6, <1>7 DEF Next, Serve

\* The types hold for ever.
THEOREM LedgerTypes == Spec => []Types
<1>1. Init => Types
  BY TypesInit
<1>2. Types /\ [Next]_vars => Types'
  <2>1. ASSUME Types, UNCHANGED vars PROVE Types'
    BY <2>1 DEF vars, Types
  <2> QED
    BY <2>1, NextTypes
<1> QED
  BY <1>1, <1>2, PTL DEF Spec

---------------------------------------------------------------------------
(***************************************************************************)
(* Mirrors, closed months, posted entries.                                 *)
(***************************************************************************)

\* A mirror is the mirror of an entry marked reversed, its sides exchanged.
Mirrors(j, m) ==
    LET i == j[m].of IN i # 0 => i \in DOMAIN j /\ j[i].rev /\ j[m].mv = Negated(j[i].mv)

\* An entry marked reversed has a mirror.
Mirrored(j, i) == j[i].rev => \E m \in DOMAIN j : j[m].of = i

\* An entry has one mirror, unless two reversed it at the same time.
OneMirror(j, m, n) ==
    LET i == j[m].of IN i # 0 /\ j[n].of = i /\ ~j[i].raced => m = n

Paired(j) == /\ \A m \in DOMAIN j : Mirrors(j, m) /\ Mirrored(j, m)
             /\ \A m, n \in DOMAIN j : OneMirror(j, m, n)

\* The entries in p, and no others, are marked reversed, and the new entries that are
\* mirrors are those of the entries in p.
PairsUp(j, k, p) ==
    /\ p \in SUBSET (DOMAIN j)
    /\ \A i \in DOMAIN j : k[i].rev => j[i].rev \/ i \in p
    /\ \A i \in p : k[i].rev /\ (j[i].rev => k[i].raced)
    /\ \A m \in DOMAIN k \ DOMAIN j :
          /\ ~k[m].rev
          /\ k[m].of = 0 \/ (k[m].of \in p /\ k[m].mv = Negated(j[k[m].of].mv))
    /\ \A m, n \in DOMAIN k \ DOMAIN j : k[m].of # 0 /\ k[m].of = k[n].of => m = n
    /\ \A i \in p : \E m \in DOMAIN k \ DOMAIN j : k[m].of = i

\* A journal that pairs up its new entries is paired if the old one was.
LEMMA PairedGrows ==
  ASSUME NEW j \in Seq(Row), Paired(j), NEW k \in Seq(Row), Grows(j, k),
         NEW p, PairsUp(j, k, p)
  PROVE  Paired(k)
<1> USE DEF PairsUp
<1>1. /\ DOMAIN j = 1 .. Len(j) /\ DOMAIN k = 1 .. Len(k) /\ Len(j) \in Nat /\ Len(k) \in Nat
      /\ DOMAIN j \subseteq DOMAIN k /\ 0 \notin DOMAIN j
      /\ \A i \in DOMAIN j : Kept(j[i], k[i])
  <2>1. DOMAIN j = 1 .. Len(j) /\ DOMAIN k = 1 .. Len(k) /\ Len(j) \in Nat /\ Len(k) \in Nat
    OBVIOUS
  <2> QED
    BY <2>1 DEF Grows
<1>2. \A i \in DOMAIN j : /\ k[i].of = j[i].of /\ k[i].mv = j[i].mv
                          /\ j[i].rev => k[i].rev
                          /\ j[i].raced => k[i].raced
  BY <1>1 DEF Kept
<1>3. ASSUME NEW m \in DOMAIN k PROVE Mirrors(k, m)
  <2>1. CASE m \in DOMAIN j
    BY <1>1, <1>2, <2>1 DEF Paired, Mirrors
  <2>2. CASE m \notin DOMAIN j
    BY <1>1, <1>2, <2>2 DEF Mirrors
  <2> QED
    BY <2>1, <2>2
<1>4. ASSUME NEW i \in DOMAIN k PROVE Mirrored(k, i)
  <2>1. CASE i \in DOMAIN j /\ j[i].rev
    BY <1>1, <1>2, <2>1 DEF Paired, Mirrored
  <2>2. CASE i \in p
    BY <2>2 DEF Mirrored
  <2>3. CASE i \notin DOMAIN j
    BY <2>3 DEF Mirrored
  <2> QED
    BY <2>1, <2>2, <2>3 DEF Mirrored
<1>5. ASSUME NEW m \in DOMAIN k, NEW n \in DOMAIN k,
             k[m].of # 0, k[n].of = k[m].of, ~k[k[m].of].raced
      PROVE  m = n
  <2> DEFINE i == k[m].of
  <2>1. CASE m \in DOMAIN j /\ n \in DOMAIN j
    <3>1. i = j[m].of /\ i = j[n].of /\ i \in DOMAIN j /\ ~j[i].raced
      BY <1>2, <1>5, <2>1 DEF Paired, Mirrors
    <3> QED
      BY <1>5, <2>1, <3>1 DEF Paired, OneMirror
  <2>2. CASE m \notin DOMAIN j /\ n \notin DOMAIN j
    BY <1>5, <2>2
  <2>3. ASSUME NEW a \in DOMAIN j, NEW b \in DOMAIN k \ DOMAIN j, k[a].of = i, k[b].of = i
        PROVE  FALSE
    <3>1. i = j[a].of /\ i # 0
      BY <1>2, <1>5, <2>3
    <3>2. i \in DOMAIN j /\ j[i].rev
      BY <3>1 DEF Paired, Mirrors
    <3>3. i \in p
      BY <1>5, <2>3
    <3> QED
      BY <1>5, <3>2, <3>3
  <2> QED
    BY <1>5, <2>1, <2>2, <2>3
<1> QED
  BY <1>3, <1>4, <1>5 DEF Paired, OneMirror

\* A posting pairs nothing.
LEMMA PairedAppend ==
  ASSUME NEW j \in Seq(Row), Paired(j), NEW e \in Fresh
  PROVE  Paired(Append(j, e))
<1>1. e \in Row /\ e.of = 0 /\ ~e.rev
  BY DEF Fresh
<1>2. PICK k \in Seq(Row) :
        /\ k = Append(j, e) /\ Len(k) = Len(j) + 1
        /\ \A i \in 1 .. Len(j) : k[i] = j[i]
        /\ k[Len(j) + 1] = e
        /\ Grows(j, k)
  BY <1>1, AppendFacts
<1>3. /\ DOMAIN j = 1 .. Len(j) /\ DOMAIN k \ DOMAIN j = {Len(j) + 1}
  BY <1>2
<1>4. PICK p : p = {}
  OBVIOUS
<1>5. PairsUp(j, k, p)
  <2>1. p \in SUBSET (DOMAIN j) /\ \A i \in p : FALSE
    BY <1>4
  <2>2. \A i \in DOMAIN j : k[i].rev => j[i].rev \/ i \in p
    BY <1>2, <1>3
  <2>3. \A m \in DOMAIN k \ DOMAIN j : ~k[m].rev /\ k[m].of = 0
    BY <1>1, <1>2, <1>3
  <2>4. /\ \A i \in p : k[i].rev /\ (j[i].rev => k[i].raced)
        /\ \A i \in p : \E m \in DOMAIN k \ DOMAIN j : k[m].of = i
    BY <2>1
  <2>5. \A m \in DOMAIN k \ DOMAIN j :
          /\ ~k[m].rev
          /\ k[m].of = 0 \/ (k[m].of \in p /\ k[m].mv = Negated(j[k[m].of].mv))
    BY <2>3
  <2>6. \A m, n \in DOMAIN k \ DOMAIN j : k[m].of # 0 /\ k[m].of = k[n].of => m = n
    BY <2>3
  <2> QED
    BY <2>1, <2>2, <2>4, <2>5, <2>6 DEF PairsUp
<1> QED
  BY <1>2, <1>5, PairedGrows

\* A reversal pairs what it picks.
LEMMA PairedReversed ==
  ASSUME NEW j \in Seq(Row), Paired(j), NEW p \in SUBSET (DOMAIN j)
  PROVE  Paired(Turned(j, p))
<1> DEFINE n == Len(j)
           c == Cardinality(p)
<1>1. PICK k \in Seq(Row) :
        /\ k = Turned(j, p) /\ Len(k) = n + c /\ c \in Nat
        /\ \A i \in 1 .. n : k[i] = IF i \in p THEN Mark(j[i]) ELSE j[i]
        /\ \A i \in n + 1 .. n + c : k[i].of \in p /\ k[i] = Mirror(j[k[i].of], k[i].of)
        /\ \A a, b \in n + 1 .. n + c : k[a].of = k[b].of => a = b
        /\ \A i \in p : \E m \in n + 1 .. n + c : k[m].of = i
        /\ Grows(j, k)
  BY ReversedFacts, ReversedGrows
<1>2. /\ n \in Nat /\ DOMAIN j = 1 .. n /\ DOMAIN k = 1 .. n + c
      /\ \A i \in DOMAIN j : j[i] \in Row /\ i \in Nat
  BY <1>1
<1> HIDE DEF n, c
<1>3. DOMAIN k \ DOMAIN j = n + 1 .. n + c
  BY <1>1, <1>2
<1>4. \A i \in p : /\ Mark(j[i]).rev
                   /\ ~Mark(j[i]).raced => ~j[i].raced /\ ~j[i].rev
  BY <1>2, MarkedRow
<1>5. \A i \in DOMAIN j : k[i].rev => j[i].rev \/ i \in p
  BY <1>1, <1>2
<1>6. \A i \in p : k[i].rev /\ (j[i].rev => k[i].raced)
  BY <1>1, <1>2, <1>4
<1>7. \A i \in p : ~Mirror(j[i], i).rev /\ Mirror(j[i], i).mv = Negated(j[i].mv)
  BY <1>2, MirrorRow
<1>8. \A m \in DOMAIN k \ DOMAIN j :
         k[m].of \in p /\ ~k[m].rev /\ k[m].mv = Negated(j[k[m].of].mv)
  BY <1>1, <1>3, <1>7
<1>9. /\ \A a, b \in DOMAIN k \ DOMAIN j : k[a].of = k[b].of => a = b
      /\ \A i \in p : \E m \in DOMAIN k \ DOMAIN j : k[m].of = i
  BY <1>1, <1>3
<1>10. PairsUp(j, k, p)
  BY <1>5, <1>6, <1>8, <1>9 DEF PairsUp
<1> QED
  BY <1>1, <1>10, PairedGrows

\* A reversal outside the document pairs the one it reverses.
LEMMA PairedAdvanced ==
  ASSUME NEW j \in Seq(Row), Paired(j), NEW i \in DOMAIN j, NEW late \in BOOLEAN
  PROVE  Paired(Advanced(j, i, late))
<1>1. i \in 1 .. Len(j) /\ DOMAIN j = 1 .. Len(j) /\ i \in Nat /\ j[i] \in Row /\ Len(j) \in Nat
  OBVIOUS
<1> PICK k : k = Advanced(j, i, late)
  OBVIOUS
<1>2. /\ k \in Seq(Row) /\ Len(k) = Len(j) + 1 /\ Grows(j, k)
      /\ \A a \in 1 .. Len(j) : k[a] = IF a = i THEN Mark(j[i]) ELSE j[a]
      /\ k[Len(j) + 1].of = i /\ ~k[Len(j) + 1].rev
      /\ k[Len(j) + 1].mv = Negated(j[i].mv)
  <2>1. i \in 1 .. Len(j)
    BY <1>1
  <2>2. k \in Seq(Row) /\ Len(k) = Len(j) + 1 /\ Grows(j, k)
    BY <2>1, AdvancedFacts
  <2>3. \A a \in 1 .. Len(j) : k[a] = IF a = i THEN Mark(j[i]) ELSE j[a]
    BY <2>1, AdvancedFacts
  <2>4. k[Len(j) + 1].of = i
    BY <2>1, AdvancedFacts
  <2>5. ~k[Len(j) + 1].rev
    BY <2>1, AdvancedFacts
  <2>6. k[Len(j) + 1].mv = Negated(j[i].mv)
    BY <2>1, AdvancedFacts
  <2> QED
    BY <2>2, <2>3, <2>4, <2>5, <2>6
<1>3. DOMAIN k \ DOMAIN j = {Len(j) + 1}
  BY <1>1, <1>2
<1>4. /\ Mark(j[i]).rev
      /\ j[i].rev => Mark(j[i]).raced
  BY <1>1, MarkedRow
<1>6. \A m \in DOMAIN k \ DOMAIN j :
         k[m].of \in {i} /\ ~k[m].rev /\ k[m].mv = Negated(j[k[m].of].mv)
  BY <1>2, <1>3
<1>7. /\ \A a, b \in DOMAIN k \ DOMAIN j : k[a].of = k[b].of => a = b
      /\ \A a \in {i} : \E m \in DOMAIN k \ DOMAIN j : k[m].of = a
  BY <1>2, <1>3
<1>8. /\ \A a \in DOMAIN j : k[a].rev => j[a].rev \/ a \in {i}
      /\ \A a \in {i} : k[a].rev /\ (j[a].rev => k[a].raced)
  BY <1>1, <1>2, <1>4
<1>9. {i} \in SUBSET (DOMAIN j)
  OBVIOUS
<1>10. PairsUp(j, k, {i})
  BY <1>6, <1>7, <1>8, <1>9 DEF PairsUp
<1> QED
  BY <1>2, <1>10, PairedGrows

\* A change of status pairs nothing.
LEMMA PairedStatus ==
  ASSUME NEW j \in Seq(Row), Paired(j), NEW i \in DOMAIN j, NEW s \in State \ {"posted"},
         NEW b \in BOOLEAN, j[i].st # "posted"
  PROVE  Paired(WithStatus(j, i, s, b))
<1>1. i \in 1 .. Len(j) /\ DOMAIN j = 1 .. Len(j)
  OBVIOUS
<1>2. PICK k \in Seq(Row) :
        /\ k = WithStatus(j, i, s, b) /\ Len(k) = Len(j) /\ Grows(j, k)
        /\ \A a \in 1 .. Len(j) : k[a].rev = j[a].rev
  BY <1>1, StatusFacts
<1>3. DOMAIN k \ DOMAIN j = {} /\ {} \in SUBSET (DOMAIN j)
  BY <1>1, <1>2
<1>4. \A a \in DOMAIN j : k[a].rev => j[a].rev \/ a \in {}
  BY <1>1, <1>2
<1>5. PairsUp(j, k, {})
  BY <1>3, <1>4 DEF PairsUp
<1> QED
  BY <1>2, <1>5, PairedGrows

\* Every step keeps the pairs.
LEMMA PairedStep ==
  ASSUME NEW j \in Seq(Row), Paired(j), NEW k, Step(j, k)
  PROVE  Paired(k)
<1>1. CASE \E p \in SUBSET (DOMAIN j) : \E e \in Fresh : k = Append(Turned(j, p), e)
  <2>1. PICK p \in SUBSET (DOMAIN j) : \E e \in Fresh : k = Append(Turned(j, p), e)
    BY <1>1
  <2>2. PICK l \in Seq(Row) : l = Turned(j, p) /\ Paired(l)
    BY ReversedGrows, PairedReversed
  <2> QED
    BY <2>1, <2>2, PairedAppend
<1>2. CASE \E i \in DOMAIN j, s \in State \ {"posted"}, b \in BOOLEAN :
             j[i].st # "posted" /\ k = WithStatus(j, i, s, b)
  BY <1>2, PairedStatus
<1> QED
  BY <1>1, <1>2, PairedAppend, PairedReversed, PairedAdvanced DEF Step

\* An entry marked reversed has exactly one mirror, with the sides exchanged, and an entry
\* that is not marked has none (GLJournalEntry.reverse_entry, reverse_entry_advanced).
THEOREM EntriesMirrored == Spec => []MirrorsMatch
<1> DEFINE Inv == Types /\ Paired(journal)
<1>1. Init => Inv
  BY TypesInit DEF Init, Paired
<1>2. Inv /\ [Next]_vars => Inv'
  <2>1. ASSUME Inv, Next PROVE Inv'
    BY <2>1, NextTypes, PairedStep DEF Types
  <2>2. ASSUME Inv, UNCHANGED vars PROVE Inv'
    BY <2>2 DEF vars, Types
  <2> QED
    BY <2>1, <2>2
<1>3. Inv => MirrorsMatch
  <2> SUFFICES ASSUME Inv, NEW i \in Entries, ~journal[i].raced
               PROVE  /\ Cardinality({m \in Entries : journal[m].of = i})
                             = IF journal[i].rev THEN 1 ELSE 0
                      /\ \A m \in Entries : journal[m].of = i
                             => journal[m].mv = Negated(journal[i].mv)
    BY DEF MirrorsMatch
  <2> DEFINE M == {m \in Entries : journal[m].of = i}
  <2>1. i # 0 /\ journal[i].rev \in BOOLEAN
    <3>1. journal \in Seq(Row) /\ i \in DOMAIN journal
      BY DEF Types, Entries
    <3>2. journal[i] \in Row /\ i # 0
      BY <3>1
    <3> QED
      BY <3>2 DEF Row
  <2>2. \A m \in M : journal[i].rev /\ journal[m].mv = Negated(journal[i].mv)
    BY <2>1 DEF Paired, Mirrors, Entries
  <2>3. \A m, n \in M : m = n
    BY <2>1 DEF Paired, OneMirror, Entries
  <2>4. CASE journal[i].rev
    <3>1. PICK m \in M : TRUE
      BY <2>4 DEF Paired, Mirrored, Entries
    <3>2. M = {m}
      BY <2>3, <3>1
    <3> QED
      BY <2>2, <2>4, <3>2, FS_Singleton
  <2>5. CASE ~journal[i].rev
    <3>1. M = {}
      BY <2>2, <2>5
    <3> QED
      BY <2>5, <3>1, FS_EmptySet
  <2> QED
    BY <2>1, <2>4, <2>5
<1> HIDE DEF Inv
<1> QED
  BY <1>1, <1>2, <1>3, PTL DEF Spec

\* Every entry of a closed month has its reason.
AllLawful(j) == \A i \in DOMAIN j : Lawful(j[i])

\* What is kept stays lawful.
LEMMA LawfulGrows ==
  ASSUME NEW j \in Seq(Row), AllLawful(j), NEW k \in Seq(Row), Grows(j, k),
         \A i \in DOMAIN k \ DOMAIN j : Lawful(k[i])
  PROVE  AllLawful(k)
<1>1. DOMAIN j = 1 .. Len(j)
  OBVIOUS
<1>2. \A i \in DOMAIN j : Kept(j[i], k[i])
  BY <1>1 DEF Grows
<1> QED
  BY <1>2 DEF AllLawful, Lawful, Kept

\* Every step keeps them lawful.
LEMMA LawfulStep ==
  ASSUME NEW j \in Seq(Row), AllLawful(j), NEW k, Step(j, k)
  PROVE  AllLawful(k)
<1>1. ASSUME NEW l \in Seq(Row), AllLawful(l), NEW e \in Fresh PROVE AllLawful(Append(l, e))
  <2>1. e \in Row /\ Lawful(e)
    BY DEF Fresh
  <2>2. PICK m \in Seq(Row) :
          /\ m = Append(l, e) /\ Len(m) = Len(l) + 1 /\ m[Len(l) + 1] = e
          /\ Grows(l, m)
    BY <2>1, AppendFacts
  <2>3. DOMAIN m \ DOMAIN l = {Len(l) + 1}
    BY <2>2
  <2> QED
    BY <1>1, <2>1, <2>2, <2>3, LawfulGrows
<1>2. ASSUME NEW p \in SUBSET (DOMAIN j) PROVE AllLawful(Turned(j, p))
  <2> DEFINE n == Len(j)
             c == Cardinality(p)
  <2>1. PICK m \in Seq(Row) :
          /\ m = Turned(j, p) /\ Len(m) = n + c /\ c \in Nat
          /\ \A i \in n + 1 .. n + c : m[i].of \in p /\ m[i] = Mirror(j[m[i].of], m[i].of)
          /\ Grows(j, m)
    BY ReversedFacts, ReversedGrows
  <2>2. /\ n \in Nat /\ DOMAIN j = 1 .. n /\ DOMAIN m = 1 .. n + c
        /\ \A i \in DOMAIN j : j[i] \in Row /\ i \in Nat
    BY <2>1
  <2> HIDE DEF n, c
  <2>3. DOMAIN m \ DOMAIN j = n + 1 .. n + c
    BY <2>1, <2>2
  <2>4. \A i \in p : Mirror(j[i], i).type = "reversing"
    BY <2>2, MirrorRow
  <2>5. \A i \in DOMAIN m \ DOMAIN j : Lawful(m[i])
    BY <2>1, <2>3, <2>4 DEF Lawful
  <2> QED
    BY <2>1, <2>5, LawfulGrows
<1>3. ASSUME NEW i \in DOMAIN j, NEW late \in BOOLEAN PROVE AllLawful(Advanced(j, i, late))
  <2>1. i \in 1 .. Len(j) /\ DOMAIN j = 1 .. Len(j) /\ i \in Nat /\ j[i] \in Row
    OBVIOUS
  <2> PICK m : m = Advanced(j, i, late)
    OBVIOUS
  <2>2. /\ m \in Seq(Row) /\ Len(m) = Len(j) + 1 /\ Grows(j, m)
        /\ m[Len(j) + 1].type = "reversing"
    BY <2>1, AdvancedFacts
  <2>3. DOMAIN m \ DOMAIN j = {Len(j) + 1}
    BY <2>1, <2>2
  <2> QED
    BY <2>2, <2>3, LawfulGrows DEF Lawful
<1>4. ASSUME NEW i \in DOMAIN j, NEW s \in State \ {"posted"}, NEW b \in BOOLEAN,
             j[i].st # "posted"
      PROVE  AllLawful(WithStatus(j, i, s, b))
  <2>1. i \in 1 .. Len(j) /\ DOMAIN j = 1 .. Len(j)
    OBVIOUS
  <2>2. PICK m \in Seq(Row) : m = WithStatus(j, i, s, b) /\ Len(m) = Len(j) /\ Grows(j, m)
    BY <1>4, <2>1, StatusFacts
  <2>3. DOMAIN m \ DOMAIN j = {}
    BY <2>1, <2>2
  <2> QED
    BY <2>2, <2>3, LawfulGrows
<1>5. CASE \E p \in SUBSET (DOMAIN j) : \E e \in Fresh : k = Append(Turned(j, p), e)
  <2>1. PICK p \in SUBSET (DOMAIN j) : \E e \in Fresh : k = Append(Turned(j, p), e)
    BY <1>5
  <2>2. PICK l \in Seq(Row) : l = Turned(j, p) /\ AllLawful(l)
    BY <1>2, ReversedGrows
  <2> QED
    BY <1>1, <2>1, <2>2
<1>6. CASE \E i \in DOMAIN j, s \in State \ {"posted"}, b \in BOOLEAN :
             j[i].st # "posted" /\ k = WithStatus(j, i, s, b)
  BY <1>4, <1>6
<1> QED
  BY <1>1, <1>2, <1>3, <1>5, <1>6 DEF Step

\* An entry reaches a closed month only as a reversal, as the closing entry, or because
\* the month was closed between the check and the commit (assert_period_open is a plain
\* read).
THEOREM MonthsKept == Spec => []ClosedMonthKept
<1> DEFINE Inv == Types /\ AllLawful(journal)
<1>1. Init => Inv
  BY TypesInit DEF Init, AllLawful
<1>2. Inv /\ [Next]_vars => Inv'
  <2>1. ASSUME Inv, Next PROVE Inv'
    BY <2>1, NextTypes, LawfulStep DEF Types
  <2>2. ASSUME Inv, UNCHANGED vars PROVE Inv'
    BY <2>2 DEF vars, Types
  <2> QED
    BY <2>1, <2>2
<1>3. Inv => ClosedMonthKept
  BY DEF AllLawful, Lawful, ClosedMonthKept, Entries
<1> HIDE DEF Inv
<1> QED
  BY <1>1, <1>2, <1>3, PTL DEF Spec

\* A posted entry that is kept differs in its marks only.
LEMMA KeptSame ==
  ASSUME NEW e \in Row, NEW f \in Row, Kept(e, f), e.st = "posted"
  PROVE  [f EXCEPT !.rev = FALSE, !.raced = FALSE] = [e EXCEPT !.rev = FALSE, !.raced = FALSE]
<1> DEFINE a == [e EXCEPT !.rev = FALSE, !.raced = FALSE]
           b == [f EXCEPT !.rev = FALSE, !.raced = FALSE]
           F == {"d", "type", "mv", "m", "st", "rev", "of", "shut", "late", "raced"}
<1>1. DOMAIN a = F /\ DOMAIN b = F /\ a = [x \in F |-> a[x]] /\ b = [x \in F |-> b[x]]
  BY DEF Row
<1>2. /\ a.d = b.d /\ a.type = b.type /\ a.mv = b.mv /\ a.m = b.m /\ a.of = b.of
      /\ a.st = b.st
  BY DEF Kept, Row
<1>3. /\ a.shut = b.shut /\ a.late = b.late /\ a.rev = b.rev /\ a.raced = b.raced
  BY DEF Kept, Row
<1> HIDE DEF a, b
<1>4. \A x \in F : a[x] = b[x]
  BY <1>2, <1>3
<1> HIDE DEF F
<1>5. a = b
  BY <1>1, <1>4
<1> QED
  BY <1>5 DEF a, b

\* A posted entry stays as it was posted; only the mark of its reversal is set, and stays.
THEOREM EntriesStay == Spec => PostedStays
<1> DEFINE Stays == \A i \in Entries : journal[i].st = "posted" =>
                      /\ i \in DOMAIN journal'
                      /\ [journal'[i] EXCEPT !.rev = FALSE, !.raced = FALSE] =
                             [journal[i] EXCEPT !.rev = FALSE, !.raced = FALSE]
                      /\ journal[i].rev => journal'[i].rev
<1>1. Types /\ [Next]_vars => [Stays]_vars
  <2> SUFFICES ASSUME Types, Next, NEW i \in Entries, journal[i].st = "posted"
               PROVE  /\ i \in DOMAIN journal'
                      /\ [journal'[i] EXCEPT !.rev = FALSE, !.raced = FALSE] =
                             [journal[i] EXCEPT !.rev = FALSE, !.raced = FALSE]
                      /\ journal[i].rev => journal'[i].rev
    OBVIOUS
  <2>1. journal \in Seq(Row) /\ journal' \in Seq(Row) /\ Grows(journal, journal')
    BY NextTypes, StepGrows DEF Types
  <2>2. i \in 1 .. Len(journal) /\ i \in DOMAIN journal'
    <3>1. i \in 1 .. Len(journal) /\ Len(journal) <= Len(journal')
      BY <2>1 DEF Entries, Grows
    <3> QED
      BY <2>1, <3>1
  <2>3. journal[i] \in Row /\ journal'[i] \in Row /\ Kept(journal[i], journal'[i])
    BY <2>1, <2>2 DEF Grows
  <2> QED
    BY <2>2, <2>3, KeptSame DEF Kept
<1>2. Spec => []Types
  BY LedgerTypes
<1> QED
  BY <1>1, <1>2, PTL DEF Spec, PostedStays

---------------------------------------------------------------------------
(***************************************************************************)
(* What the entries of a document add up to.                               *)
(***************************************************************************)

\* The entries of a document, those of them that are not marked reversed, and what each
\* add up to on an account.
OfDoc(j, d)      == {i \in DOMAIN j : j[i].d = d}
LiveIn(j, d)     == {i \in DOMAIN j : j[i].d = d /\ ~j[i].rev}
NetIn(j, d, x)   == SumFunctionOnSet(Moved(j, x), OfDoc(j, d))
LiveSum(j, d, x) == SumFunctionOnSet(Moved(j, x), LiveIn(j, d))

\* The entries of a document are finitely many, and move numbers.
LEMMA OfDocFinite ==
  ASSUME NEW j \in Seq(Row), NEW d, NEW x \in Account
  PROVE  /\ LiveIn(j, d) \subseteq OfDoc(j, d) /\ OfDoc(j, d) \subseteq DOMAIN j
         /\ IsFiniteSet(OfDoc(j, d)) /\ IsFiniteSet(LiveIn(j, d))
         /\ \A i \in DOMAIN j : Moved(j, x)[i] = j[i].mv[x] /\ Moved(j, x)[i] \in Int
         /\ NetIn(j, d, x) \in Int /\ LiveSum(j, d, x) \in Int
<1>1. DOMAIN j = 1 .. Len(j) /\ Len(j) \in Nat /\ \A i \in DOMAIN j : j[i] \in Row
  OBVIOUS
<1>2. LiveIn(j, d) \subseteq OfDoc(j, d) /\ OfDoc(j, d) \subseteq DOMAIN j
  BY DEF LiveIn, OfDoc
<1>3. IsFiniteSet(DOMAIN j)
  BY <1>1, FS_Interval
<1>4. IsFiniteSet(OfDoc(j, d)) /\ IsFiniteSet(LiveIn(j, d))
  BY <1>2, <1>3, FS_Subset
<1>5. \A i \in DOMAIN j : Moved(j, x)[i] = j[i].mv[x] /\ Moved(j, x)[i] \in Int
  BY <1>1 DEF Moved, Row
<1>6. /\ \A i \in OfDoc(j, d) : Moved(j, x)[i] \in Int
      /\ \A i \in LiveIn(j, d) : Moved(j, x)[i] \in Int
  BY <1>2, <1>5
<1>7. NetIn(j, d, x) \in Int /\ LiveSum(j, d, x) \in Int
  BY <1>4, <1>6, SumType DEF NetIn, LiveSum
<1> QED
  BY <1>2, <1>4, <1>5, <1>7

\* A step that leaves the entries of a document alone.
Leaves(j, k, d) == /\ Grows(j, k)
                   /\ OfDoc(k, d) = OfDoc(j, d)
                   /\ \A i \in OfDoc(j, d) : k[i].rev = j[i].rev

\* It leaves what they add up to.
LEMMA SumLeft ==
  ASSUME NEW j \in Seq(Row), NEW k \in Seq(Row), NEW d, Leaves(j, k, d), NEW x \in Account
  PROVE  NetIn(k, d, x) = NetIn(j, d, x) /\ LiveSum(k, d, x) = LiveSum(j, d, x)
<1>1. /\ OfDoc(k, d) = OfDoc(j, d)
      /\ LiveIn(k, d) = LiveIn(j, d)
  BY DEF Leaves, OfDoc, LiveIn
<1>2. \A i \in OfDoc(j, d) : Moved(j, x)[i] = Moved(k, x)[i]
  <2>1. DOMAIN j = 1 .. Len(j)
    OBVIOUS
  <2>2. \A i \in OfDoc(j, d) : i \in 1 .. Len(j) /\ i \in DOMAIN k /\ k[i].mv = j[i].mv
    BY <1>1, <2>1 DEF Leaves, Grows, Kept, OfDoc
  <2> QED
    BY <1>1, <2>1, <2>2 DEF Moved
<1>3. /\ IsFiniteSet(OfDoc(j, d)) /\ IsFiniteSet(LiveIn(j, d))
      /\ LiveIn(j, d) \subseteq OfDoc(j, d)
  BY OfDocFinite
<1>4. NetIn(k, d, x) = NetIn(j, d, x)
  BY <1>1, <1>2, <1>3, SumSame DEF NetIn
<1>5. LiveSum(k, d, x) = LiveSum(j, d, x)
  <2>1. \A i \in LiveIn(j, d) : Moved(j, x)[i] = Moved(k, x)[i]
    BY <1>2, <1>3
  <2> QED
    BY <1>1, <1>3, <2>1, SumSame DEF LiveSum
<1> QED
  BY <1>4, <1>5

\* A posting adds its moves.
LEMMA SumAppended ==
  ASSUME NEW j \in Seq(Row), NEW e \in Row, e.of = 0, ~e.rev, NEW x \in Account
  PROVE  /\ NetIn(Append(j, e), e.d, x) = NetIn(j, e.d, x) + e.mv[x]
         /\ LiveSum(Append(j, e), e.d, x) = LiveSum(j, e.d, x) + e.mv[x]
<1> DEFINE d == e.d
           n == Len(j) + 1
<1>1. PICK k \in Seq(Row) :
        /\ k = Append(j, e) /\ Len(k) = n
        /\ \A i \in 1 .. Len(j) : k[i] = j[i]
        /\ k[n] = e
  BY AppendFacts
<1>2. DOMAIN j = 1 .. Len(j) /\ DOMAIN k = DOMAIN j \union {n} /\ n \notin DOMAIN j
  BY <1>1
<1>3. /\ OfDoc(k, d) = OfDoc(j, d) \union {n} /\ n \notin OfDoc(j, d)
      /\ LiveIn(k, d) = LiveIn(j, d) \union {n} /\ n \notin LiveIn(j, d)
  BY <1>1, <1>2 DEF OfDoc, LiveIn
<1>4. /\ IsFiniteSet(OfDoc(j, d)) /\ IsFiniteSet(LiveIn(j, d))
      /\ LiveIn(j, d) \subseteq OfDoc(j, d) /\ OfDoc(j, d) \subseteq DOMAIN j
  BY OfDocFinite
<1>5. /\ \A i \in DOMAIN j : Moved(k, x)[i] = Moved(j, x)[i] /\ Moved(k, x)[i] \in Int
      /\ Moved(k, x)[n] = e.mv[x] /\ Moved(k, x)[n] \in Int
  <2>1. \A i \in DOMAIN j : j[i] \in Row
    OBVIOUS
  <2> HIDE DEF n
  <2>2. \A i \in DOMAIN j : Moved(k, x)[i] = j[i].mv[x] /\ Moved(j, x)[i] = j[i].mv[x]
    BY <1>1, <1>2 DEF Moved
  <2>3. Moved(k, x)[n] = e.mv[x]
    BY <1>1, <1>2 DEF Moved
  <2> QED
    BY <2>1, <2>2, <2>3 DEF Row
<1> HIDE DEF n, d
<1>6. /\ SumFunctionOnSet(Moved(k, x), OfDoc(j, d)) = NetIn(j, d, x)
      /\ SumFunctionOnSet(Moved(k, x), LiveIn(j, d)) = LiveSum(j, d, x)
  <2>1. /\ \A i \in OfDoc(j, d) : Moved(k, x)[i] = Moved(j, x)[i]
        /\ \A i \in LiveIn(j, d) : Moved(k, x)[i] = Moved(j, x)[i]
    BY <1>4, <1>5
  <2> QED
    BY <1>4, <2>1, SumSame DEF NetIn, LiveSum
<1>7. NetIn(k, d, x) = SumFunctionOnSet(Moved(k, x), OfDoc(j, d)) + Moved(k, x)[n]
  <2>1. \A i \in OfDoc(j, d) : Moved(k, x)[i] \in Int
    BY <1>4, <1>5
  <2> QED
    BY <1>3, <1>4, <1>5, <2>1, SumAdds DEF NetIn
<1>8. LiveSum(k, d, x) = SumFunctionOnSet(Moved(k, x), LiveIn(j, d)) + Moved(k, x)[n]
  <2>1. \A i \in LiveIn(j, d) : Moved(k, x)[i] \in Int
    BY <1>4, <1>5
  <2> QED
    BY <1>3, <1>4, <1>5, <2>1, SumAdds DEF LiveSum
<1> QED
  BY <1>1, <1>5, <1>6, <1>7, <1>8 DEF d

\* A reversal of what is live takes it away, and leaves its opposite live.
LEMMA SumReversed ==
  ASSUME NEW j \in Seq(Row), NEW d, NEW x \in Account
  PROVE  LET k == Turned(j, LiveIn(j, d)) IN
         /\ NetIn(k, d, x) = NetIn(j, d, x) - LiveSum(j, d, x)
         /\ LiveSum(k, d, x) = -LiveSum(j, d, x)
<1> DEFINE n == Len(j)
<1>1. /\ IsFiniteSet(OfDoc(j, d)) /\ IsFiniteSet(LiveIn(j, d))
      /\ LiveIn(j, d) \subseteq OfDoc(j, d) /\ OfDoc(j, d) \subseteq DOMAIN j
      /\ \A i \in DOMAIN j : Moved(j, x)[i] = j[i].mv[x] /\ Moved(j, x)[i] \in Int
      /\ NetIn(j, d, x) \in Int /\ LiveSum(j, d, x) \in Int
  BY OfDocFinite
<1>2. PICK p \in SUBSET (DOMAIN j) : p = LiveIn(j, d)
  BY <1>1
<1>3. PICK c \in Nat : c = Cardinality(p)
  BY <1>1, <1>2, FS_CardinalityType
<1>4. PICK k \in Seq(Row) :
        /\ k = Turned(j, p) /\ Len(k) = n + c
        /\ \A i \in 1 .. n : k[i] = IF i \in p THEN Mark(j[i]) ELSE j[i]
        /\ \A i \in n + 1 .. n + c : k[i].of \in p /\ k[i] = Mirror(j[k[i].of], k[i].of)
        /\ \A a, b \in n + 1 .. n + c : k[a].of = k[b].of => a = b
        /\ \A i \in p : \E m \in n + 1 .. n + c : k[m].of = i
        /\ Grows(j, k)
  BY <1>3, ReversedFacts, ReversedGrows
<1>5. PICK T : T = n + 1 .. n + c
  OBVIOUS
<1>6. /\ n \in Nat /\ DOMAIN j = 1 .. n /\ DOMAIN k = DOMAIN j \union T /\ T \cap DOMAIN j = {}
      /\ \A i \in DOMAIN j : j[i] \in Row /\ i \in Nat
  BY <1>4, <1>5
<1>7. IsFiniteSet(T)
  <2>1. n + 1 \in Int /\ n + c \in Int
    BY <1>6
  <2> QED
    BY <1>5, <2>1, FS_Interval
<1> HIDE DEF n
<1>8. \A t \in T : /\ k[t].of \in p /\ k[t].d = d /\ ~k[t].rev
                   /\ Moved(k, x)[t] = -Moved(j, x)[k[t].of]
  <2> SUFFICES ASSUME NEW t \in T
               PROVE  /\ k[t].of \in p /\ k[t].d = d /\ ~k[t].rev
                      /\ Moved(k, x)[t] = -Moved(j, x)[k[t].of]
    OBVIOUS
  <2>1. PICK i \in p : i = k[t].of /\ k[t] = Mirror(j[i], i)
    BY <1>4, <1>5
  <2>2. j[i] \in Row /\ i \in Nat /\ j[i].d = d /\ i \in DOMAIN j
    BY <1>2, <1>6 DEF LiveIn
  <2>3. k[t].d = d /\ ~k[t].rev /\ k[t].mv = Negated(j[i].mv)
    <3>1. /\ Mirror(j[i], i).d = j[i].d /\ ~Mirror(j[i], i).rev
          /\ Mirror(j[i], i).mv = Negated(j[i].mv)
      BY <2>2, MirrorRow
    <3> QED
      BY <2>1, <2>2, <3>1
  <2>4. j[i].mv \in [Account -> Int]
    BY <2>2 DEF Row
  <2>5. k[t].mv[x] = -j[i].mv[x]
    BY <2>3, <2>4, NegatedType
  <2>6. Moved(k, x)[t] = k[t].mv[x]
    BY <1>6 DEF Moved
  <2> QED
    BY <1>1, <2>1, <2>2, <2>3, <2>5, <2>6
<1>9. \A i \in DOMAIN j : /\ k[i].d = j[i].d /\ Moved(k, x)[i] = Moved(j, x)[i]
                          /\ i \in p => k[i].rev
                          /\ i \notin p => k[i].rev = j[i].rev
  <2> SUFFICES ASSUME NEW i \in DOMAIN j
               PROVE  /\ k[i].d = j[i].d /\ Moved(k, x)[i] = Moved(j, x)[i]
                      /\ i \in p => k[i].rev
                      /\ i \notin p => k[i].rev = j[i].rev
    OBVIOUS
  <2>1. k[i].d = j[i].d /\ k[i].mv = j[i].mv
    BY <1>4, <1>6 DEF Grows, Kept, n
  <2>2. Mark(j[i]).rev
    BY <1>6, MarkedRow
  <2>3. Moved(k, x)[i] = k[i].mv[x] /\ Moved(j, x)[i] = j[i].mv[x]
    BY <1>6 DEF Moved
  <2> QED
    BY <1>4, <1>6, <2>1, <2>2, <2>3
<1>10. OfDoc(k, d) = OfDoc(j, d) \union T /\ LiveIn(k, d) = T
  <2>1. \A i \in OfDoc(j, d) : i \notin p => j[i].rev
    BY <1>2 DEF OfDoc, LiveIn
  <2> QED
    BY <1>6, <1>8, <1>9, <2>1 DEF OfDoc, LiveIn
<1>11. LiveSum(k, d, x) = -LiveSum(j, d, x)
  <2> DEFINE f == Moved(j, x)
             g == Moved(k, x)
             b == [t \in T |-> k[t].of]
  <2>1. \A t \in T : b[t] \in p /\ g[t] = -f[b[t]]
    BY <1>8
  <2>2. \A t, u \in T : b[t] = b[u] => t = u
    BY <1>4, <1>5
  <2>3. \A s \in p : \E t \in T : b[t] = s
    BY <1>4, <1>5
  <2>4. IsFiniteSet(p) /\ \A s \in p : f[s] \in Int
    BY <1>1, <1>2
  <2> HIDE DEF f, g, b
  <2>5. SumFunctionOnSet(g, T) = -SumFunctionOnSet(f, p)
    BY <1>7, <2>1, <2>2, <2>3, <2>4, SumOpposite
  <2> QED
    BY <1>2, <1>10, <2>5 DEF LiveSum, f, g
<1>12. NetIn(k, d, x) = NetIn(j, d, x) + LiveSum(k, d, x)
  <2> DEFINE S == OfDoc(j, d)
             g == Moved(k, x)
  <2>1. \A i \in S \union T : g[i] \in Int
    <3>1. \A i \in S : g[i] \in Int
      BY <1>1, <1>9
    <3>2. \A i \in T : g[i] \in Int
      BY <1>1, <1>2, <1>8
    <3> QED
      BY <3>1, <3>2
  <2>2. S \cap T = {} /\ IsFiniteSet(S)
    BY <1>1, <1>6
  <2>3. \A i \in S : g[i] = Moved(j, x)[i]
    BY <1>1, <1>9
  <2> HIDE DEF g, S
  <2>4. SumFunctionOnSet(g, S \union T) = SumFunctionOnSet(g, S) + SumFunctionOnSet(g, T)
    BY <1>7, <2>1, <2>2, SumUnion
  <2>5. SumFunctionOnSet(g, S) = SumFunctionOnSet(Moved(j, x), S)
    BY <2>2, <2>3, SumSame
  <2> QED
    BY <1>10, <2>4, <2>5 DEF NetIn, LiveSum, g, S
<1> QED
  BY <1>1, <1>2, <1>4, <1>11, <1>12

\* Steps that leave the entries of a document alone.
LEMMA LeavesOrder ==
  ASSUME NEW d, NEW j \in Seq(Row)
  PROVE  /\ Leaves(j, j, d)
         /\ \A k, l \in Seq(Row) : Leaves(j, k, d) /\ Leaves(k, l, d) => Leaves(j, l, d)
<1>1. Leaves(j, j, d)
  BY GrowsOrder DEF Leaves
<1>2. ASSUME NEW k \in Seq(Row), NEW l \in Seq(Row), Leaves(j, k, d), Leaves(k, l, d)
      PROVE  Leaves(j, l, d)
  BY <1>2, GrowsOrder DEF Leaves
<1> QED
  BY <1>1, <1>2

\* A posting for something else.
LEMMA LeavesAppend ==
  ASSUME NEW j \in Seq(Row), NEW e \in Row, NEW d, e.d # d
  PROVE  Leaves(j, Append(j, e), d)
<1>1. PICK k \in Seq(Row) :
        /\ k = Append(j, e) /\ Len(k) = Len(j) + 1 /\ Grows(j, k)
        /\ \A i \in 1 .. Len(j) : k[i] = j[i]
        /\ k[Len(j) + 1] = e
  BY AppendFacts
<1>2. DOMAIN j = 1 .. Len(j) /\ DOMAIN k = DOMAIN j \union {Len(j) + 1}
  BY <1>1
<1> QED
  BY <1>1, <1>2 DEF Leaves, OfDoc

\* A reversal of the entries of something else.
LEMMA LeavesReversed ==
  ASSUME NEW j \in Seq(Row), NEW p \in SUBSET (DOMAIN j), NEW d, \A i \in p : j[i].d # d
  PROVE  Leaves(j, Turned(j, p), d)
<1> DEFINE n == Len(j)
           c == Cardinality(p)
<1>1. PICK k \in Seq(Row) :
        /\ k = Turned(j, p) /\ Len(k) = n + c /\ c \in Nat /\ Grows(j, k)
        /\ \A i \in 1 .. n : k[i] = IF i \in p THEN Mark(j[i]) ELSE j[i]
        /\ \A i \in n + 1 .. n + c : k[i].of \in p /\ k[i] = Mirror(j[k[i].of], k[i].of)
  BY ReversedFacts, ReversedGrows
<1>2. /\ n \in Nat /\ DOMAIN j = 1 .. n /\ DOMAIN k = 1 .. n + c
      /\ \A i \in DOMAIN j : j[i] \in Row /\ i \in Nat
  BY <1>1
<1> HIDE DEF n, c
<1>3. \A i \in DOMAIN k : i \in DOMAIN j \/ i \in n + 1 .. n + c
  BY <1>1, <1>2
<1>4. \A i \in n + 1 .. n + c : k[i].d # d
  <2>1. \A i \in p : Mirror(j[i], i).d = j[i].d
    BY <1>2, MirrorRow
  <2> QED
    BY <1>1, <2>1
<1>5. DOMAIN j \subseteq DOMAIN k /\ \A i \in DOMAIN j : k[i].d = j[i].d
  BY <1>1, <1>2 DEF Grows, Kept, n
<1>6. \A i \in OfDoc(j, d) : k[i].rev = j[i].rev
  BY <1>1, <1>2 DEF OfDoc
<1>7. OfDoc(k, d) = OfDoc(j, d)
  BY <1>3, <1>4, <1>5 DEF OfDoc
<1> QED
  BY <1>1, <1>6, <1>7 DEF Leaves

\* A reversal of an entry of something else by a manual entry.
LEMMA LeavesAdvanced ==
  ASSUME NEW j \in Seq(Row), NEW i \in DOMAIN j, NEW late \in BOOLEAN, NEW d \in Doc,
         j[i].d # d
  PROVE  Leaves(j, Advanced(j, i, late), d)
<1>1. /\ i \in 1 .. Len(j) /\ DOMAIN j = 1 .. Len(j) /\ i \in Nat /\ j[i] \in Row
      /\ Len(j) \in Nat /\ d # "manual"
  BY JournalAssumption
<1> PICK k : k = Advanced(j, i, late)
  OBVIOUS
<1>2. /\ k \in Seq(Row) /\ Len(k) = Len(j) + 1 /\ Grows(j, k)
      /\ \A a \in 1 .. Len(j) : k[a] = IF a = i THEN Mark(j[i]) ELSE j[a]
      /\ k[Len(j) + 1].d = "manual"
  <2>1. i \in 1 .. Len(j)
    BY <1>1
  <2>2. k \in Seq(Row) /\ Len(k) = Len(j) + 1 /\ Grows(j, k)
    BY <2>1, AdvancedFacts
  <2>3. \A a \in 1 .. Len(j) : k[a] = IF a = i THEN Mark(j[i]) ELSE j[a]
    BY <2>1, AdvancedFacts
  <2>4. k[Len(j) + 1].d = "manual"
    BY <2>1, AdvancedFacts
  <2> QED
    BY <2>2, <2>3, <2>4
<1>3. DOMAIN k = DOMAIN j \union {Len(j) + 1}
  BY <1>1, <1>2
<1>4. k[Len(j) + 1].d # d
  BY <1>1, <1>2
<1>5. \A a \in DOMAIN j : k[a].d = j[a].d
  BY <1>1, <1>2 DEF Grows, Kept
<1>6. \A a \in OfDoc(j, d) : k[a].rev = j[a].rev
  BY <1>1, <1>2 DEF OfDoc
<1>7. OfDoc(k, d) = OfDoc(j, d)
  BY <1>3, <1>4, <1>5 DEF OfDoc
<1> QED
  BY <1>2, <1>6, <1>7 DEF Leaves

\* A change of status.
LEMMA LeavesStatus ==
  ASSUME NEW j \in Seq(Row), NEW i \in DOMAIN j, NEW s \in State \ {"posted"},
         NEW b \in BOOLEAN, j[i].st # "posted", NEW d
  PROVE  Leaves(j, WithStatus(j, i, s, b), d)
<1>1. i \in 1 .. Len(j) /\ DOMAIN j = 1 .. Len(j)
  OBVIOUS
<1>2. PICK k \in Seq(Row) :
        /\ k = WithStatus(j, i, s, b) /\ Len(k) = Len(j) /\ Grows(j, k)
        /\ \A a \in 1 .. Len(j) : k[a].rev = j[a].rev
  BY <1>1, StatusFacts
<1>3. DOMAIN k = DOMAIN j /\ \A a \in DOMAIN j : k[a].d = j[a].d
  BY <1>1, <1>2 DEF Grows, Kept
<1> QED
  BY <1>1, <1>2, <1>3 DEF Leaves, OfDoc

---------------------------------------------------------------------------
(***************************************************************************)
(* Documents and their entries.                                            *)
(***************************************************************************)

\* A document that is gone, and what is known of any document.
GoneDoc(y) == CASE y.kind = "expense" -> y.cancels % 2 = 1
                [] y.kind = "fee"     -> y.st = "cancelled" /\ ~y.paid
                [] OTHER              -> y.st = "cancelled"

Facts(y) == /\ y.st = "live" => ~y.paid
            /\ y.st = "paid" => y.paid
            /\ y.paid => y.kind = "fee"
            /\ y.kind = "expense" => y.st \in {"none", "live"}

Clean(y) == y.st # "none" /\ ~y.raced /\ ~y.clerk /\ ~y.edited

\* The entries of a document add up to its amount while it stands and to nothing once it
\* is gone; those that are live, to its amount or to the opposite.
Amounting(j, d, y) ==
    LET x == AccountOf(y.kind)
        s == Signed(y.kind, y.amt)
    IN  /\ NetIn(j, d, x) = IF GoneDoc(y) THEN 0 ELSE s
        /\ LiveSum(j, d, x) = IF GoneDoc(y) THEN -s ELSE s
        /\ y.kind = "fee" =>
              /\ NetIn(j, d, "balance") = IF y.paid THEN y.amt ELSE 0
              /\ LiveSum(j, d, "balance") = IF y.paid THEN y.amt ELSE 0

Books(j, d, y) == /\ Facts(y)
                  /\ y.st = "none" => OfDoc(j, d) = {}
                  /\ Clean(y) => Amounting(j, d, y)

\* The account of a document.
LEMMA KnownAccount ==
  ASSUME NEW y \in Document, y.kind \in Kind
  PROVE  AccountOf(y.kind) \in Account /\ Signed(y.kind, y.amt) \in Int /\ y.amt \in Nat
BY SignedType DEF Document

\* Books of a document whose entries are left alone.
LEMMA BooksLeft ==
  ASSUME NEW j \in Seq(Row), NEW k \in Seq(Row), NEW d, NEW y \in Document,
         y.st # "none" => y.kind \in Kind,
         Books(j, d, y), Leaves(j, k, d)
  PROVE  Books(k, d, y)
<1>1. OfDoc(k, d) = OfDoc(j, d)
  BY DEF Leaves
<1>2. ASSUME Clean(y) PROVE Amounting(k, d, y)
  <2>1. AccountOf(y.kind) \in Account /\ "balance" \in Account
    BY <1>2, KnownAccount DEF Clean, Account
  <2>2. /\ NetIn(k, d, AccountOf(y.kind)) = NetIn(j, d, AccountOf(y.kind))
        /\ LiveSum(k, d, AccountOf(y.kind)) = LiveSum(j, d, AccountOf(y.kind))
        /\ NetIn(k, d, "balance") = NetIn(j, d, "balance")
        /\ LiveSum(k, d, "balance") = LiveSum(j, d, "balance")
    BY <2>1, SumLeft
  <2> QED
    BY <1>2, <2>2 DEF Books, Amounting
<1> QED
  BY <1>1, <1>2 DEF Books

\* Nothing is claimed of a document that was touched by hand, edited or raced.
LEMMA BooksTroubled ==
  ASSUME NEW k, NEW d, NEW y, Facts(y), y.st # "none", ~Clean(y)
  PROVE  Books(k, d, y)
BY DEF Books

\* The books of a new document.
LEMMA BooksPosted ==
  ASSUME NEW j \in Seq(Row), NEW d \in Doc, OfDoc(j, d) = {},
         NEW kind \in Kind, NEW a \in Nat, NEW y \in Document,
         y.kind = kind, y.st = "live", y.amt = a, y.cancels = 0, ~y.paid,
         NEW e \in Row, e.d = d, e.of = 0, ~e.rev,
         e.mv = Moves(AccountOf(kind), Signed(kind, a))
  PROVE  Books(Append(j, e), d, y)
<1> DEFINE x == AccountOf(kind)
           s == Signed(kind, a)
<1>1. x \in Account /\ s \in Int /\ "balance" \in Account
  BY SignedType DEF Account
<1>2. LiveIn(j, d) = {}
  BY DEF OfDoc, LiveIn
<1>3. \A f : SumFunctionOnSet(f, {}) = 0
  BY SumUnfolds, FS_EmptySet
<1>4. \A z \in Account : NetIn(j, d, z) = 0 /\ LiveSum(j, d, z) = 0
  BY <1>2, <1>3 DEF NetIn, LiveSum
<1>5. \A z \in Account : /\ NetIn(Append(j, e), d, z) = 0 + e.mv[z]
                         /\ LiveSum(Append(j, e), d, z) = 0 + e.mv[z]
  BY <1>4, SumAppended
<1>6. e.mv[x] = s /\ (kind = "fee" => e.mv["balance"] = 0)
  BY <1>1, MovesType DEF AccountOf
<1>7. GoneDoc(y) = FALSE
  BY DEF GoneDoc, Kind
<1> HIDE DEF x, s
<1>8. Amounting(Append(j, e), d, y)
  <2>1. /\ NetIn(Append(j, e), d, x) = s /\ LiveSum(Append(j, e), d, x) = s
        /\ kind = "fee" => /\ NetIn(Append(j, e), d, "balance") = 0
                           /\ LiveSum(Append(j, e), d, "balance") = 0
    BY <1>1, <1>5, <1>6
  <2> QED
    BY <1>7, <2>1 DEF Amounting, x, s
<1> QED
  BY <1>8 DEF Books, Facts

\* The books of a fee that is paid.
LEMMA BooksPaid ==
  ASSUME NEW j \in Seq(Row), NEW d \in Doc, NEW y \in Document, NEW z \in Document,
         Books(j, d, y), y.kind = "fee", y.st # "none",
         z.st = "paid", z.paid, z.kind = "fee", z.amt = y.amt,
         Clean(z) => Clean(y) /\ y.st = "live",
         NEW e \in Row, e.d = d, e.of = 0, ~e.rev, e.mv = Moves("balance", y.amt)
  PROVE  Books(Append(j, e), d, z)
<1>1. Facts(z)
  BY DEF Facts
<1>2. ASSUME Clean(z) PROVE Amounting(Append(j, e), d, z)
  <2>1. Clean(y) /\ ~y.paid /\ y.amt \in Nat /\ Amounting(j, d, y)
    BY <1>2 DEF Books, Facts, Document
  <2>2. /\ NetIn(j, d, "expense") = y.amt /\ LiveSum(j, d, "expense") = y.amt
        /\ NetIn(j, d, "balance") = 0 /\ LiveSum(j, d, "balance") = 0
    BY <1>2, <2>1 DEF Amounting, GoneDoc, AccountOf, Signed
  <2>3. "expense" \in Account /\ "balance" \in Account
    BY DEF Account
  <2>4. e.mv["expense"] = 0 /\ e.mv["balance"] = y.amt
    BY <2>1, <2>3, MovesType
  <2>5. \A x \in Account : /\ NetIn(Append(j, e), d, x) = NetIn(j, d, x) + e.mv[x]
                           /\ LiveSum(Append(j, e), d, x) = LiveSum(j, d, x) + e.mv[x]
    BY SumAppended
  <2>6. /\ NetIn(Append(j, e), d, "expense") = y.amt
        /\ LiveSum(Append(j, e), d, "expense") = y.amt
        /\ NetIn(Append(j, e), d, "balance") = y.amt
        /\ LiveSum(Append(j, e), d, "balance") = y.amt
    BY <2>1, <2>2, <2>3, <2>4, <2>5
  <2> QED
    BY <2>6 DEF Amounting, GoneDoc, AccountOf, Signed
<1> QED
  BY <1>1, <1>2 DEF Books

\* The books of a document whose live entries are reversed.
LEMMA BooksReversed ==
  ASSUME NEW j \in Seq(Row), NEW d \in Doc, NEW y \in Document, NEW z \in Document,
         Books(j, d, y), Clean(y), y.kind \in Kind, z.kind = y.kind, z.amt = y.amt,
         z.paid = y.paid, ~y.paid, GoneDoc(z) # GoneDoc(y)
  PROVE  Amounting(Turned(j, LiveIn(j, d)), d, z)
<1> DEFINE k == Turned(j, LiveIn(j, d))
           x == AccountOf(y.kind)
           s == Signed(y.kind, y.amt)
<1>1. x \in Account /\ s \in Int /\ "balance" \in Account /\ y.amt \in Nat
  BY KnownAccount DEF Account
<1>2. \A a \in Account : /\ NetIn(k, d, a) = NetIn(j, d, a) - LiveSum(j, d, a)
                         /\ LiveSum(k, d, a) = -LiveSum(j, d, a)
  BY SumReversed
<1>3. /\ NetIn(j, d, x) = IF GoneDoc(y) THEN 0 ELSE s
      /\ LiveSum(j, d, x) = IF GoneDoc(y) THEN -s ELSE s
      /\ y.kind = "fee" => NetIn(j, d, "balance") = 0 /\ LiveSum(j, d, "balance") = 0
  BY DEF Books, Amounting
<1>4. GoneDoc(z) \in BOOLEAN /\ GoneDoc(y) \in BOOLEAN
  BY DEF GoneDoc
<1>5. -(-s) = s /\ 0 - (-s) = s /\ s - s = 0 /\ 0 - 0 = 0
  BY <1>1
<1> HIDE DEF k, x, s
<1>6. NetIn(k, d, x) = (IF GoneDoc(z) THEN 0 ELSE s)
      /\ LiveSum(k, d, x) = IF GoneDoc(z) THEN -s ELSE s
  <2>1. CASE GoneDoc(y)
    BY <1>1, <1>2, <1>3, <1>4, <1>5, <2>1
  <2>2. CASE ~GoneDoc(y)
    BY <1>1, <1>2, <1>3, <1>4, <1>5, <2>2
  <2> QED
    BY <2>1, <2>2
<1>7. y.kind = "fee" => NetIn(k, d, "balance") = 0 /\ LiveSum(k, d, "balance") = 0
  <2> SUFFICES ASSUME y.kind = "fee"
               PROVE  NetIn(k, d, "balance") = 0 /\ LiveSum(k, d, "balance") = 0
    OBVIOUS
  <2>1. PICK l \in Int : l = LiveSum(j, d, "balance")
    BY <1>1, OfDocFinite
  <2>2. NetIn(k, d, "balance") = 0 - 0 /\ LiveSum(k, d, "balance") = -l /\ -l = 0 - l /\ l = 0
    BY <1>1, <1>2, <1>3, <2>1
  <2> QED
    BY <2>2
<1> QED
  BY <1>6, <1>7 DEF Amounting, k, x, s

AllBooks(j, D) == \A d \in Doc : Books(j, d, D[d])

\* A document that is not touched, and whose entries are left alone.
LEMMA BooksUntouched ==
  ASSUME NEW D, Known(D), NEW E, NEW j \in Seq(Row), NEW k \in Seq(Row), NEW d \in Doc,
         AllBooks(j, D), E[d] = D[d], Leaves(j, k, d)
  PROVE  Books(k, d, E[d])
<1>1. D[d] \in Document /\ (D[d].st # "none" => D[d].kind \in Kind)
  BY DEF Known
<1>2. Books(j, d, D[d])
  BY DEF AllBooks
<1> QED
  BY <1>1, <1>2, BooksLeft

\* A step that touches no document.
LEMMA BooksAllUntouched ==
  ASSUME Types, AllBooks(journal, doc), journal' \in Seq(Row), doc' = doc,
         \A d \in Doc : Leaves(journal, journal', d)
  PROVE  AllBooks(journal', doc')
BY BooksUntouched DEF AllBooks, Types

\* A new document.
LEMMA PostBooks ==
  ASSUME Types, AllBooks(journal, doc), NEW w \in Worker, Post(w)
  PROVE  AllBooks(journal', doc')
<1> DEFINE r == req[w]
           mv == Moves(AccountOf(r.kind), Signed(r.kind, r.a))
           e == Entry(r.d, "auto", mv, r.m, "posted", Late(w))
           x == [NoDoc EXCEPT !.kind = r.kind, !.st = "live", !.amt = r.a, !.on = r.m]
<1>1. GoodPost(r, closed, closings) /\ doc[r.d].st = "none"
  BY DEF Types, Requests, Good, Post, Serves
<1>2. /\ r.d \in Doc /\ r.kind \in Kind /\ r.a \in Nat /\ r.m \in Month
      /\ doc \in [Doc -> Document] /\ journal \in Seq(Row) /\ Late(w) \in BOOLEAN
  BY <1>1, JournalAssumption DEF GoodPost, GoodMonth, Types, Known, Late
<1>3. e \in Row /\ e.d = r.d /\ e.mv = mv /\ e.of = 0 /\ ~e.rev
  <2>1. mv \in [Account -> Int]
    BY <1>2, SignedType
  <2> HIDE DEF mv
  <2> QED
    BY <1>2, <2>1 DEF Entry, Row, Type, State
<1>4. journal' = Append(journal, e) /\ doc' = [doc EXCEPT ![r.d] = x]
  BY DEF Post
<1>5. /\ x \in Document /\ x.kind = r.kind /\ x.st = "live" /\ x.amt = r.a /\ x.cancels = 0
      /\ ~x.paid
  BY <1>2 DEF NoDoc, Document, Month, Now
<1> HIDE DEF r, e, x
<1>6. journal' \in Seq(Row)
  BY <1>2, <1>3, <1>4, AppendFacts
<1> SUFFICES ASSUME NEW d \in Doc PROVE Books(journal', d, doc'[d])
  BY DEF AllBooks
<1>7. CASE d = r.d
  <2>1. OfDoc(journal, d) = {} /\ doc'[d] = x
    BY <1>1, <1>2, <1>4, <1>7 DEF AllBooks, Books
  <2> QED
    BY <1>2, <1>3, <1>4, <1>5, <1>7, <2>1, BooksPosted
<1>8. CASE d # r.d
  <2>1. Leaves(journal, journal', d) /\ doc'[d] = doc[d]
    BY <1>2, <1>3, <1>4, <1>8, LeavesAppend
  <2> QED
    BY <1>2, <1>6, <2>1, BooksUntouched DEF Types
<1> QED
  BY <1>7, <1>8

\* A document that is cancelled.
LEMMA CancelBooks ==
  ASSUME Types, AllBooks(journal, doc), NEW w \in Worker, Cancel(w)
  PROVE  AllBooks(journal', doc')
<1> DEFINE r == req[w]
           y == doc[r.d]
           x == [y EXCEPT !.st = IF r.kind = "expense" THEN @ ELSE "cancelled",
                          !.cancels = @ + 1,
                          !.raced = @ \/ doc[r.d].st # r.st \/ r.seen # LiveOf(r.d)]
           L == LiveIn(journal, r.d)
<1>1. GoodOnDoc(r, doc, journal) /\ MayCancel(r.kind, r.st)
  BY DEF Types, Requests, Good, Cancel, Serves, OnDoc
<1>2. /\ y \in Document /\ r.d \in Doc /\ y.st # "none" /\ r.kind = y.kind /\ y.kind \in Kind
      /\ journal \in Seq(Row) /\ Books(journal, r.d, y)
  BY <1>1 DEF GoodOnDoc, Types, Known, AllBooks
<1>3. PICK p \in Picked(w) :
        journal' = IF Reverses(r.kind, r.st) THEN Turned(journal, p) ELSE journal
  BY <1>1, PickedEntries DEF Cancel
<1>4. LiveOf(r.d) = L
  BY DEF LiveOf, LiveIn, Entries
<1>5. p \in SUBSET (DOMAIN journal) /\ (\A i \in p : journal[i].d = r.d)
      /\ (r.seen = L => p = L)
  <2>1. p = L \/ p = r.seen
    BY <1>4 DEF Picked
  <2> QED
    BY <1>1, <2>1 DEF GoodOnDoc, LiveIn
<1>6. doc' = [doc EXCEPT ![r.d] = x] /\ doc \in [Doc -> Document]
  BY <1>2 DEF Cancel, Types, Known
<1>7. PICK t \in BOOLEAN : t = (y.raced \/ doc[r.d].st # r.st \/ r.seen # L)
  OBVIOUS
<1>8. /\ x \in Document /\ x.kind = y.kind /\ x.amt = y.amt /\ x.paid = y.paid
      /\ x.clerk = y.clerk /\ x.edited = y.edited /\ x.cancels = y.cancels + 1
      /\ x.st = (IF y.kind = "expense" THEN y.st ELSE "cancelled") /\ x.raced = t
  <2>1. PICK s \in {"live", "paid", "cancelled"} :
          s = IF y.kind = "expense" THEN y.st ELSE "cancelled"
    BY <1>2 DEF Document
  <2>2. PICK n \in Nat : n = y.cancels + 1
    BY <1>2 DEF Document
  <2>3. x = [y EXCEPT !.st = s, !.cancels = n, !.raced = t]
    BY <1>2, <1>4, <1>7, <2>1, <2>2
  <2> HIDE DEF x
  <2>4. x.kind = y.kind /\ x.st = s /\ x.amt = y.amt /\ x.cancels = n
    BY <1>2, <2>3 DEF Document
  <2>5. x.paid = y.paid /\ x.clerk = y.clerk /\ x.edited = y.edited /\ x.raced = t
    BY <1>2, <2>3 DEF Document
  <2>6. x \in Document
    BY <1>2, <2>3 DEF Document
  <2> QED
    BY <2>1, <2>2, <2>4, <2>5, <2>6
<1>9. journal' \in Seq(Row)
  BY <1>2, <1>3, <1>5, ReversedGrows
<1> HIDE DEF r, x, L
<1> SUFFICES ASSUME NEW d \in Doc PROVE Books(journal', d, doc'[d])
  BY DEF AllBooks
<1>10. CASE d # r.d
  <2>1. Leaves(journal, journal', d)
    BY <1>2, <1>3, <1>5, <1>10, LeavesReversed, LeavesOrder
  <2>2. doc'[d] = doc[d]
    BY <1>6, <1>10
  <2> QED
    BY <1>9, <2>1, <2>2, BooksUntouched DEF Types
<1>11. Facts(x) /\ x.st # "none"
  BY <1>2, <1>8 DEF Books, Facts
<1>12. CASE d = r.d /\ Clean(x)
  <2>1. Clean(y) /\ y.st = r.st /\ p = L /\ Amounting(journal, r.d, y) /\ Facts(y)
    BY <1>2, <1>5, <1>7, <1>8, <1>12 DEF Clean, Books
  <2>2. CASE Reverses(y.kind, y.st)
    <3>1. journal' = Turned(journal, L)
      BY <1>2, <1>3, <2>1, <2>2
    <3>2. ~y.paid
      BY <2>1, <2>2 DEF Facts, Reverses
    <3>3. GoneDoc(x) # GoneDoc(y)
      <4>1. CASE y.kind = "expense"
        <5>1. \A n \in Nat : (n + 1) % 2 = 1 <=> n % 2 # 1
          OBVIOUS
        <5>2. GoneDoc(y) = (y.cancels % 2 = 1) /\ GoneDoc(x) = ((y.cancels + 1) % 2 = 1)
          BY <1>8, <4>1 DEF GoneDoc
        <5> QED
          BY <1>2, <5>1, <5>2 DEF Document
      <4>2. CASE y.kind # "expense"
        <5>1. y.st # "cancelled" /\ x.st = "cancelled"
          BY <1>1, <1>2, <1>8, <2>1, <4>2 DEF MayCancel
        <5>2. ~GoneDoc(y) /\ GoneDoc(x)
          BY <1>8, <3>2, <4>2, <5>1 DEF GoneDoc
        <5> QED
          BY <5>2
      <4> QED
        BY <4>1, <4>2
    <3>4. Amounting(Turned(journal, L), r.d, x)
      BY <1>2, <1>8, <2>1, <3>2, <3>3, BooksReversed DEF L
    <3> QED
      BY <1>6, <1>11, <1>12, <3>1, <3>4 DEF Books
  <2>3. CASE ~Reverses(y.kind, y.st)
    <3>1. journal' = journal /\ y.kind = "fee" /\ y.paid
      BY <1>1, <1>2, <1>3, <2>1, <2>3 DEF Reverses, MayCancel, Facts, Document
    <3>2. ~GoneDoc(x) /\ ~GoneDoc(y)
      BY <1>8, <3>1 DEF GoneDoc
    <3>3. Amounting(journal, r.d, x)
      BY <1>8, <2>1, <3>1, <3>2 DEF Amounting
    <3> QED
      BY <1>6, <1>11, <1>12, <3>1, <3>3 DEF Books
  <2> QED
    BY <2>2, <2>3
<1>13. CASE d = r.d /\ ~Clean(x)
  BY <1>6, <1>11, <1>13, BooksTroubled
<1> QED
  BY <1>10, <1>12, <1>13

\* An expense that is edited.
LEMMA EditBooks ==
  ASSUME Types, AllBooks(journal, doc), NEW w \in Worker, EditExpense(w)
  PROVE  AllBooks(journal', doc')
<1> DEFINE r == req[w]
           y == doc[r.d]
           t == y.raced \/ r.seen # LiveOf(r.d)
           x == [y EXCEPT !.amt = r.a, !.edited = TRUE, !.raced = @ \/ r.seen # LiveOf(r.d)]
           e == Entry(r.d, "auto", Moves("expense", r.a), Now, "posted", Late(w))
<1>1. GoodOnDoc(r, doc, journal) /\ r.op = "edit" /\ Late(w) \in BOOLEAN
  BY DEF Types, Requests, Good, EditExpense, Posts, OnDoc, Late
<1>2. /\ y \in Document /\ r.d \in Doc /\ y.st # "none" /\ r.a \in Nat
      /\ journal \in Seq(Row) /\ Books(journal, r.d, y)
  BY <1>1, JournalAssumption DEF GoodOnDoc, Types, Known, AllBooks
<1>3. PICK p \in Picked(w) : journal' = Append(Turned(journal, p), e)
  BY <1>1, PickedEntries DEF EditExpense
<1>4. p \in SUBSET (DOMAIN journal) /\ \A i \in p : journal[i].d = r.d
  BY <1>1 DEF GoodOnDoc, Picked, LiveOf, Entries
<1>5. e \in Row /\ e.d = r.d
  <2>1. Moves("expense", r.a) \in [Account -> Int]
    BY <1>2, MovesType DEF Account
  <2> QED
    BY <1>1, <1>2, <2>1 DEF Entry, Row, Type, State, Month
<1>6. doc' = [doc EXCEPT ![r.d] = x] /\ doc \in [Doc -> Document]
  BY <1>2 DEF EditExpense, Types, Known
<1>7. x.edited /\ x.kind = y.kind /\ x.st = y.st /\ x.paid = y.paid
  BY <1>2 DEF Document
<1> HIDE DEF r, x, e
<1>8. PICK l \in Seq(Row) : l = Turned(journal, p)
  BY <1>2, <1>4, ReversedGrows
<1>9. journal' = Append(l, e) /\ journal' \in Seq(Row)
  BY <1>3, <1>5, <1>8, AppendFacts
<1> SUFFICES ASSUME NEW d \in Doc PROVE Books(journal', d, doc'[d])
  BY DEF AllBooks
<1>10. CASE d # r.d
  <2>1. Leaves(journal, l, d)
    BY <1>2, <1>4, <1>8, <1>10, LeavesReversed
  <2>2. Leaves(l, journal', d)
    BY <1>5, <1>9, <1>10, LeavesAppend
  <2>3. Leaves(journal, journal', d) /\ doc'[d] = doc[d]
    BY <1>2, <1>6, <1>9, <1>10, <2>1, <2>2, LeavesOrder
  <2> QED
    BY <1>2, <1>9, <2>3, BooksUntouched DEF Types
<1>11. CASE d = r.d
  <2>1. Facts(x) /\ x.st # "none" /\ ~Clean(x)
    BY <1>2, <1>7 DEF Books, Facts, Clean
  <2> QED
    BY <1>6, <1>11, <2>1, BooksTroubled
<1> QED
  BY <1>10, <1>11

\* A fee that is paid.
LEMMA PayBooks ==
  ASSUME Types, AllBooks(journal, doc), NEW w \in Worker, PayFee(w)
  PROVE  AllBooks(journal', doc')
<1> DEFINE r == req[w]
           y == doc[r.d]
           x == [y EXCEPT !.st = "paid", !.paid = TRUE, !.raced = @ \/ doc[r.d].st # r.st]
           e == Entry(r.d, "auto", Moves("balance", y.amt), Now, "posted", Late(w))
<1>1. /\ GoodOnDoc(r, doc, journal) /\ r.op = "pay" /\ r.st = "live"
      /\ Late(w) \in BOOLEAN
  BY DEF Types, Requests, Good, PayFee, Posts, OnDoc, Late
<1>2. /\ y \in Document /\ r.d \in Doc /\ y.st # "none" /\ y.amt \in Nat /\ y.kind = "fee"
      /\ journal \in Seq(Row) /\ Books(journal, r.d, y)
  BY <1>1 DEF GoodOnDoc, Types, Known, AllBooks, Document
<1>3. journal' = Append(journal, e) /\ doc' = [doc EXCEPT ![r.d] = x]
      /\ doc \in [Doc -> Document]
  BY <1>2 DEF PayFee, Types, Known
<1>4. e \in Row /\ e.d = r.d /\ e.of = 0 /\ ~e.rev /\ e.mv = Moves("balance", y.amt)
  <2>1. Moves("balance", y.amt) \in [Account -> Int]
    BY <1>2, MovesType DEF Account
  <2> QED
    BY <1>1, <1>2, <2>1 DEF Entry, Row, Type, State, Month
<1>5. PICK t \in BOOLEAN : t = (y.raced \/ y.st # r.st)
  OBVIOUS
<1>6. /\ x.st = "paid" /\ x.kind = "fee" /\ x.amt = y.amt
      /\ x.paid /\ x.edited = y.edited /\ x.clerk = y.clerk /\ x.raced = t
      /\ x \in Document
  <2>1. x = [y EXCEPT !.st = "paid", !.paid = TRUE, !.raced = t]
    BY <1>2, <1>5
  <2> HIDE DEF x
  <2>2. x.st = "paid" /\ x.kind = "fee" /\ x.amt = y.amt
    BY <1>2, <2>1 DEF Document
  <2>3. x.paid /\ x.edited = y.edited /\ x.clerk = y.clerk /\ x.raced = t
    BY <1>2, <2>1 DEF Document
  <2>4. x \in Document
    BY <1>2, <2>1 DEF Document
  <2> QED
    BY <2>2, <2>3, <2>4
<1> HIDE DEF r, x, e
<1>7. journal' \in Seq(Row)
  BY <1>2, <1>3, <1>4, AppendFacts
<1> SUFFICES ASSUME NEW d \in Doc PROVE Books(journal', d, doc'[d])
  BY DEF AllBooks
<1>8. CASE d # r.d
  <2>1. Leaves(journal, journal', d) /\ doc'[d] = doc[d]
    BY <1>2, <1>3, <1>4, <1>8, LeavesAppend
  <2> QED
    BY <1>7, <1>2, <2>1, BooksUntouched DEF Types
<1>9. CASE d = r.d
  <2>1. Clean(x) => Clean(y) /\ y.st = "live"
    BY <1>1, <1>2, <1>5, <1>6 DEF Clean
  <2>2. Books(Append(journal, e), r.d, x)
    BY <1>2, <1>4, <1>6, <2>1, BooksPaid
  <2> QED
    BY <1>3, <1>9, <1>2, <2>2
<1> QED
  BY <1>8, <1>9

\* A single entry that is reversed by hand.
LEMMA OneBooks ==
  ASSUME Types, AllBooks(journal, doc), NEW w \in Worker, ReverseEntry(w) \/ ReverseAdvanced(w)
  PROVE  AllBooks(journal', doc')
<1> DEFINE i == req[w].i
           b == journal[i].d
<1>1. GoodOnEntry(req[w], journal) /\ i \notin req[w].marks
  BY DEF Types, Requests, Good, ReverseEntry, ReverseAdvanced, Serves, Posts, OnEntry, MayReverse
<1>2. i \in DOMAIN journal /\ MarkClerk(i) /\ journal \in Seq(Row) /\ doc \in [Doc -> Document]
  BY <1>1 DEF GoodOnEntry, ReverseEntry, ReverseAdvanced, Types, Known
<1>3. /\ journal' = Turned(journal, {i}) \/ journal' = Advanced(journal, i, Late(w))
      /\ Late(w) \in BOOLEAN
  <2>1. CASE ReverseEntry(w)
    BY <1>1, <2>1, SameTurn DEF ReverseEntry, Late
  <2>2. CASE ReverseAdvanced(w)
    BY <1>1, <2>2, AdvancedIs DEF Late
  <2> QED
    BY <2>1, <2>2
<1>4. journal' \in Seq(Row)
  <2>1. i \in 1 .. Len(journal) /\ {i} \in SUBSET (DOMAIN journal)
    BY <1>2
  <2> HIDE DEF i
  <2> QED
    BY <1>2, <1>3, <2>1, ReversedGrows, AdvancedFacts
<1> SUFFICES ASSUME NEW d \in Doc PROVE Books(journal', d, doc'[d])
  BY DEF AllBooks
<1>5. CASE d # b
  <2>1. {i} \in SUBSET (DOMAIN journal) /\ \A a \in {i} : journal[a].d # d
    BY <1>2, <1>5
  <2>2. doc'[d] = doc[d]
    BY <1>2, <1>5 DEF MarkClerk
  <2> HIDE DEF i
  <2>3. Leaves(journal, journal', d)
    BY <1>2, <1>3, <1>5, <2>1, LeavesReversed, LeavesAdvanced
  <2> QED
    BY <1>2, <1>4, <2>2, <2>3, BooksUntouched DEF Types
<1>6. CASE d = b
  <2> DEFINE y == doc[d]
             x == [y EXCEPT !.clerk = TRUE]
  <2>1. doc'[d] = x /\ y \in Document
    BY <1>2, <1>6 DEF MarkClerk
  <2>2. x.clerk /\ x.kind = y.kind /\ x.st = y.st /\ x.paid = y.paid
    BY <2>1 DEF Document
  <2>3. Books(journal, d, y) /\ i \in OfDoc(journal, d)
    BY <1>2, <1>6 DEF AllBooks, OfDoc
  <2> HIDE DEF x
  <2>4. Facts(x) /\ x.st # "none" /\ ~Clean(x)
    BY <2>2, <2>3 DEF Books, Facts, Clean
  <2> QED
    BY <2>1, <2>4, BooksTroubled
<1> QED
  BY <1>5, <1>6

\* A posting that is for no document leaves the books.
LEMMA OtherBooks ==
  ASSUME Types, AllBooks(journal, doc), doc' = doc, NEW e \in Row, e.d \notin Doc,
         journal' = Append(journal, e)
  PROVE  AllBooks(journal', doc')
<1>1. journal \in Seq(Row) /\ journal' \in Seq(Row)
  BY AppendFacts DEF Types
<1>2. \A d \in Doc : Leaves(journal, journal', d)
  BY <1>1, LeavesAppend
<1> QED
  BY <1>1, <1>2, BooksAllUntouched

\* Every step keeps the books.
LEMMA NextBooks ==
  ASSUME Types, AllBooks(journal, doc), Next
  PROVE  AllBooks(journal', doc')
<1>1. CASE \E w \in Worker : Approve(w) \/ DeleteEntry(w)
  <2>1. PICK w \in Worker : Approve(w) \/ DeleteEntry(w)
    BY <1>1
  <2> DEFINE i == req[w].i
             b == journal[i].st # req[w].st
  <2>2. GoodOnEntry(req[w], journal)
    BY <2>1 DEF Types, Requests, Good, Approve, DeleteEntry, Serves, OnEntry
  <2>3. i \in DOMAIN journal /\ journal[i].st # "posted"
    BY <2>1, <2>2 DEF GoodOnEntry, Approve, DeleteEntry, MayDelete
  <2>4. PICK s \in State \ {"posted"} : SetStatus(w, s)
    BY <2>1 DEF Approve, DeleteEntry, State
  <2>5. journal' = WithStatus(journal, i, s, b) /\ doc' = doc /\ b \in BOOLEAN
    BY <2>4 DEF SetStatus, WithStatus
  <2>6. journal \in Seq(Row) /\ i \in 1 .. Len(journal)
    BY <2>3 DEF Types
  <2> HIDE DEF i, b
  <2>7. journal' \in Seq(Row)
    BY <2>3, <2>5, <2>6, StatusFacts
  <2>8. \A d \in Doc : Leaves(journal, journal', d)
    BY <2>3, <2>5, <2>6, LeavesStatus
  <2> QED
    BY <2>5, <2>7, <2>8, BooksAllUntouched
<1>2. CASE \E w \in Worker : CloseYear(w)
  <2>1. PICK w \in Worker : CloseYear(w)
    BY <1>2
  <2>2. req[w].pl \in [Account -> Int]
    BY <2>1 DEF Types, Requests, Good, CloseYear, Serves
  <2>3. PICK e \in Row : e = ClosingEntry(req[w].pl) /\ e.d = "closing"
    BY <2>2, ClosingRow DEF Fresh
  <2>4. journal' = Append(journal, e) /\ doc' = doc
    BY <2>1, <2>3 DEF CloseYear, ClosingEntry
  <2> QED
    BY <2>3, <2>4, OtherBooks, JournalAssumption
<1>3. CASE \E w \in Worker : CreateManual(w)
  <2>1. PICK w \in Worker : CreateManual(w)
    BY <1>3
  <2> DEFINE e == Entry("manual", "manual", req[w].pl, Now, "draft", Late(w))
  <2>2. e \in Row /\ e.d = "manual"
    <3>1. req[w].pl \in [Account -> Int]
      BY <2>1 DEF Types, Requests, Good, GoodManual, CreateManual, Serves
    <3> QED
      BY <3>1 DEF Entry, Row, Type, State, Month, Late
  <2>3. journal' = Append(journal, e) /\ doc' = doc
    BY <2>1 DEF CreateManual
  <2> HIDE DEF e
  <2> QED
    BY <2>2, <2>3, OtherBooks, JournalAssumption
<1>4. ASSUME journal' = journal, doc' = doc
      PROVE  AllBooks(journal', doc')
  BY <1>4
<1>5. ASSUME NEW w \in Worker, Ask(w) \/ CheckMonth(w) \/ GiveUp(w)
      PROVE  AllBooks(journal', doc')
  BY <1>4, <1>5, AskTypes DEF CheckMonth, GiveUp
<1>6. ASSUME NEW m \in Month, ClosePeriod(m) \/ OpenPeriod(m)
      PROVE  AllBooks(journal', doc')
  BY <1>4, <1>6 DEF ClosePeriod, OpenPeriod
<1>7. CASE Done
  BY <1>4, <1>7 DEF Done, vars
<1> QED
  BY <1>1, <1>2, <1>3, <1>5, <1>6, <1>7, PostBooks, CancelBooks, EditBooks, PayBooks, OneBooks
  DEF Next, Serve, Write

\* The entries of a document add up to its amount while it stands and to nothing once it
\* is cancelled, whatever was asked of it, in any order (post_or_fail, reverse_entry,
\* cancel_sale, cancel_purchase, the cancellation of an expense, waive_fee,
\* record_payment).
THEOREM DocumentsBalance == Spec => []DocumentNet
<1> DEFINE Inv == Types /\ AllBooks(journal, doc)
<1>1. Init => Inv
  <2> SUFFICES ASSUME Init, NEW d \in Doc PROVE Books(journal, d, doc[d])
    BY TypesInit DEF AllBooks
  <2>1. doc[d] = NoDoc /\ OfDoc(journal, d) = {}
    BY DEF Init, OfDoc
  <2> QED
    BY <2>1 DEF Books, Facts, Clean, NoDoc
<1>2. Inv /\ [Next]_vars => Inv'
  <2>1. ASSUME Inv, Next PROVE Inv'
    BY <2>1, NextTypes, NextBooks
  <2>2. ASSUME Inv, UNCHANGED vars PROVE Inv'
    BY <2>2 DEF vars, Types
  <2> QED
    BY <2>1, <2>2
<1>3. Inv => DocumentNet
  <2> SUFFICES ASSUME Inv, NEW d \in Doc, Untroubled(d), ~doc[d].edited
               PROVE  /\ Net(d, AccountOf(doc[d].kind)) = IF Gone(d) THEN 0
                                            ELSE Signed(doc[d].kind, doc[d].amt)
                      /\ doc[d].kind = "fee" => Net(d, "balance") = IF doc[d].paid
                                                                  THEN doc[d].amt ELSE 0
    BY DEF DocumentNet
  <2>1. Clean(doc[d]) /\ Amounting(journal, d, doc[d])
    BY DEF AllBooks, Books, Clean, Untroubled
  <2>2. \A x : Net(d, x) = NetIn(journal, d, x)
    BY DEF Net, NetIn, OfDoc, Entries
  <2>3. Gone(d) <=> GoneDoc(doc[d])
    BY DEF Gone, GoneDoc
  <2> QED
    BY <2>1, <2>2, <2>3 DEF Amounting
<1> HIDE DEF Inv
<1> QED
  BY <1>1, <1>2, <1>3, PTL DEF Spec

---------------------------------------------------------------------------
(***************************************************************************)
(* The closing of the year.                                                *)
(***************************************************************************)

\* What was posted in the year before entry i, on an account.
Posted(j)        == {a \in DOMAIN j : j[a].st = "posted" /\ j[a].m = Year}
Earlier(j, i)    == {a \in Posted(j) : a < i}
YearSum(j, i, x) == SumFunctionOnSet(Moved(j, x), Earlier(j, i))

\* A closing entry took off what was posted in the year before it.
Closed(j, i) == j[i].type = "closing" =>
    /\ j[i].st = "posted" /\ j[i].m = Year
    /\ ~j[i].raced => \A x \in {"revenue", "expense"} : j[i].mv[x] = -Abs(YearSum(j, i, x))

YearsClosed(j) == \A i \in DOMAIN j : Closed(j, i)

\* The entries of the year are finitely many, and move numbers.
LEMMA PostedFinite ==
  ASSUME NEW j \in Seq(Row), NEW i \in Int, NEW x \in Account
  PROVE  /\ IsFiniteSet(Earlier(j, i))
         /\ \A a \in DOMAIN j : Moved(j, x)[a] = j[a].mv[x] /\ Moved(j, x)[a] \in Int
         /\ YearSum(j, i, x) \in Int
<1> DEFINE S == Earlier(j, i)
<1>1. DOMAIN j = 1 .. Len(j) /\ Len(j) \in Nat /\ \A a \in DOMAIN j : j[a] \in Row
  OBVIOUS
<1>2. IsFiniteSet(S)
  <2>1. IsFiniteSet(DOMAIN j) /\ S \in SUBSET (DOMAIN j)
    BY <1>1, FS_Interval DEF Posted, Earlier
  <2> HIDE DEF S
  <2> QED
    BY <2>1, FS_Subset
<1>3. \A a \in DOMAIN j : Moved(j, x)[a] = j[a].mv[x] /\ Moved(j, x)[a] \in Int
  BY <1>1 DEF Moved, Row
<1>4. \A a \in S : Moved(j, x)[a] \in Int
  BY <1>3 DEF Posted, Earlier
<1> HIDE DEF S
<1>5. SumFunctionOnSet(Moved(j, x), S) \in Int
  BY <1>2, <1>4, SumType
<1> QED
  BY <1>2, <1>3, <1>5 DEF YearSum, S

\* The balance of the year over the first entries, and over all of them.
LEMMA BalanceIsYearSum ==
  ASSUME NEW j \in Seq(Row), NEW n \in 0 .. Len(j), NEW x \in Account
  PROVE  Balance(SubSeq(j, 1, n), x, {Year}) = YearSum(j, n + 1, x)
<1>1. \A a \in 1 .. n : j[a] \in Row
  OBVIOUS
<1>2. PICK k \in Seq(Row) : /\ k = SubSeq(j, 1, n) /\ Len(k) = n
                            /\ \A a \in 1 .. n : k[a] = j[a]
  <2>1. /\ SubSeq(j, 1, n) \in Seq(Row)
        /\ Len(SubSeq(j, 1, n)) = IF 1 <= n THEN n - 1 + 1 ELSE 0
        /\ \A a \in 1 .. n - 1 + 1 : SubSeq(j, 1, n)[a] = j[1 + a - 1]
    BY <1>1, SubSeqProperties
  <2>2. n \in Nat /\ n - 1 + 1 = n /\ \A a \in 1 .. n : 1 + a - 1 = a
    OBVIOUS
  <2>3. Len(SubSeq(j, 1, n)) = n
    BY <2>1, <2>2
  <2> QED
    BY <2>1, <2>2, <2>3
<1>3. DOMAIN k = 1 .. n /\ DOMAIN j = 1 .. Len(j) /\ n \in Nat /\ Len(j) \in Nat
  BY <1>2
<1> DEFINE S == Earlier(j, n + 1)
<1>4. {a \in DOMAIN k : k[a].st = "posted" /\ k[a].m \in {Year}} = S
  BY <1>2, <1>3 DEF Posted, Earlier
<1>5. IsFiniteSet(S)
  BY <1>3, PostedFinite
<1>6. \A a \in S : Moved(k, x)[a] = Moved(j, x)[a]
  BY <1>2, <1>3 DEF Posted, Earlier, Moved
<1> HIDE DEF S
<1>7. SumFunctionOnSet(Moved(k, x), S) = SumFunctionOnSet(Moved(j, x), S)
  BY <1>5, <1>6, SumSame
<1> QED
  BY <1>2, <1>4, <1>7 DEF Balance, YearSum, S

\* A journal that goes on keeps what was posted in the year before an entry.
LEMMA YearSumGrows ==
  ASSUME NEW j \in Seq(Row), NEW k \in Seq(Row), Grows(j, k), NEW i \in 1 .. Len(j) + 1,
         NEW x \in Account
  PROVE  YearSum(k, i, x) = YearSum(j, i, x)
<1> DEFINE S == Earlier(j, i)
<1>1. /\ DOMAIN j = 1 .. Len(j) /\ DOMAIN k = 1 .. Len(k) /\ Len(j) \in Nat /\ Len(k) \in Nat
      /\ Len(j) <= Len(k)
  BY DEF Grows
<1>2. \A a \in DOMAIN j : /\ a \in DOMAIN k /\ k[a].m = j[a].m /\ k[a].mv = j[a].mv
                          /\ k[a].st = "posted" <=> j[a].st = "posted"
  BY <1>1 DEF Grows, Kept
<1>3. \A a \in DOMAIN k : a < i => a \in DOMAIN j
  BY <1>1
<1>4. Earlier(k, i) = S
  BY <1>2, <1>3 DEF Posted, Earlier
<1>5. \A a \in S : Moved(j, x)[a] = Moved(k, x)[a]
  BY <1>2 DEF Posted, Earlier, Moved
<1>6. IsFiniteSet(S)
  <2>1. i \in Int
    BY <1>1
  <2> QED
    BY <2>1, PostedFinite
<1> HIDE DEF S
<1>7. SumFunctionOnSet(Moved(j, x), S) = SumFunctionOnSet(Moved(k, x), S)
  BY <1>5, <1>6, SumSame
<1> QED
  BY <1>4, <1>7 DEF YearSum, S

\* The old closing entries stay closed; the new ones have to be.
LEMMA YearsGrow ==
  ASSUME NEW j \in Seq(Row), YearsClosed(j), NEW k \in Seq(Row), Grows(j, k),
         \A i \in DOMAIN k \ DOMAIN j : Closed(k, i)
  PROVE  YearsClosed(k)
<1> SUFFICES ASSUME NEW i \in DOMAIN j, i \in DOMAIN k PROVE Closed(k, i)
  BY DEF YearsClosed
<1>1. i \in 1 .. Len(j) /\ i \in 1 .. Len(j) + 1 /\ Kept(j[i], k[i])
  <2>1. i \in 1 .. Len(j) /\ Len(j) \in Nat
    OBVIOUS
  <2> QED
    BY <2>1 DEF Grows
<1>2. "revenue" \in Account /\ "expense" \in Account
  BY DEF Account
<1>3. /\ YearSum(k, i, "revenue") = YearSum(j, i, "revenue")
      /\ YearSum(k, i, "expense") = YearSum(j, i, "expense")
  BY <1>1, <1>2, YearSumGrows
<1>4. Closed(j, i)
  BY DEF YearsClosed
<1> QED
  BY <1>1, <1>3, <1>4 DEF Closed, Kept

\* Every step keeps the closed years.
LEMMA YearsStep ==
  ASSUME NEW j \in Seq(Row), YearsClosed(j), NEW k, Step(j, k)
  PROVE  YearsClosed(k)
<1>0. DOMAIN j = 1 .. Len(j) /\ Len(j) \in Nat
  OBVIOUS
<1>1. ASSUME NEW l \in Seq(Row), YearsClosed(l), NEW e \in Fresh,
             k = Append(l, e), Closes(l, e)
      PROVE  YearsClosed(k)
  <2> DEFINE n == Len(l) + 1
  <2>1. e \in Row /\ Len(l) \in Nat /\ DOMAIN l = 1 .. Len(l)
    BY DEF Fresh
  <2>2. k \in Seq(Row) /\ Len(k) = n /\ Grows(l, k) /\ k[n] = e
    BY <1>1, <2>1, AppendFacts
  <2>3. DOMAIN k \ DOMAIN l = {n}
    BY <2>1, <2>2
  <2>4. ASSUME NEW x \in Account PROVE Balance(l, x, {Year}) = YearSum(k, n, x)
    <3>1. SubSeq(l, 1, Len(l)) = l /\ Len(l) \in 0 .. Len(l) /\ n \in 1 .. Len(l) + 1
      BY <2>1
    <3>2. Balance(l, x, {Year}) = YearSum(l, n, x)
      BY <3>1, BalanceIsYearSum
    <3> QED
      BY <2>2, <3>1, <3>2, YearSumGrows
  <2>5. "revenue" \in Account /\ "expense" \in Account
    BY DEF Account
  <2>6. Closed(k, n)
    BY <1>1, <2>2, <2>4, <2>5 DEF Closed, Closes
  <2> QED
    BY <1>1, <2>2, <2>3, <2>6, YearsGrow
<1>2. ASSUME NEW l \in Seq(Row), Grows(j, l),
             \A i \in DOMAIN l \ DOMAIN j : l[i].type # "closing"
      PROVE  YearsClosed(l)
  BY <1>2, YearsGrow DEF Closed
<1>3. ASSUME NEW p \in SUBSET (DOMAIN j)
      PROVE  Turned(j, p) \in Seq(Row) /\ YearsClosed(Turned(j, p))
  <2> DEFINE n == Len(j)
             c == Cardinality(p)
  <2>1. PICK l \in Seq(Row) :
          /\ l = Turned(j, p) /\ Len(l) = n + c /\ c \in Nat /\ Grows(j, l)
          /\ \A i \in n + 1 .. n + c : l[i].of \in p /\ l[i] = Mirror(j[l[i].of], l[i].of)
    BY ReversedFacts, ReversedGrows
  <2>2. /\ n \in Nat /\ DOMAIN j = 1 .. n /\ DOMAIN l = 1 .. n + c
        /\ \A i \in DOMAIN j : j[i] \in Row /\ i \in Nat
    BY <2>1
  <2> HIDE DEF n, c
  <2>3. \A i \in DOMAIN l \ DOMAIN j : i \in n + 1 .. n + c
    BY <2>1, <2>2
  <2>4. \A i \in p : Mirror(j[i], i).type = "reversing"
    BY <2>2, MirrorRow
  <2>5. \A i \in DOMAIN l \ DOMAIN j : l[i].type # "closing"
    BY <2>1, <2>3, <2>4
  <2> QED
    BY <1>2, <2>1, <2>5
<1>4. CASE \E e \in Fresh : Closes(j, e) /\ k = Append(j, e)
  BY <1>1, <1>4
<1>5. CASE \E p \in SUBSET (DOMAIN j) : \E e \in Fresh :
             e.type # "closing" /\ k = Append(Turned(j, p), e)
  <2>1. PICK p \in SUBSET (DOMAIN j) : \E e \in Fresh :
               e.type # "closing" /\ k = Append(Turned(j, p), e)
    BY <1>5
  <2>2. PICK l \in Seq(Row) : l = Turned(j, p) /\ YearsClosed(l)
    BY <1>3
  <2> QED
    BY <1>1, <2>1, <2>2 DEF Closes
<1>6. CASE \E i \in DOMAIN j, late \in BOOLEAN : k = Advanced(j, i, late)
  <2>1. PICK i \in 1 .. Len(j), late \in BOOLEAN : k = Advanced(j, i, late)
    BY <1>0, <1>6
  <2>2. /\ k \in Seq(Row) /\ Len(k) = Len(j) + 1 /\ Grows(j, k)
        /\ k[Len(j) + 1].type = "reversing"
    BY <2>1, AdvancedFacts
  <2>4. DOMAIN k \ DOMAIN j = {Len(j) + 1}
    BY <1>0, <2>2
  <2> QED
    BY <1>2, <2>2, <2>4
<1>7. CASE \E i \in DOMAIN j, s \in State \ {"posted"}, b \in BOOLEAN :
             j[i].st # "posted" /\ k = WithStatus(j, i, s, b)
  <2>1. PICK i \in 1 .. Len(j), s \in State \ {"posted"}, b \in BOOLEAN :
               j[i].st # "posted" /\ k = WithStatus(j, i, s, b)
    BY <1>0, <1>7
  <2>2. k \in Seq(Row) /\ Len(k) = Len(j) /\ Grows(j, k)
    BY <2>1, StatusFacts
  <2>3. DOMAIN k \ DOMAIN j = {}
    BY <1>0, <2>2
  <2> QED
    BY <1>2, <2>2, <2>3
<1> QED
  BY <1>3, <1>4, <1>5, <1>6, <1>7 DEF Step

\* What was posted up to a posting of the year is what was posted before, and the posting.
LEMMA YearSumAdds ==
  ASSUME NEW j \in Seq(Row), NEW i \in Posted(j), NEW x \in Account
  PROVE  YearSum(j, i + 1, x) = YearSum(j, i, x) + j[i].mv[x]
<1> DEFINE S == Earlier(j, i)
<1>1. \A a \in Posted(j) : a \in DOMAIN j /\ a \in Int
  BY DEF Posted, Earlier
<1>2. Earlier(j, i + 1) = S \union {i} /\ i \notin S
  BY <1>1 DEF Earlier
<1>3. /\ IsFiniteSet(S)
      /\ \A a \in DOMAIN j : Moved(j, x)[a] = j[a].mv[x] /\ Moved(j, x)[a] \in Int
  BY <1>1, PostedFinite
<1>4. \A a \in S : Moved(j, x)[a] \in Int
  BY <1>1, <1>3 DEF Earlier
<1> HIDE DEF S
<1>5. SumFunctionOnSet(Moved(j, x), S \union {i}) =
          SumFunctionOnSet(Moved(j, x), S) + Moved(j, x)[i]
  BY <1>1, <1>2, <1>3, <1>4, SumAdds
<1> QED
  BY <1>1, <1>2, <1>3, <1>5 DEF YearSum, S

\* After a closing entry the revenue and the expenses of the year are zero, or doubled if
\* they stood on their other side (close_fiscal_year), unless an entry slipped in between
\* the computation and this or an earlier closing.
THEOREM YearCloses == Spec => []YearEndZero
<1> DEFINE Inv == Types /\ YearsClosed(journal)
<1>1. Init => Inv
  BY TypesInit DEF Init, YearsClosed
<1>2. Inv /\ [Next]_vars => Inv'
  <2>1. ASSUME Inv, Next PROVE Inv'
    BY <2>1, NextTypes, YearsStep DEF Types
  <2>2. ASSUME Inv, UNCHANGED vars PROVE Inv'
    BY <2>2 DEF vars, Types
  <2> QED
    BY <2>1, <2>2
<1>3. ASSUME Inv PROVE YearEndZero
  <2>0. journal \in Seq(Row)
    BY <1>3 DEF Types
  <2>7. \A a \in Entries : a \in 1 .. a
    BY <2>0 DEF Entries
  <2> SUFFICES ASSUME Inv, NEW i \in Entries, journal[i].type = "closing", ~journal[i].raced,
                      NEW x \in {"revenue", "expense"}
               PROVE  LET before == Balance(SubSeq(journal, 1, i - 1), x, {Year}) IN
                      Balance(SubSeq(journal, 1, i), x, {Year})
                          = IF before < 0 THEN 2 * before ELSE 0
    BY <1>3, <2>7 DEF YearEndZero
  <2>1. /\ journal \in Seq(Row) /\ i \in 1 .. Len(journal) /\ i \in DOMAIN journal /\ x \in Account
        /\ i - 1 \in 0 .. Len(journal) /\ i \in 0 .. Len(journal) /\ (i - 1) + 1 = i
    BY DEF Types, Entries, Account
  <2> DEFINE before == Balance(SubSeq(journal, 1, i - 1), x, {Year})
             after  == Balance(SubSeq(journal, 1, i), x, {Year})
  <2>2. before = YearSum(journal, i, x) /\ after = YearSum(journal, i + 1, x)
    BY <2>1, BalanceIsYearSum
  <2>3. i \in Posted(journal) /\ journal[i].mv[x] = -Abs(YearSum(journal, i, x))
    BY <2>1 DEF YearsClosed, Closed, Posted
  <2>4. after = before + journal[i].mv[x] /\ before \in Int
    BY <2>1, <2>2, <2>3, YearSumAdds, PostedFinite
  <2>5. after = before + (-Abs(before))
    BY <2>2, <2>3, <2>4
  <2> HIDE DEF before, after
  <2>6. after = IF before < 0 THEN 2 * before ELSE 0
    BY <2>4, <2>5 DEF Abs
  <2> QED
    BY <2>6 DEF before, after
<1> HIDE DEF Inv
<1> QED
  BY <1>1, <1>2, <1>3, PTL DEF Spec
=============================================================================
