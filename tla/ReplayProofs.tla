---------------------------- MODULE ReplayProofs ----------------------------
(***************************************************************************)
(* What is proved of the recording of a run and of its replay.  A viewer   *)
(* who follows the moves of the steps finds every token where the run left *)
(* it; the timeline is the whole run, and the functions that look a        *)
(* position up agree about it; and playback goes on.                       *)
(***************************************************************************)
EXTENDS Replay, SequenceTheorems, FiniteSetTheorems, WellFoundedInduction, TLAPS

-----------------------------------------------------------------------------
\* Induction over the naturals, with a set.
LEMMA NatSetInduction ==
  ASSUME NEW S, 0 \in S, \A n \in Nat : n \in S => n + 1 \in S
  PROVE  Nat \subseteq S
<1> DEFINE R == OpToRel(<, Nat)
           T == Nat \ S
<1>1. IsWellFoundedOn(R, Nat)
  BY NatLessThanWellFounded
<1>2. \A x, y \in Nat : x < y => <<x, y>> \in R
  BY DEF OpToRel
<1> HIDE DEF R
<1>3. SUFFICES ASSUME T # {} PROVE FALSE
  OBVIOUS
<1>4. PICK x \in T : \A y \in T : <<y, x>> \notin R
  <2>1. T \subseteq Nat
    OBVIOUS
  <2> HIDE DEF T
  <2> QED BY <1>1, <1>3, <2>1, WFMin
<1>5. x \in Nat /\ x # 0 /\ x \notin S
  OBVIOUS
<1>6. x - 1 \in Nat /\ x - 1 < x /\ x = (x - 1) + 1
  BY <1>5
<1>7. x - 1 \in S
  BY <1>2, <1>4, <1>5, <1>6
<1> QED BY <1>5, <1>6, <1>7

\* The least of a set of numbers.
LEMMA LeastNumber ==
  ASSUME NEW S \in SUBSET Nat, S # {}
  PROVE  \E x \in S : \A y \in S : x <= y
<1> DEFINE R == OpToRel(<, Nat)
<1>1. IsWellFoundedOn(R, Nat)
  BY NatLessThanWellFounded
<1>2. \A x, y \in Nat : x < y => <<x, y>> \in R
  BY DEF OpToRel
<1> HIDE DEF R
<1>3. PICK x \in S : \A y \in S : <<y, x>> \notin R
  BY <1>1, WFMin
<1>4. \A y \in S : x <= y
  <2> TAKE y \in S
  <2>1. x \in Nat /\ y \in Nat OBVIOUS
  <2>2. ~(y < x) BY <1>2, <1>3, <2>1
  <2> QED BY <2>1, <2>2
<1> QED BY <1>4

-----------------------------------------------------------------------------
(* The moves of one step, from the places before it. *)

Locs == [node : Goroutines \cup {"slice", "stdout", "gone"}, slot : Int]
MoveRecs == [tok : Nat, from : Locs, to : Locs, born : BOOLEAN]
Toks(moves) == {moves[i].tok : i \in 1..Len(moves)}

\* What a token's move says of where it was and where it is.
Says(b, at, m) ==
  /\ IF m.born THEN m.tok \notin DOMAIN b ELSE m.tok \in DOMAIN b /\ b[m.tok] = m.from
  /\ IF m.to = Rec!Gone THEN m.tok \notin DOMAIN at ELSE m.tok \in DOMAIN at /\ at[m.tok] = m.to

\* A build tells how the places of b became those it has: each token has moved
\* once at most.
Shaped(s) ==
  /\ s = [loc |-> s.loc, moves |-> s.moves, made |-> s.made]
  /\ s.moves \in Seq(MoveRecs) /\ s.made \in Nat
  /\ s.loc = [k \in DOMAIN s.loc |-> s.loc[k]]
  /\ DOMAIN s.loc \subseteq 1..s.made /\ \A k \in DOMAIN s.loc : s.loc[k] \in Locs
Tells(b, s) ==
  /\ Shaped(s)
  /\ \A i, j \in 1..Len(s.moves) : s.moves[i].tok = s.moves[j].tok => i = j
  /\ \A i \in 1..Len(s.moves) : Says(b, s.loc, s.moves[i])
  /\ \A k : k \notin Toks(s.moves) => (k \in DOMAIN s.loc <=> k \in DOMAIN b)
  /\ \A k \in DOMAIN s.loc : k \notin Toks(s.moves) => s.loc[k] = b[k]

\* A token may move if it has not, or if it was born in this step and is where it was.
Born(moves, tok) == \E j \in 1..Len(moves) : Rec!IsBirth(moves[j], tok)
Free(moves, tok) == tok \notin Toks(moves) \/ Born(moves, tok)

\* A sequence without one of its elements.
LEMMA Removed ==
  ASSUME NEW S, NEW q \in Seq(S), NEW j \in 1..Len(q)
  PROVE  /\ Rec!RemoveAt(q, j) \in Seq(S) /\ Len(Rec!RemoveAt(q, j)) = Len(q) - 1
         /\ \A i \in 1..(Len(q) - 1) : Rec!RemoveAt(q, j)[i] = IF i < j THEN q[i] ELSE q[i + 1]
<1> DEFINE a == SubSeq(q, 1, j - 1)
           b == SubSeq(q, j + 1, Len(q))
<1>1. Len(q) \in Nat /\ j \in Nat /\ 1 <= j /\ j <= Len(q) /\ \A i \in 1..Len(q) : q[i] \in S
  BY LenProperties, ElementOfSeq
<1>2. a \in Seq(S) /\ Len(a) = j - 1 /\ \A i \in 1..(j - 1) : a[i] = q[i]
  <2>1. \A i \in 1..(j - 1) : q[i] \in S BY <1>1
  <2>2. /\ a \in Seq(S) /\ Len(a) = IF 1 <= j - 1 THEN (j - 1) - 1 + 1 ELSE 0
        /\ \A i \in 1..((j - 1) - 1 + 1) : a[i] = q[1 + i - 1]
    BY <1>1, <2>1, SubSeqProperties
  <2> HIDE DEF a
  <2> QED BY <1>1, <2>2
<1>3. b \in Seq(S) /\ Len(b) = Len(q) - j /\ \A i \in 1..(Len(q) - j) : b[i] = q[j + i]
  <2>1. \A i \in (j + 1)..Len(q) : q[i] \in S BY <1>1
  <2>2. /\ b \in Seq(S) /\ Len(b) = IF j + 1 <= Len(q) THEN Len(q) - (j + 1) + 1 ELSE 0
        /\ \A i \in 1..(Len(q) - (j + 1) + 1) : b[i] = q[j + 1 + i - 1]
    BY <1>1, <2>1, SubSeqProperties
  <2> HIDE DEF b
  <2> QED BY <1>1, <2>2
<1>4. Rec!RemoveAt(q, j) = a \o b BY DEF Rec!RemoveAt
<1> HIDE DEF a, b
<1>5. /\ a \o b \in Seq(S) /\ Len(a \o b) = Len(a) + Len(b)
      /\ \A i \in 1..(Len(a) + Len(b)) : (a \o b)[i] = IF i <= Len(a) THEN a[i] ELSE b[i - Len(a)]
  BY <1>2, <1>3, ConcatProperties
<1>6. ASSUME NEW i \in 1..(Len(q) - 1)
      PROVE  (a \o b)[i] = IF i < j THEN q[i] ELSE q[i + 1]
  <2>1. CASE i < j BY <1>1, <1>2, <1>3, <1>5, <2>1
  <2>2. CASE ~(i < j)
    <3>1. i - Len(a) \in 1..(Len(q) - j) /\ j + (i - Len(a)) = i + 1 BY <1>1, <1>2, <2>2
    <3>2. (a \o b)[i] = b[i - Len(a)] BY <1>1, <1>2, <1>3, <1>5, <2>2
    <3> QED BY <1>3, <2>2, <3>1, <3>2
  <2> QED BY <2>1, <2>2
<1> QED BY <1>1, <1>2, <1>3, <1>4, <1>5, <1>6

\* The moves of Sim.move: those there were, without a birth, and one more.
OneMore(q, tok, from, to, r) ==
  /\ r \in Seq(MoveRecs) /\ Toks(r) = Toks(q) \cup {tok}
  /\ \A i, j \in 1..Len(r) : r[i].tok = r[j].tok => i = j
  /\ \A i \in 1..Len(r) : \/ r[i].tok # tok /\ \E j \in 1..Len(q) : r[i] = q[j]
                          \/ /\ r[i].tok = tok /\ r[i].from = from /\ r[i].to = to
                             /\ r[i].born <=> Born(q, tok)
  /\ \A j \in 1..Len(q) : q[j].tok # tok => \E i \in 1..Len(r) : r[i] = q[j]

LEMMA MovesAfter ==
  ASSUME NEW q \in Seq(MoveRecs), NEW tok \in Nat, NEW from \in Locs, NEW to \in Locs,
         \A i, j \in 1..Len(q) : q[i].tok = q[j].tok => i = j,
         Free(q, tok),
         NEW r, r = Rec!MovesWith(q, tok, from, to)
  PROVE  OneMore(q, tok, from, to, r)
<1> DEFINE I == {i \in 1..Len(q) : Rec!IsBirth(q[i], tok)}
           birth == Rec!BirthOf(q, tok)
<1>1. birth = IF I # {} THEN Rec!Min(I) ELSE 0 BY DEF Rec!BirthOf, Rec!SelectInSeq
<1>2. I \in SUBSET Nat /\ Len(q) \in Nat BY LenProperties
<1>3. Born(q, tok) <=> I # {} BY DEF Born
<1> HIDE DEF I, birth
<1>4. CASE I = {}
  <2>1. birth = 0 /\ ~Born(q, tok) /\ tok \notin Toks(q) BY <1>1, <1>3, <1>4 DEF Free
  <2>2. PICK m : m = [tok |-> tok, from |-> from, to |-> to, born |-> FALSE] OBVIOUS
  <2>20. m \in MoveRecs BY <2>2 DEF MoveRecs
  <2>21. m.tok = tok /\ m.from = from /\ m.to = to /\ m.born = FALSE BY <2>2
  <2>22. r = Append(q, m)
    <3>1. r = Append(q, [tok |-> tok, from |-> from, to |-> to, born |-> birth > 0])
      BY <2>1 DEF Rec!MovesWith, birth
    <3>2. (birth > 0) = FALSE BY <2>1
    <3> QED BY <2>2, <3>1, <3>2
  <2>3. /\ r \in Seq(MoveRecs) /\ Len(r) = Len(q) + 1 /\ r[Len(q) + 1] = m
        /\ \A i \in 1..Len(q) : r[i] = q[i]
    BY <2>20, <2>22, AppendProperties
  <2>4. \A i \in 1..Len(r) : i \in 1..Len(q) \/ i = Len(q) + 1 BY <1>2, <2>3
  <2>5. \A i \in 1..Len(q) : q[i].tok # tok BY <2>1 DEF Toks
  <2>6. \A i \in 1..Len(q) : i \in 1..Len(r) BY <1>2, <2>3
  <2>7. Len(q) + 1 \in 1..Len(r) BY <1>2, <2>3
  <2>9. Toks(r) = Toks(q) \cup {tok}
    <3>1. \A x \in Toks(r) : x \in Toks(q) \cup {tok} BY <2>3, <2>4, <2>21 DEF Toks
    <3>2. tok \in Toks(r) BY <2>3, <2>7, <2>21 DEF Toks
    <3>3. \A x \in Toks(q) : x \in Toks(r) BY <2>3, <2>6 DEF Toks
    <3> QED BY <3>1, <3>2, <3>3
  <2>10. \A i, j \in 1..Len(r) : r[i].tok = r[j].tok => i = j BY <2>3, <2>4, <2>5, <2>21
  <2>11. \A i \in 1..Len(r) : r[i] = m \/ (r[i].tok # tok /\ \E j \in 1..Len(q) : r[i] = q[j])
    BY <2>3, <2>4, <2>5
  <2>12. \A j \in 1..Len(q) : \E i \in 1..Len(r) : r[i] = q[j] BY <2>3, <2>6
  <2>13. r[Len(q) + 1] = m /\ (m.born <=> Born(q, tok)) BY <2>1, <2>3, <2>21
  <2> QED BY <2>3, <2>9, <2>10, <2>11, <2>12, <2>13, <2>21 DEF OneMore
<1>5. CASE I # {}
  <2>1. birth \in I
    <3>1. \E x \in I : \A y \in I : x <= y BY <1>2, <1>5, LeastNumber
    <3> QED BY <1>1, <1>5, <3>1 DEF Rec!Min
  <2>2. birth \in 1..Len(q) /\ q[birth].tok = tok /\ birth > 0
    BY <1>2, <2>1 DEF I, Rec!IsBirth
  <2> DEFINE rest == Rec!RemoveAt(q, birth)
  <2>3. /\ rest \in Seq(MoveRecs) /\ Len(rest) = Len(q) - 1
        /\ \A i \in 1..(Len(q) - 1) : rest[i] = IF i < birth THEN q[i] ELSE q[i + 1]
    BY <2>2, Removed
  <2>40. PICK m : m = [tok |-> tok, from |-> from, to |-> to, born |-> TRUE] OBVIOUS
  <2>41. m \in MoveRecs BY <2>40 DEF MoveRecs
  <2>13. m.tok = tok /\ m.from = from /\ m.to = to /\ m.born = TRUE BY <2>40
  <2>4. r = Append(rest, m)
    <3>1. r = Append(rest, [tok |-> tok, from |-> from, to |-> to, born |-> birth > 0])
      BY <2>2 DEF Rec!MovesWith, birth
    <3>2. (birth > 0) = TRUE BY <2>2
    <3> QED BY <2>40, <3>1, <3>2
  <2> HIDE DEF rest
  <2>5. /\ r \in Seq(MoveRecs) /\ Len(r) = Len(q) /\ r[Len(q)] = m
        /\ \A i \in 1..(Len(q) - 1) : r[i] = rest[i]
    BY <1>2, <2>3, <2>4, <2>41, AppendProperties
  <2> DEFINE old(i) == IF i < birth THEN i ELSE i + 1
  <2>6. ASSUME NEW i \in 1..(Len(q) - 1)
        PROVE  old(i) \in 1..Len(q) /\ old(i) # birth /\ r[i] = q[old(i)]
    BY <1>2, <2>2, <2>3, <2>5
  <2>7. \A i, j \in 1..(Len(q) - 1) : old(i) = old(j) => i = j BY <1>2, <2>2
  <2>8. \A k \in 1..Len(q) : k # birth => \E i \in 1..(Len(q) - 1) : old(i) = k
    <3> TAKE k \in 1..Len(q)
    <3>1. CASE k < birth
      <4>1. k \in 1..(Len(q) - 1) /\ old(k) = k BY <1>2, <2>2, <3>1
      <4> QED BY <4>1
    <3>2. CASE k > birth
      <4>1. k - 1 \in 1..(Len(q) - 1) /\ old(k - 1) = k BY <1>2, <2>2, <3>2
      <4> QED BY <4>1
    <3> QED BY <1>2, <2>2, <3>1, <3>2
  <2> HIDE DEF old
  <2>9. \A i \in 1..(Len(q) - 1) : r[i].tok # tok BY <2>2, <2>6
  <2>10. \A i \in 1..Len(r) : i \in 1..(Len(q) - 1) \/ i = Len(q) BY <1>2, <2>5
  <2>11. \A i \in 1..(Len(q) - 1) : i \in 1..Len(r) BY <1>2, <2>5
  <2>12. Len(q) \in 1..Len(r) BY <1>2, <2>2, <2>5
  <2>14. Toks(r) = Toks(q) \cup {tok}
    <3>1. \A x \in Toks(r) : x \in Toks(q) \cup {tok} BY <2>5, <2>6, <2>10, <2>13 DEF Toks
    <3>2. tok \in Toks(r) BY <2>5, <2>12, <2>13 DEF Toks
    <3>3. \A x \in Toks(q) : x \in Toks(r)
      <4> TAKE x \in Toks(q)
      <4>1. PICK k \in 1..Len(q) : x = q[k].tok BY DEF Toks
      <4>2. CASE k = birth BY <2>2, <3>2, <4>1, <4>2
      <4>3. CASE k # birth
        <5>1. PICK i \in 1..(Len(q) - 1) : old(i) = k BY <2>8, <4>3
        <5>2. x = r[i].tok /\ i \in 1..Len(r) BY <2>6, <2>11, <4>1, <5>1
        <5> QED BY <5>2 DEF Toks
      <4> QED BY <4>2, <4>3
    <3> QED BY <3>1, <3>2, <3>3
  <2>15. \A i, j \in 1..Len(r) : r[i].tok = r[j].tok => i = j
    <3> SUFFICES ASSUME NEW i \in 1..Len(r), NEW j \in 1..Len(r), r[i].tok = r[j].tok PROVE i = j OBVIOUS
    <3>1. CASE i \in 1..(Len(q) - 1) /\ j \in 1..(Len(q) - 1)
      <4>1. old(i) = old(j) BY <2>6, <3>1
      <4> QED BY <2>7, <3>1, <4>1
    <3>2. CASE ~(i \in 1..(Len(q) - 1) /\ j \in 1..(Len(q) - 1))
      BY <2>5, <2>9, <2>10, <2>13, <3>2
    <3> QED BY <3>1, <3>2
  <2>16. \A i \in 1..Len(r) : r[i] = m \/ (r[i].tok # tok /\ \E j \in 1..Len(q) : r[i] = q[j])
    BY <2>5, <2>6, <2>9, <2>10
  <2>17. \A j \in 1..Len(q) : q[j].tok # tok => \E i \in 1..Len(r) : r[i] = q[j]
    <3> SUFFICES ASSUME NEW j \in 1..Len(q), q[j].tok # tok PROVE \E i \in 1..Len(r) : r[i] = q[j] OBVIOUS
    <3>1. PICK i \in 1..(Len(q) - 1) : old(i) = j BY <2>2, <2>8
    <3>2. r[i] = q[j] /\ i \in 1..Len(r) BY <2>6, <2>11, <3>1
    <3> QED BY <3>2
  <2> QED BY <1>3, <1>5, <2>5, <2>13, <2>14, <2>15, <2>16, <2>17 DEF OneMore
<1> QED BY <1>4, <1>5

\* A token that moves leaves everything else where it was.
MovesOne(b, s, tok, to, r) ==
  /\ Tells(b, r) /\ r.made = s.made /\ Toks(r.moves) = Toks(s.moves) \cup {tok}
  /\ DOMAIN r.loc = DOMAIN s.loc \ (IF to = Rec!Gone THEN {tok} ELSE {})
  /\ \A k \in DOMAIN r.loc : r.loc[k] = IF k = tok THEN to ELSE s.loc[k]
  /\ \A k : k # tok /\ Free(s.moves, k) => Free(r.moves, k)

LEMMA MoveTells ==
  ASSUME NEW b, NEW s, Tells(b, s), NEW tok \in DOMAIN s.loc, NEW to \in Locs, Free(s.moves, tok),
         NEW r, r = Rec!Move(s, tok, to)
  PROVE  MovesOne(b, s, tok, to, r)
<1> DEFINE at == [k \in DOMAIN s.loc \ (IF to = Rec!Gone THEN {tok} ELSE {}) |-> IF k = tok THEN to ELSE s.loc[k]]
           mv == Rec!MovesWith(s.moves, tok, s.loc[tok], to)
<1>1. /\ s = [loc |-> s.loc, moves |-> s.moves, made |-> s.made]
      /\ s.moves \in Seq(MoveRecs) /\ s.made \in Nat
      /\ DOMAIN s.loc \subseteq 1..s.made /\ \A k \in DOMAIN s.loc : s.loc[k] \in Locs
  BY DEF Tells, Shaped
<1>2. r = [loc |-> at, moves |-> mv, made |-> s.made]
  <2>1. r = [s EXCEPT !.loc = at, !.moves = mv] BY DEF Rec!Move
  <2> HIDE DEF at, mv
  <2> QED BY <1>1, <2>1
<1>3. tok \in Nat /\ s.loc[tok] \in Locs BY <1>1
<1>4. \A i, j \in 1..Len(s.moves) : s.moves[i].tok = s.moves[j].tok => i = j BY DEF Tells
<1>5. /\ mv \in Seq(MoveRecs) /\ Toks(mv) = Toks(s.moves) \cup {tok}
      /\ \A i, j \in 1..Len(mv) : mv[i].tok = mv[j].tok => i = j
      /\ \A i \in 1..Len(mv) : \/ mv[i].tok # tok /\ \E j \in 1..Len(s.moves) : mv[i] = s.moves[j]
                               \/ /\ mv[i].tok = tok /\ mv[i].from = s.loc[tok] /\ mv[i].to = to
                                  /\ mv[i].born <=> Born(s.moves, tok)
      /\ \A j \in 1..Len(s.moves) : s.moves[j].tok # tok => \E i \in 1..Len(mv) : mv[i] = s.moves[j]
  <2> HIDE DEF mv
  <2>1. mv = Rec!MovesWith(s.moves, tok, s.loc[tok], to) BY DEF mv
  <2>2. OneMore(s.moves, tok, s.loc[tok], to, mv) BY <1>1, <1>3, <1>4, <2>1, MovesAfter
  <2> QED BY <2>2 DEF OneMore
<1>6. /\ DOMAIN at = DOMAIN s.loc \ (IF to = Rec!Gone THEN {tok} ELSE {})
      /\ \A k \in DOMAIN at : at[k] = IF k = tok THEN to ELSE s.loc[k]
      /\ at = [k \in DOMAIN at |-> at[k]]
  OBVIOUS
<1> HIDE DEF at, mv
<1>7. r.loc = at /\ r.moves = mv /\ r.made = s.made BY <1>2
<1>8. \A k \in DOMAIN s.loc \ {tok} : k \in DOMAIN at BY <1>6
<1>9. Shaped(r)
  <2>1. DOMAIN at \subseteq 1..s.made /\ \A k \in DOMAIN at : at[k] \in Locs BY <1>1, <1>6
  <2>2. r = [loc |-> r.loc, moves |-> r.moves, made |-> r.made] BY <1>2, <1>7
  <2> QED BY <1>1, <1>5, <1>6, <1>7, <2>1, <2>2 DEF Shaped
<1>10. Born(s.moves, tok) => tok \notin DOMAIN b
  <2> SUFFICES ASSUME NEW j \in 1..Len(s.moves), Rec!IsBirth(s.moves[j], tok) PROVE tok \notin DOMAIN b
    BY DEF Born
  <2>1. Says(b, s.loc, s.moves[j]) BY DEF Tells
  <2> QED BY <2>1 DEF Says, Rec!IsBirth
<1>11. ~Born(s.moves, tok) => tok \in DOMAIN b /\ b[tok] = s.loc[tok]
  <2> SUFFICES ASSUME tok \notin Toks(s.moves) PROVE tok \in DOMAIN b /\ b[tok] = s.loc[tok] BY DEF Free
  <2> QED BY DEF Tells
<1>12. ASSUME NEW i \in 1..Len(mv) PROVE Says(b, at, mv[i])
  <2>1. CASE mv[i].tok # tok
    <3>1. PICK j \in 1..Len(s.moves) : mv[i] = s.moves[j] BY <1>5, <2>1
    <3>2. Says(b, s.loc, mv[i]) BY <3>1 DEF Tells
    <3> QED BY <1>6, <1>8, <2>1, <3>2 DEF Says
  <2>2. CASE mv[i].tok = tok
    <3>1. mv[i].from = s.loc[tok] /\ mv[i].to = to /\ (mv[i].born <=> Born(s.moves, tok)) BY <1>5, <2>2
    <3>2. IF mv[i].born THEN mv[i].tok \notin DOMAIN b ELSE mv[i].tok \in DOMAIN b /\ b[mv[i].tok] = mv[i].from
      BY <1>10, <1>11, <2>2, <3>1
    <3>3. CASE to = Rec!Gone BY <1>6, <2>2, <3>1, <3>2, <3>3 DEF Says
    <3>4. CASE to # Rec!Gone
      <4>1. tok \in DOMAIN at /\ at[tok] = to BY <1>6, <3>4
      <4> QED BY <2>2, <3>1, <3>2, <3>4, <4>1 DEF Says
    <3> QED BY <3>3, <3>4
  <2> QED BY <2>1, <2>2
<1>13. \A k : k \notin Toks(mv) => (k \in DOMAIN at <=> k \in DOMAIN b)
  <2> TAKE k
  <2>1. HAVE k \notin Toks(mv)
  <2>2. k # tok /\ k \notin Toks(s.moves) BY <1>5, <2>1
  <2>3. k \in DOMAIN s.loc <=> k \in DOMAIN b BY <2>2 DEF Tells
  <2> QED BY <1>6, <2>2, <2>3
<1>14. \A k \in DOMAIN at : k \notin Toks(mv) => at[k] = b[k]
  <2> TAKE k \in DOMAIN at
  <2>1. HAVE k \notin Toks(mv)
  <2>2. k # tok /\ k \notin Toks(s.moves) /\ k \in DOMAIN s.loc BY <1>5, <1>6, <2>1
  <2>3. s.loc[k] = b[k] BY <2>2 DEF Tells
  <2> QED BY <1>6, <2>2, <2>3
<1>15. Tells(b, r) BY <1>5, <1>7, <1>9, <1>12, <1>13, <1>14 DEF Tells
<1>16. ASSUME NEW k, k # tok, Free(s.moves, k) PROVE Free(mv, k)
  <2>1. CASE k \notin Toks(s.moves) BY <1>5, <1>16, <2>1 DEF Free
  <2>2. CASE Born(s.moves, k)
    <3>1. PICK j \in 1..Len(s.moves) : Rec!IsBirth(s.moves[j], k) BY <2>2 DEF Born
    <3>2. s.moves[j].tok # tok BY <1>16, <3>1 DEF Rec!IsBirth
    <3>3. PICK i \in 1..Len(mv) : mv[i] = s.moves[j] BY <1>5, <3>2
    <3> QED BY <3>1, <3>3 DEF Free, Born
  <2> QED BY <1>16, <2>1, <2>2 DEF Free
<1> QED BY <1>5, <1>6, <1>7, <1>15, <1>16 DEF MovesOne

\* The build an operation begins with.
LEMMA StillTells ==
  ASSUME Shaped(Rec!Still)
  PROVE  Tells(loc, Rec!Still) /\ Toks(Rec!Still.moves) = {} /\ Rec!Still.loc = loc /\ Rec!Still.made = made
<1>1. Rec!Still.moves = <<>> /\ Rec!Still.loc = loc /\ Rec!Still.made = made BY DEF Rec!Still
<1>2. Len(<<>>) = 0 /\ 1..0 = {} BY EmptySeq
<1>3. Toks(Rec!Still.moves) = {} BY <1>1, <1>2 DEF Toks
<1> QED BY <1>1, <1>2, <1>3 DEF Tells

\* After Sim.tokenFor the token is at the goroutine, and nothing else has moved.
LEMMA TokenForTells ==
  ASSUME Shaped(Rec!Still), NEW g \in Goroutines, NEW x \in Nat, Rec!MayUse(g, x),
         NEW s, s = Rec!TokenFor(Rec!Still, g, x), NEW tok, tok = Rec!TokenOf(x)
  PROVE  /\ Tells(loc, s) /\ Free(s.moves, tok) /\ Toks(s.moves) \subseteq {tok}
         /\ s.made \in {made, made + 1} /\ tok \in 1..s.made
         /\ DOMAIN s.loc = DOMAIN loc \cup {tok} /\ s.loc[tok] = Rec!At(g, 0)
         /\ \A k \in DOMAIN loc : s.loc[k] = loc[k]
         /\ x = 0 => tok \notin DOMAIN loc
         /\ x # 0 => tok \in DOMAIN loc /\ loc[tok] = Rec!At(g, 0)
<1>1. /\ Rec!Still.moves = <<>> /\ Rec!Still.loc = loc /\ Rec!Still.made = made
      /\ Tells(loc, Rec!Still) /\ Toks(Rec!Still.moves) = {}
  BY StillTells DEF Rec!Still
<1>2. made \in Nat /\ DOMAIN loc \subseteq 1..made /\ \A k \in DOMAIN loc : loc[k] \in Locs
  BY <1>1 DEF Shaped
<1>3. CASE x # 0
  <2>1. s = Rec!Still /\ tok = x BY <1>3 DEF Rec!TokenFor, Rec!TokenOf
  <2>2. x \in DOMAIN loc /\ loc[x] = Rec!At(g, 0) BY <1>3 DEF Rec!MayUse
  <2>3. s.loc = loc /\ s.made = made /\ Toks(s.moves) = {} /\ Tells(loc, s) BY <1>1, <2>1
  <2> QED BY <1>2, <1>3, <2>1, <2>2, <2>3 DEF Free
<1>4. CASE x = 0
  <2>1. tok = made + 1 /\ tok \in Nat /\ tok \notin DOMAIN loc BY <1>2, <1>4 DEF Rec!TokenOf
  <2> DEFINE at == [k \in DOMAIN loc \cup {tok} |-> IF k = tok THEN Rec!At(g, 0) ELSE loc[k]]
             m == [tok |-> tok, from |-> Rec!At(g, 0), to |-> Rec!At(g, 0), born |-> TRUE]
             mv == Append(<<>>, m)
  <2>2. s = [loc |-> at, moves |-> mv, made |-> tok]
    BY <1>1, <1>4, <2>1 DEF Rec!TokenFor
  <2>3. Rec!At(g, 0) \in Locs /\ Rec!At(g, 0) # Rec!Gone /\ Rec!At(g, 0).node = g
    BY ReplayAssumption DEF Locs, Rec!At, Rec!Gone
  <2>4. DOMAIN at = DOMAIN loc \cup {tok} /\ at[tok] = Rec!At(g, 0) /\ \A k \in DOMAIN loc : at[k] = loc[k]
    BY <2>1
  <2>5. at = [k \in DOMAIN at |-> at[k]] OBVIOUS
  <2>6. m \in MoveRecs /\ m.tok = tok /\ m.from = Rec!At(g, 0) /\ m.to = Rec!At(g, 0) /\ m.born
    BY <2>1, <2>3 DEF MoveRecs
  <2> HIDE DEF at, m
  <2>7. mv \in Seq(MoveRecs) /\ Len(mv) = 1 /\ mv[1] = m
    <3>1. <<>> \in Seq(MoveRecs) /\ Len(<<>>) = 0 BY EmptySeq
    <3> QED BY <2>6, <3>1, AppendProperties
  <2> HIDE DEF mv
  <2>8. s.loc = at /\ s.moves = mv /\ s.made = tok BY <2>2
  <2>9. Toks(mv) = {tok} BY <2>6, <2>7 DEF Toks
  <2>10. Free(mv, tok)
    <3>1. Rec!IsBirth(mv[1], tok) /\ 1 \in 1..Len(mv) BY <2>6, <2>7 DEF Rec!IsBirth
    <3> QED BY <3>1 DEF Free, Born
  <2>11. Shaped(s)
    <3>1. DOMAIN at \subseteq 1..tok /\ \A k \in DOMAIN at : at[k] \in Locs BY <1>2, <2>1, <2>3, <2>4
    <3>2. s = [loc |-> s.loc, moves |-> s.moves, made |-> s.made] BY <2>2, <2>8
    <3> QED BY <2>1, <2>5, <2>7, <2>8, <3>1, <3>2 DEF Shaped
  <2>12. Tells(loc, s)
    <3>1. \A i, j \in 1..Len(mv) : i = j BY <2>7
    <3>2. \A i \in 1..Len(mv) : Says(loc, at, mv[i])
      <4>1. Says(loc, at, m) BY <2>1, <2>3, <2>4, <2>6 DEF Says
      <4> QED BY <2>7, <4>1
    <3>3. \A k : k \notin {tok} => (k \in DOMAIN at <=> k \in DOMAIN loc) BY <2>4
    <3>4. \A k \in DOMAIN at : k \notin {tok} => at[k] = loc[k] BY <2>4
    <3> QED BY <2>8, <2>9, <2>11, <3>1, <3>2, <3>3, <3>4 DEF Tells
  <2>13. tok \in 1..tok BY <1>2, <2>1
  <2> QED BY <1>4, <2>1, <2>4, <2>8, <2>9, <2>10, <2>12, <2>13
<1> QED BY <1>3, <1>4

-----------------------------------------------------------------------------
(* A viewer who follows the moves. *)

\* The places after n moves, all at once: each token has moved once at most.
MovedBy(moves, n, x) == \E i \in 1..n : moves[i].tok = x
MoveOf(moves, n, x) == CHOOSE i \in 1..n : moves[i].tok = x
StillThere(b, moves, n, x) ==
  IF MovedBy(moves, n, x) THEN moves[MoveOf(moves, n, x)].to # Rec!Gone ELSE x \in DOMAIN b
PlacesNow(b, moves, n) ==
  [x \in {y \in DOMAIN b \cup Toks(moves) : StillThere(b, moves, n, y)} |->
     IF MovedBy(moves, n, x) THEN moves[MoveOf(moves, n, x)].to ELSE b[x]]

LEMMA MoveIs ==
  ASSUME NEW moves, Len(moves) \in Nat, NEW n \in 0..Len(moves),
         \A i, j \in 1..Len(moves) : moves[i].tok = moves[j].tok => i = j,
         NEW i \in 1..n
  PROVE  MovedBy(moves, n, moves[i].tok) /\ MoveOf(moves, n, moves[i].tok) = i
<1>1. MovedBy(moves, n, moves[i].tok) BY DEF MovedBy
<1>2. 1..n \subseteq 1..Len(moves) OBVIOUS
<1>3. /\ MoveOf(moves, n, moves[i].tok) \in 1..n
      /\ moves[MoveOf(moves, n, moves[i].tok)].tok = moves[i].tok
  BY <1>1 DEF MovedBy, MoveOf
<1> QED BY <1>1, <1>2, <1>3

LEMMA PlacesStep ==
  ASSUME NEW b, NEW moves, Len(moves) \in Nat, NEW n \in 1..Len(moves),
         \A i, j \in 1..Len(moves) : moves[i].tok = moves[j].tok => i = j
  PROVE  PlacesNow(b, moves, n) = Rec!Replayed(PlacesNow(b, moves, n - 1), moves[n])
<1> DEFINE m == moves[n]
           old == PlacesNow(b, moves, n - 1)
           new == PlacesNow(b, moves, n)
           all == DOMAIN b \cup Toks(moves)
           go == IF m.to = Rec!Gone THEN {m.tok} ELSE {}
<1>1. n - 1 \in 0..Len(moves) /\ n \in 0..Len(moves) /\ n \in 1..n OBVIOUS
<1>2. m.tok \in all BY DEF Toks
<1>3. MovedBy(moves, n, m.tok) /\ MoveOf(moves, n, m.tok) = n BY <1>1, MoveIs
<1>4. ASSUME NEW x, x # m.tok
      PROVE  /\ MovedBy(moves, n, x) <=> MovedBy(moves, n - 1, x)
             /\ MovedBy(moves, n, x) => MoveOf(moves, n, x) = MoveOf(moves, n - 1, x)
  <2>1. MovedBy(moves, n, x) <=> MovedBy(moves, n - 1, x)
    <3>1. \A i \in 1..n : i \in 1..(n - 1) \/ i = n OBVIOUS
    <3>2. \A i \in 1..(n - 1) : i \in 1..n OBVIOUS
    <3> QED BY <1>4, <3>1, <3>2 DEF MovedBy
  <2>2. ASSUME NEW i \in 1..(n - 1), moves[i].tok = x
        PROVE  MoveOf(moves, n, x) = i /\ MoveOf(moves, n - 1, x) = i
    <3>1. i \in 1..n OBVIOUS
    <3> QED BY <1>1, <2>2, <3>1, MoveIs
  <2> QED BY <2>1, <2>2 DEF MovedBy
<1>5. DOMAIN new = {y \in all : StillThere(b, moves, n, y)} BY DEF PlacesNow
<1>6. DOMAIN old = {y \in all : StillThere(b, moves, n - 1, y)} BY DEF PlacesNow
<1>7. DOMAIN new = (DOMAIN old \cup {m.tok}) \ go
  <2>1. ASSUME NEW x, x # m.tok PROVE StillThere(b, moves, n, x) <=> StillThere(b, moves, n - 1, x)
    BY <1>4, <2>1 DEF StillThere
  <2>2. StillThere(b, moves, n, m.tok) <=> m.to # Rec!Gone BY <1>3 DEF StillThere
  <2> HIDE DEF m, old, new, all
  <2>3. \A x : x \in DOMAIN new <=> x \in (DOMAIN old \cup {m.tok}) \ go
    BY <1>2, <1>5, <1>6, <2>1, <2>2
  <2> HIDE DEF go
  <2> QED BY <2>3
<1>8. ASSUME NEW x \in DOMAIN new PROVE new[x] = IF x = m.tok THEN m.to ELSE old[x]
  <2>1. new[x] = IF MovedBy(moves, n, x) THEN moves[MoveOf(moves, n, x)].to ELSE b[x]
    BY <1>5 DEF PlacesNow
  <2>2. CASE x = m.tok BY <1>3, <2>1, <2>2
  <2>3. CASE x # m.tok
    <3>1. x \in DOMAIN old BY <1>7, <2>3
    <3>2. old[x] = IF MovedBy(moves, n - 1, x) THEN moves[MoveOf(moves, n - 1, x)].to ELSE b[x]
      BY <1>6, <3>1 DEF PlacesNow
    <3> QED BY <1>4, <2>1, <2>3, <3>2
  <2> QED BY <2>2, <2>3
<1>9. new = [x \in DOMAIN new |-> new[x]] BY DEF PlacesNow
<1> HIDE DEF new, old, m, all, go
<1>10. new = [x \in (DOMAIN old \cup {m.tok}) \ go |-> IF x = m.tok THEN m.to ELSE old[x]]
  BY <1>7, <1>8, <1>9
<1> QED BY <1>10 DEF Rec!Replayed, go, m, old, new

LEMMA PlacesFirst ==
  ASSUME NEW b, b = [k \in DOMAIN b |-> b[k]], NEW moves
  PROVE  PlacesNow(b, moves, 0) = b
<1>1. \A x : ~MovedBy(moves, 0, x) BY DEF MovedBy
<1>2. {y \in DOMAIN b \cup Toks(moves) : StillThere(b, moves, 0, y)} = DOMAIN b BY <1>1 DEF StillThere
<1>3. PlacesNow(b, moves, 0) = [x \in DOMAIN b |-> b[x]] BY <1>1, <1>2 DEF PlacesNow
<1> QED BY <1>3

\* What Places of the specification is, for moves that move each token once.
LEMMA PlacesAre ==
  ASSUME NEW b, b = [k \in DOMAIN b |-> b[k]], NEW moves, Len(moves) \in Nat,
         \A i, j \in 1..Len(moves) : moves[i].tok = moves[j].tok => i = j
  PROVE  \A n \in 0..Len(moves) : Rec!Places(b, moves)[n] = PlacesNow(b, moves, n)
<1> DEFINE L == Len(moves)
           f == [n \in 0..L |-> PlacesNow(b, moves, n)]
           u == Rec!Places(b, moves)
<1>1. ASSUME NEW n \in 0..L
      PROVE  f[n] = IF n = 0 THEN b ELSE Rec!Replayed(f[n - 1], moves[n])
  <2>1. CASE n = 0 BY <2>1, PlacesFirst
  <2>2. CASE n # 0
    <3>1. n \in 1..L /\ n - 1 \in 0..L BY <2>2
    <3>2. PlacesNow(b, moves, n) = Rec!Replayed(PlacesNow(b, moves, n - 1), moves[n]) BY <3>1, PlacesStep
    <3> QED BY <2>2, <3>1, <3>2
  <2> QED BY <2>1, <2>2
<1>2. f = [n \in 0..L |-> f[n]] OBVIOUS
<1> HIDE DEF f
<1>3. f = [n \in 0..L |-> IF n = 0 THEN b ELSE Rec!Replayed(f[n - 1], moves[n])] BY <1>1, <1>2
<1>4. \E g : g = [n \in 0..L |-> IF n = 0 THEN b ELSE Rec!Replayed(g[n - 1], moves[n])] BY <1>3
<1>5. u = [n \in 0..L |-> IF n = 0 THEN b ELSE Rec!Replayed(u[n - 1], moves[n])]
  BY <1>4 DEF Rec!Places
<1> HIDE DEF u
<1>6. \A n \in 0..L : u[n] = IF n = 0 THEN b ELSE Rec!Replayed(u[n - 1], moves[n]) BY <1>5
<1> DEFINE P == {n \in Nat : n <= L => u[n] = f[n]}
<1>7. 0 \in P BY <1>1, <1>6
<1>8. ASSUME NEW n \in Nat, n \in P PROVE n + 1 \in P
  <2> SUFFICES ASSUME n + 1 <= L PROVE u[n + 1] = f[n + 1] OBVIOUS
  <2>1. n + 1 \in 0..L /\ n + 1 # 0 /\ (n + 1) - 1 = n /\ u[n] = f[n] BY <1>8
  <2> HIDE DEF P, L
  <2>2. u[n + 1] = Rec!Replayed(u[n], moves[n + 1]) BY <1>6, <2>1
  <2>3. f[n + 1] = Rec!Replayed(f[n], moves[n + 1]) BY <1>1, <2>1
  <2> QED BY <2>1, <2>2, <2>3
<1>9. Nat \subseteq P
  <2> HIDE DEF P
  <2> QED BY <1>7, <1>8, NatSetInduction
<1>10. \A n \in 0..L : u[n] = f[n] BY <1>9
<1> QED BY <1>10 DEF f, u, L

\* Who follows the moves of a build that tells finds every token where it is.
LEMMA MovesTell ==
  ASSUME NEW b, b = [k \in DOMAIN b |-> b[k]], NEW s, Tells(b, s)
  PROVE  Rec!Lead(b, s.moves, s.loc)
<1> DEFINE q == s.moves
           L == Len(s.moves)
           places == Rec!Places(b, s.moves)
<1>1. L \in Nat /\ \A i, j \in 1..L : q[i].tok = q[j].tok => i = j BY LenProperties DEF Tells, Shaped
<1>2. \A n \in 0..L : places[n] = PlacesNow(b, q, n) BY <1>1, PlacesAre
<1>3. L \in 0..L BY <1>1
<1>4. PlacesNow(b, q, L) = s.loc
  <2> DEFINE now0 == PlacesNow(b, q, L)
             all == DOMAIN b \cup Toks(q)
  <2>1. \A x : MovedBy(q, L, x) <=> x \in Toks(q) BY DEF MovedBy, Toks
  <2>2. DOMAIN now0 = {x \in all : StillThere(b, q, L, x)} BY DEF PlacesNow
  <2>3. ASSUME NEW x \in Toks(q)
        PROVE  /\ StillThere(b, q, L, x) <=> x \in DOMAIN s.loc
               /\ x \in DOMAIN s.loc => q[MoveOf(q, L, x)].to = s.loc[x]
    <3>1. PICK i \in 1..L : x = q[i].tok BY DEF Toks
    <3>2. MovedBy(q, L, x) /\ MoveOf(q, L, x) = i BY <1>1, <1>3, <3>1, MoveIs
    <3>3. Says(b, s.loc, q[i]) BY DEF Tells
    <3> HIDE DEF q
    <3> QED BY <3>1, <3>2, <3>3 DEF Says, StillThere
  <2>4. ASSUME NEW x, x \notin Toks(q)
        PROVE  /\ StillThere(b, q, L, x) <=> x \in DOMAIN s.loc
               /\ x \in DOMAIN s.loc => b[x] = s.loc[x] /\ x \in DOMAIN b
    <3>1. ~MovedBy(q, L, x) BY <2>1, <2>4
    <3> QED BY <2>4, <3>1 DEF StillThere, Tells
  <2>5. DOMAIN now0 = DOMAIN s.loc
    <3> HIDE DEF now0
    <3>1. \A x \in DOMAIN s.loc : x \in DOMAIN now0 BY <2>2, <2>3, <2>4
    <3>2. \A x \in DOMAIN now0 : x \in DOMAIN s.loc BY <2>2, <2>3, <2>4
    <3> QED BY <3>1, <3>2
  <2>6. ASSUME NEW x \in DOMAIN s.loc PROVE now0[x] = s.loc[x]
    <3>1. now0[x] = IF MovedBy(q, L, x) THEN q[MoveOf(q, L, x)].to ELSE b[x] BY <2>2, <2>5 DEF PlacesNow
    <3> HIDE DEF now0, q
    <3> QED BY <2>1, <2>3, <2>4, <3>1
  <2>7. now0 = [x \in DOMAIN now0 |-> now0[x]] BY DEF PlacesNow
  <2>8. s.loc = [x \in DOMAIN s.loc |-> s.loc[x]] BY DEF Tells, Shaped
  <2> HIDE DEF now0
  <2> QED BY <2>5, <2>6, <2>7, <2>8 DEF now0
<1>5. ASSUME NEW n \in 1..L
      PROVE  IF q[n].born THEN q[n].tok \notin DOMAIN PlacesNow(b, q, n - 1)
             ELSE q[n].tok \in DOMAIN PlacesNow(b, q, n - 1) /\ PlacesNow(b, q, n - 1)[q[n].tok] = q[n].from
  <2> DEFINE x == q[n].tok
             d == DOMAIN PlacesNow(b, q, n - 1)
  <2>1. ~MovedBy(q, n - 1, x)
    <3>1. \A i \in 1..(n - 1) : i \in 1..L /\ i # n BY <1>1
    <3> QED BY <1>1, <3>1 DEF MovedBy
  <2>2. Says(b, s.loc, q[n]) BY DEF Tells
  <2>3. x \in Toks(q) BY DEF Toks
  <2>4. d = {y \in DOMAIN b \cup Toks(q) : StillThere(b, q, n - 1, y)} BY DEF PlacesNow
  <2>5. x \in d <=> x \in DOMAIN b
    <3> HIDE DEF x, d
    <3> QED BY <2>1, <2>3, <2>4 DEF StillThere
  <2>6. x \in d => PlacesNow(b, q, n - 1)[x] = b[x] BY <2>1, <2>4 DEF PlacesNow
  <2> HIDE DEF q
  <2> QED BY <2>2, <2>5, <2>6 DEF Says
<1>6. \A n \in 1..L : n - 1 \in 0..L BY <1>1
<1>7. /\ places[L] = s.loc
      /\ \A n \in 1..L : IF q[n].born THEN q[n].tok \notin DOMAIN places[n - 1]
                          ELSE q[n].tok \in DOMAIN places[n - 1] /\ places[n - 1][q[n].tok] = q[n].from
  <2> HIDE DEF places, q
  <2> QED BY <1>2, <1>3, <1>4, <1>5, <1>6
<1> HIDE DEF places
<1> QED BY <1>7 DEF Rec!Lead, places

-----------------------------------------------------------------------------
(* The moves of a plan. *)

Planned(plan, n) == {k \in DOMAIN plan : k \in 1..n}
PlannedToks(plan, n) == {plan[k].tok : k \in Planned(plan, n)}

LEMMA EachSteps ==
  ASSUME NEW s, NEW plan, NEW last \in Nat, NEW u, u = Rec!MoveEach(s, plan, last)
  PROVE  \A k \in 0..last :
           u[k] = IF k = 0 THEN s
                  ELSE IF k \in DOMAIN plan THEN Rec!Move(u[k - 1], plan[k].tok, plan[k].to) ELSE u[k - 1]
<1> DEFINE Next1(before, k) ==
             IF k \in DOMAIN plan THEN Rec!Move(before, plan[k].tok, plan[k].to) ELSE before
           Is(f, n) == f = [k \in 0..n |-> IF k = 0 THEN s ELSE Next1(f[k - 1], k)]
           P == {n \in Nat : \E f : Is(f, n)}
<1>1. 0 \in P
  <2> DEFINE f == [k \in 0..0 |-> s]
  <2> HIDE DEF Next1
  <2>1. Is(f, 0) OBVIOUS
  <2> QED BY <2>1
<1>2. ASSUME NEW n \in Nat, n \in P PROVE n + 1 \in P
  <2>1. PICK f : Is(f, n) BY <1>2
  <2> DEFINE x == Next1(f[n], n + 1)
             h == [k \in 0..(n + 1) |-> IF k = n + 1 THEN x ELSE f[k]]
  <2> HIDE DEF Next1
  <2>2. \A k \in 0..n : f[k] = IF k = 0 THEN s ELSE Next1(f[k - 1], k) BY <2>1
  <2>3. \A k \in 0..n : h[k] = f[k] /\ k # n + 1 OBVIOUS
  <2>4. h[n + 1] = x OBVIOUS
  <2>5. h = [k \in 0..(n + 1) |-> h[k]] OBVIOUS
  <2> HIDE DEF h
  <2>6. ASSUME NEW k \in 0..(n + 1) PROVE h[k] = IF k = 0 THEN s ELSE Next1(h[k - 1], k)
    <3>1. CASE k = n + 1
      <4>1. h[n] = f[n] BY <2>3
      <4>2. k - 1 = n /\ k # 0 BY <3>1
      <4> QED BY <2>4, <3>1, <4>1, <4>2
    <3>2. CASE k = 0 BY <2>2, <2>3, <3>2
    <3>3. CASE k # n + 1 /\ k # 0
      <4>1. k \in 0..n /\ k - 1 \in 0..n BY <3>3
      <4> QED BY <2>2, <2>3, <3>3, <4>1
    <3> QED BY <3>1, <3>2, <3>3
  <2>7. Is(h, n + 1) BY <2>5, <2>6
  <2> QED BY <2>7
<1>3. last \in P
  <2> HIDE DEF P
  <2>1. Nat \subseteq P BY <1>1, <1>2, NatSetInduction
  <2> QED BY <2>1
<1>4. \E f : f = [k \in 0..last |-> IF k = 0 THEN s
                   ELSE IF k \in DOMAIN plan THEN Rec!Move(f[k - 1], plan[k].tok, plan[k].to) ELSE f[k - 1]]
  BY <1>3
<1>5. u = [k \in 0..last |-> IF k = 0 THEN s
                   ELSE IF k \in DOMAIN plan THEN Rec!Move(u[k - 1], plan[k].tok, plan[k].to) ELSE u[k - 1]]
  BY <1>4 DEF Rec!MoveEach
<1> QED BY <1>5

EachMoved(b, s, plan, last, r) ==
  /\ Tells(b, r) /\ r.made = s.made
  /\ Toks(r.moves) = Toks(s.moves) \cup PlannedToks(plan, last)
  /\ DOMAIN r.loc \subseteq DOMAIN s.loc
  /\ \A x \in DOMAIN s.loc : x \notin PlannedToks(plan, last) => x \in DOMAIN r.loc /\ r.loc[x] = s.loc[x]
  /\ \A k \in Planned(plan, last) :
       IF plan[k].to = Rec!Gone THEN plan[k].tok \notin DOMAIN r.loc
       ELSE plan[k].tok \in DOMAIN r.loc /\ r.loc[plan[k].tok] = plan[k].to

\* A plan that moves tokens which have not moved, each once.
LEMMA EachTells ==
  ASSUME NEW b, NEW s, Tells(b, s), NEW plan, NEW last \in Nat,
         \A k \in Planned(plan, last) :
           plan[k].tok \in DOMAIN s.loc /\ plan[k].tok \notin Toks(s.moves) /\ plan[k].to \in Locs,
         \A j, k \in Planned(plan, last) : plan[j].tok = plan[k].tok => j = k,
         NEW r, r = Rec!MoveEach(s, plan, last)[last]
  PROVE  EachMoved(b, s, plan, last, r)
<1> DEFINE u == Rec!MoveEach(s, plan, last)
           Good(q, n) == EachMoved(b, s, plan, n, q)
           P == {n \in Nat : n <= last => Good(u[n], n)}
<1> USE DEF EachMoved
<1>1. \A k \in 0..last :
        u[k] = IF k = 0 THEN s
               ELSE IF k \in DOMAIN plan THEN Rec!Move(u[k - 1], plan[k].tok, plan[k].to) ELSE u[k - 1]
  BY EachSteps
<1>2. r = u[last] OBVIOUS
<1> HIDE DEF u
<1>3. 0 \in P
  <2>1. u[0] = s BY <1>1
  <2>2. Planned(plan, 0) = {} /\ PlannedToks(plan, 0) = {} BY DEF Planned, PlannedToks
  <2> QED BY <2>1, <2>2
<1>4. ASSUME NEW n \in Nat, n \in P PROVE n + 1 \in P
  <2> SUFFICES ASSUME n + 1 <= last PROVE Good(u[n + 1], n + 1) OBVIOUS
  <2>1. n + 1 \in 0..last /\ n + 1 # 0 /\ (n + 1) - 1 = n /\ n <= last OBVIOUS
  <2>2. Good(u[n], n) BY <1>4, <2>1
  <2> HIDE DEF P
  <2>3. CASE n + 1 \notin DOMAIN plan
    <3>1. u[n + 1] = u[n] BY <1>1, <2>1, <2>3
    <3>2. Planned(plan, n + 1) = Planned(plan, n) BY <2>3 DEF Planned
    <3> HIDE DEF Good
    <3>3. Good(u[n], n + 1) BY <2>2, <3>2 DEF Good, PlannedToks
    <3> QED BY <3>1, <3>3
  <2>4. CASE n + 1 \in DOMAIN plan
    <3> DEFINE q == u[n]
               v == u[n + 1]
               tok == plan[n + 1].tok
               to == plan[n + 1].to
    <3>1. v = Rec!Move(q, tok, to) BY <1>1, <2>1, <2>4
    <3>2. n + 1 \in Planned(plan, last) /\ n + 1 \notin Planned(plan, n) BY <2>1, <2>4 DEF Planned
    <3>3. \A k \in Planned(plan, n) : k \in Planned(plan, last) BY <2>1 DEF Planned
    <3>4. Planned(plan, n + 1) = Planned(plan, n) \cup {n + 1} BY <2>4 DEF Planned
    <3>5. PlannedToks(plan, n + 1) = PlannedToks(plan, n) \cup {tok} BY <3>4 DEF PlannedToks
    <3>6. tok \in DOMAIN s.loc /\ tok \notin Toks(s.moves) /\ to \in Locs BY <3>2
    <3>7. tok \notin PlannedToks(plan, n) BY <3>2, <3>3 DEF PlannedToks
    <3>8. \A k \in Planned(plan, n) : plan[k].tok # tok BY <3>7 DEF PlannedToks
    <3> HIDE DEF q, v, tok, to
    <3>9. Good(q, n) BY <2>2 DEF q
    <3>10. tok \in DOMAIN q.loc /\ tok \notin Toks(q.moves) BY <3>6, <3>7, <3>9
    <3>11. /\ Tells(b, v) /\ v.made = q.made /\ Toks(v.moves) = Toks(q.moves) \cup {tok}
           /\ DOMAIN v.loc = DOMAIN q.loc \ (IF to = Rec!Gone THEN {tok} ELSE {})
           /\ \A k \in DOMAIN v.loc : v.loc[k] = IF k = tok THEN to ELSE q.loc[k]
      <4>1. Tells(b, q) BY <3>9
      <4>2. Free(q.moves, tok) BY <3>10 DEF Free
      <4>3. MovesOne(b, q, tok, to, v) BY <3>1, <3>6, <3>10, <4>1, <4>2, MoveTells
      <4> QED BY <4>3 DEF MovesOne
    <3>12. \A x \in DOMAIN s.loc : x \notin PlannedToks(plan, n + 1) => x \in DOMAIN v.loc /\ v.loc[x] = s.loc[x]
      BY <3>5, <3>9, <3>11
    <3>13. ASSUME NEW k \in Planned(plan, n + 1)
           PROVE  IF plan[k].to = Rec!Gone THEN plan[k].tok \notin DOMAIN v.loc
                  ELSE plan[k].tok \in DOMAIN v.loc /\ v.loc[plan[k].tok] = plan[k].to
      <4>1. CASE k = n + 1
        <5>1. plan[k].tok = tok /\ plan[k].to = to BY <4>1 DEF tok, to
        <5>2. CASE to = Rec!Gone BY <3>11, <5>1, <5>2
        <5>3. CASE to # Rec!Gone BY <3>10, <3>11, <5>1, <5>3
        <5> QED BY <5>2, <5>3
      <4>2. CASE k \in Planned(plan, n)
        <5>1. plan[k].tok # tok BY <3>8, <4>2
        <5>2. IF plan[k].to = Rec!Gone THEN plan[k].tok \notin DOMAIN q.loc
              ELSE plan[k].tok \in DOMAIN q.loc /\ q.loc[plan[k].tok] = plan[k].to
          BY <3>9, <4>2
        <5>3. plan[k].tok \in DOMAIN v.loc <=> plan[k].tok \in DOMAIN q.loc BY <3>11, <5>1
        <5>4. plan[k].tok \in DOMAIN v.loc => v.loc[plan[k].tok] = q.loc[plan[k].tok] BY <3>11, <5>1
        <5> QED BY <5>2, <5>3, <5>4
      <4> QED BY <3>4, <4>1, <4>2
    <3>14. Tells(b, v) /\ v.made = s.made /\ DOMAIN v.loc \subseteq DOMAIN s.loc
           /\ Toks(v.moves) = Toks(s.moves) \cup PlannedToks(plan, n + 1)
      BY <3>5, <3>9, <3>11
    <3>15. Good(v, n + 1) BY <3>12, <3>13, <3>14
    <3> HIDE DEF Good
    <3> QED BY <3>15 DEF v
  <2> QED BY <2>3, <2>4
<1>5. Good(u[last], last)
  <2> HIDE DEF P
  <2>1. Nat \subseteq P BY <1>3, <1>4, NatSetInduction
  <2>2. last \in P BY <2>1
  <2> QED BY <2>2 DEF P
<1> QED BY <1>2, <1>5

-----------------------------------------------------------------------------
(* The recording keeps this.                                               *)

\* The places are those of tokens that were made, and a token is in a cell or
\* printed exactly where its place says.
RecShape == Shaped(Rec!Still)
RecPlaced ==
  \A k \in DOMAIN loc :
    \/ loc[k].node = "slice" /\ loc[k].slot \in Rec!Slots /\ cells[loc[k].slot] = k
    \/ loc[k].node = "stdout" /\ loc[k].slot \in 0..(Len(printed) - 1) /\ printed[loc[k].slot + 1] = k
    \/ loc[k].node \in Goroutines
RecCells ==
  /\ cells = [i \in Rec!Slots |-> cells[i]]
  /\ \A i \in Rec!Slots : cells[i] # None => cells[i] \in DOMAIN loc /\ loc[cells[i]] = Rec!At("slice", i)
RecRest == printed \in Seq(Nat) /\ marks \in [Tests -> {None, "pass", "fail"}] /\ now \in Nat

\* The last step shows the places as they are, and the world as it is if time
\* has not gone on.
RecSteps ==
  /\ \E S : steps \in Seq(S)
  /\ loc = Rec!Before(Len(steps) + 1)
  /\ steps # <<>> =>
       /\ steps[Len(steps)].world.t \in Nat /\ steps[Len(steps)].world.t <= now
       /\ steps[Len(steps)].world.t = now => steps[Len(steps)].world = Rec!World

\* How many steps there are, in each phase.
RecLimits ==
  /\ phase \in {"run", "ended", "concluded", "done"}
  /\ Len(steps) <= MaxSteps + (IF phase = "done" THEN 2 ELSE 1)
  /\ phase \in {"run", "ended"} /\ Len(steps) > MaxSteps => halted = "panic"
  /\ phase = "concluded" /\ Len(steps) > MaxSteps => outcome = "panic"

RecWorld == RecShape /\ RecPlaced /\ RecCells /\ RecRest
RecTold == RecSteps /\ Rec!MovesTellPlaces /\ Rec!OneMoveEach
RecIInv == RecWorld /\ RecTold /\ RecLimits /\ Rec!LastIsTheEnd

LEMMA RecTypes ==
  ASSUME RecWorld
  PROVE  Rec!RecTypeOK
<1> USE DEF RecWorld
<1>1. DOMAIN loc \subseteq 1..made BY DEF RecShape, Shaped, Rec!Still
<1>2. \A k \in DOMAIN loc :
       /\ loc[k].node \in Goroutines \cup {"slice", "stdout"}
       /\ loc[k].node = "slice" => cells[loc[k].slot] = k
       /\ loc[k].node = "stdout" => printed[loc[k].slot + 1] = k
  BY ReplayAssumption DEF RecPlaced
<1>3. marks \in [Tests -> {None, "pass", "fail"}] BY DEF RecRest
<1> QED BY <1>1, <1>2, <1>3 DEF RecCells, Rec!RecTypeOK

\* The length of the steps, and where the tokens were before the next.
LEMMA StepsLength ==
  ASSUME RecSteps
  PROVE  Len(steps) \in Nat /\ (steps = <<>> <=> Len(steps) = 0)
<1>1. PICK S : steps \in Seq(S) BY DEF RecSteps
<1> QED BY <1>1, LenProperties, EmptySeq

Records(op, moves) == steps' = Append(steps, [op |-> op, moves |-> moves, world |-> Rec!World'])

LEMMA StepsPlaces ==
  \A k : /\ k # 1 => Rec!Before(k)' = steps'[k - 1].world.at
         /\ k = 1 => Rec!Before(k)' = [k0 \in {} |-> Rec!Gone]
BY DEF Rec!Before, Rec!Gone, Rec!At

\* A step whose moves tell what has changed is told.
LEMMA StepIsTold ==
  ASSUME RecShape, RecSteps, NEW s, Tells(loc, s), loc' = s.loc, now' \in Nat, NEW op, Records(op, s.moves)
  PROVE  RecTold' /\ Len(steps') = Len(steps) + 1 /\ steps'[Len(steps) + 1].world = Rec!World'
<1>0. PICK n \in Nat : n = Len(steps) BY StepsLength
<1> DEFINE w == Rec!World'
           e == [op |-> op, moves |-> s.moves, world |-> w]
<1>1. PICK S : steps \in Seq(S) BY DEF RecSteps
<1>2. e.moves = s.moves /\ e.world = w OBVIOUS
<1>3. steps' = Append(steps, e) BY DEF Records
<1>4. w.t = now' /\ w.at = s.loc BY DEF Rec!World
<1> HIDE DEF e, w
<1>5. n \in Nat BY <1>0, <1>1, LenProperties
<1>6. /\ steps' \in Seq(S \cup {e}) /\ Len(steps') = n + 1 /\ steps'[n + 1] = e
      /\ \A i \in 1..n : steps'[i] = steps[i]
  <2>1. steps \in Seq(S \cup {e}) BY <1>1, SeqMonotonic
  <2> QED BY <1>0, <1>3, <2>1, AppendProperties
<1>7. steps' # <<>> BY <1>5, <1>6, EmptySeq
<1>8. Rec!Before(n + 1)' = loc
  <2>1. n + 1 # 1 => Rec!Before(n + 1)' = steps'[n + 1 - 1].world.at BY StepsPlaces
  <2>4. n + 1 = 1 => Rec!Before(n + 1)' = [k0 \in {} |-> Rec!Gone] BY StepsPlaces
  <2>2. loc = IF n + 1 = 1 THEN [k0 \in {} |-> Rec!Gone] ELSE steps[n + 1 - 1].world.at
    BY <1>0 DEF RecSteps, Rec!Before
  <2>3. n + 1 # 1 => steps'[n + 1 - 1] = steps[n + 1 - 1]
    <3>1. n + 1 # 1 => n + 1 - 1 \in 1..n BY <1>5
    <3> QED BY <1>6, <3>1
  <2> QED BY <2>1, <2>2, <2>3, <2>4
<1>9. RecSteps'
  <2>1. Rec!Before(n + 2)' = s.loc
    <3>1. Rec!Before(n + 2)' = steps'[n + 2 - 1].world.at
      <4>1. n + 2 # 1 BY <1>5
      <4> QED BY <4>1, StepsPlaces
    <3>2. n + 2 - 1 = n + 1 BY <1>5
    <3> QED BY <1>2, <1>4, <1>6, <3>1, <3>2
  <2>2. (Rec!Before(Len(steps) + 1))' = Rec!Before(n + 2)'
    <3>1. Len(steps') + 1 = n + 2 BY <1>5, <1>6
    <3> QED BY <3>1
  <2>3. steps'[Len(steps')].world = Rec!World' /\ steps'[Len(steps')].world.t = now'
    BY <1>2, <1>4, <1>6 DEF w
  <2> QED BY <1>6, <2>1, <2>2, <2>3 DEF RecSteps
<1>10. Rec!Latest' = {n + 1} BY <1>6, <1>7 DEF Rec!Latest
<1>11. loc = [k \in DOMAIN loc |-> loc[k]] BY DEF RecShape, Shaped, Rec!Still
<1>12. steps'[n + 1].moves = s.moves /\ steps'[n + 1].world.at = s.loc BY <1>2, <1>4, <1>6
<1>13. Rec!MovesTellPlaces'
  <2>1. Rec!Lead(loc, s.moves, s.loc) BY <1>11, MovesTell
  <2>2. Rec!MovesTellPlaces' <=>
          \A k \in Rec!Latest' : Rec!Lead(Rec!Before(k)', steps'[k].moves, steps'[k].world.at)
    BY DEF Rec!MovesTellPlaces
  <2> QED BY <1>8, <1>10, <1>12, <2>1, <2>2
<1>14. Rec!OneMoveEach'
  <2>1. s.moves \in Seq(MoveRecs) /\ \A i, j \in 1..Len(s.moves) : s.moves[i].tok = s.moves[j].tok => i = j
    BY DEF Tells, Shaped
  <2>2. DOMAIN s.moves = 1..Len(s.moves) BY <2>1, LenProperties
  <2> QED BY <1>10, <1>12, <2>1, <2>2 DEF Rec!OneMoveEach
<1>15. steps'[Len(steps) + 1].world = Rec!World' BY <1>0, <1>2, <1>6 DEF w
<1> QED BY <1>0, <1>6, <1>9, <1>13, <1>14, <1>15 DEF RecTold

-----------------------------------------------------------------------------
(* What the operations have in common.                                     *)

LEMMA ShapeKept ==
  ASSUME NEW b, NEW s, Tells(b, s), loc' = s.loc, made' = s.made
  PROVE  RecShape'
<1>1. Shaped(s) BY DEF Tells
<1>2. <<>> \in Seq(MoveRecs) BY EmptySeq
<1>3. /\ Rec!Still' = [loc |-> s.loc, moves |-> <<>>, made |-> s.made]
  BY DEF Rec!Still
<1> QED BY <1>1, <1>2, <1>3 DEF RecShape, Shaped

LEMMA WorldKept ==
  ASSUME RecWorld, UNCHANGED <<loc, made, cells, printed>>, RecRest'
  PROVE  RecWorld'
<1>1. Rec!Still' = Rec!Still /\ Rec!Slots' = Rec!Slots BY DEF Rec!Still, Rec!Slots
<1>2. RecShape' BY <1>1 DEF RecWorld, RecShape
<1>3. RecPlaced' BY <1>1 DEF RecWorld, RecPlaced
<1>4. RecCells' BY <1>1 DEF RecWorld, RecCells, Rec!At
<1> QED BY <1>2, <1>3, <1>4 DEF RecWorld

\* What was told stays told while the world and the steps do not change, or
\* when nothing but time goes on.
LEMMA ToldKept ==
  ASSUME RecTold, RecRest, UNCHANGED <<loc, steps>>,
         \/ UNCHANGED <<status, now, cells, fact, printed, marks>>
         \/ now' \in Nat /\ now' > now
  PROVE  RecTold'
<1>1. Rec!Before(Len(steps) + 1)' = Rec!Before(Len(steps) + 1)
  BY DEF Rec!Before, Rec!Gone, Rec!At
<1>2. RecSteps'
  <2>1. CASE UNCHANGED <<status, now, cells, fact, printed, marks>>
    <3>1. Rec!World' = Rec!World BY <2>1 DEF Rec!World
    <3> QED BY <1>1, <2>1, <3>1 DEF RecTold, RecSteps
  <2>2. CASE now' \in Nat /\ now' > now
    <3>1. now \in Nat BY DEF RecRest
    <3>2. steps # <<>> => steps[Len(steps)].world.t <= now' /\ steps[Len(steps)].world.t # now'
      BY <2>2, <3>1 DEF RecTold, RecSteps
    <3> QED BY <1>1, <3>2 DEF RecTold, RecSteps
  <2> QED BY <2>1, <2>2
<1>3. Rec!Latest' = Rec!Latest BY DEF Rec!Latest
<1>4. \A k : Rec!Before(k)' = Rec!Before(k) BY DEF Rec!Before, Rec!Gone, Rec!At
<1>5. Rec!MovesTellPlaces'
  <2>1. Rec!MovesTellPlaces' <=>
          \A k \in Rec!Latest' : Rec!Lead(Rec!Before(k)', steps'[k].moves, steps'[k].world.at)
    BY DEF Rec!MovesTellPlaces
  <2> QED BY <1>3, <1>4, <2>1 DEF RecTold, Rec!MovesTellPlaces
<1>6. Rec!OneMoveEach' BY <1>3 DEF RecTold, Rec!OneMoveEach
<1> QED BY <1>2, <1>5, <1>6 DEF RecTold

\* An operation of a running goroutine ends with one step.
LEMMA Emitted ==
  ASSUME RecIInv, NEW g, Rec!Resumed(g), NEW s, Tells(loc, s), loc' = s.loc, NEW op, NEW h,
         Rec!Emit(op, s.moves, h), now' = now, phase' = phase
  PROVE  RecTold' /\ RecLimits' /\ Rec!LastIsTheEnd'
<1>1. RecShape /\ RecSteps /\ RecLimits /\ now \in Nat BY DEF RecIInv, RecWorld, RecTold, RecRest
<1>2. Records(op, s.moves) /\ halted' = IF Len(steps') > MaxSteps THEN "panic" ELSE h
  BY DEF Rec!Emit, Records
<1>3. RecTold' /\ Len(steps') = Len(steps) + 1 BY <1>1, <1>2, StepIsTold
<1>4. phase = "run" /\ phase' = "run" /\ halted = "no" BY DEF Rec!Resumed
<1>5. Len(steps) \in Nat /\ MaxSteps \in Nat BY <1>1, StepsLength, ReplayAssumption
<1>6. Len(steps) <= MaxSteps BY <1>1, <1>4, <1>5 DEF RecLimits
<1>7. RecLimits' BY <1>2, <1>3, <1>4, <1>5, <1>6 DEF RecLimits
<1>8. Rec!LastIsTheEnd' BY <1>4 DEF Rec!LastIsTheEnd
<1> QED BY <1>3, <1>7, <1>8

\* An operation that moves nothing.
LEMMA EmittedStill ==
  ASSUME RecIInv, NEW g, Rec!Resumed(g), UNCHANGED <<loc, made, cells, printed, phase, now>>,
         marks' \in [Tests -> {None, "pass", "fail"}], NEW op, NEW h, Rec!Emit(op, <<>>, h)
  PROVE  RecIInv'
<1>1. RecWorld BY DEF RecIInv
<1>2. RecWorld'
  <2>1. RecRest' BY <1>1 DEF RecWorld, RecRest
  <2> QED BY <1>1, <2>1, WorldKept
<1>3. PICK s : s = Rec!Still OBVIOUS
<1>4. Tells(loc, s) /\ s.loc = loc BY <1>1, <1>3, StillTells DEF RecWorld, RecShape
<1>5. s.moves = <<>> BY <1>3 DEF Rec!Still
<1>6. RecTold' /\ RecLimits' /\ Rec!LastIsTheEnd'
  <2>1. loc' = s.loc /\ Rec!Emit(op, s.moves, h) /\ now' = now /\ phase' = phase BY <1>4, <1>5
  <2> QED BY <1>4, <2>1, Emitted
<1> QED BY <1>2, <1>6 DEF RecIInv

\* An operation that throws.
LEMMA FatalKeeps ==
  ASSUME RecIInv, NEW g, Rec!Resumed(g), Rec!Fatal
  PROVE  RecIInv'
<1>1. /\ UNCHANGED <<status, now, loc, cells, fact, printed, marks, made, steps, peak, phase, outcome>>
      /\ halted' = "panic"
  BY DEF Rec!Fatal, Rec!world
<1>2. phase = "run" BY DEF Rec!Resumed
<1>3. RecWorld'
  <2>1. RecRest' BY <1>1 DEF RecIInv, RecWorld, RecRest
  <2> QED BY <1>1, <2>1, WorldKept DEF RecIInv
<1>4. RecTold' BY <1>1, ToldKept DEF RecIInv, RecWorld
<1>5. RecLimits' BY <1>1, <1>2 DEF RecIInv, RecLimits
<1>6. Rec!LastIsTheEnd' BY <1>1, <1>2 DEF Rec!LastIsTheEnd
<1> QED BY <1>3, <1>4, <1>5, <1>6 DEF RecIInv

-----------------------------------------------------------------------------
(* The operations that move tokens.                                        *)

\* The nodes are different, so a place tells which it is at.
LEMMA PlacesDiffer ==
  /\ \A g \in Goroutines : g # "slice" /\ g # "stdout" /\ g # "gone"
  /\ \A i, j : Rec!At("slice", i) = Rec!At("slice", j) => i = j
  /\ \A i : Rec!At("slice", i) # Rec!Gone /\ Rec!At("stdout", i) # Rec!Gone
  /\ \A g \in Goroutines : Rec!At(g, 0) # Rec!Gone /\ \A i : Rec!At(g, 0) # Rec!At("slice", i)
  /\ \A i \in Int : Rec!At("slice", i) \in Locs /\ Rec!At("stdout", i) \in Locs
  /\ \A g \in Goroutines : Rec!At(g, 0) \in Locs
  /\ Rec!Gone \in Locs
  /\ \A n, i : Rec!At(n, i).node = n /\ Rec!At(n, i).slot = i
BY ReplayAssumption DEF Rec!At, Rec!Gone, Locs

\* A token of the cell i is not one that is at a goroutine or new.
LEMMA CellTokens ==
  ASSUME RecWorld
  PROVE  /\ Rec!Slots \subseteq Nat /\ made \in Nat
         /\ \A i, j \in Rec!Slots : cells[i] # None /\ cells[i] = cells[j] => i = j
         /\ \A k \in DOMAIN loc : k \in Nat /\ k <= made
<1>1. Rec!Slots \subseteq Nat BY DEF Rec!Slots
<1>2. \A i, j \in Rec!Slots : cells[i] # None /\ cells[i] = cells[j] => i = j
  BY PlacesDiffer DEF RecWorld, RecCells
<1>3. made \in Nat /\ DOMAIN loc \subseteq 1..made BY DEF RecWorld, RecShape, Shaped, Rec!Still
<1> QED BY <1>1, <1>2, <1>3

\* Sim.put: what the call has built.
PutBuilds(g, i, x, s) ==
  LET s1 == Rec!TokenFor(Rec!Still, g, x)
      s2 == IF cells[i] = None THEN s1 ELSE Rec!Move(s1, cells[i], Rec!Gone)
  IN  s = Rec!Move(s2, Rec!TokenOf(x), Rec!At("slice", i))

LEMMA PutTells ==
  ASSUME RecWorld, NEW g \in Goroutines, NEW i \in Rec!Slots, NEW x \in Nat, Rec!MayUse(g, x),
         NEW s, PutBuilds(g, i, x, s), NEW tok, tok = Rec!TokenOf(x)
  PROVE  /\ Tells(loc, s) /\ tok \in Nat /\ tok # None
         /\ cells[i] = None \/ cells[i] # tok
         /\ \A j \in Rec!Slots : cells[j] # tok
         /\ DOMAIN s.loc = (DOMAIN loc \cup {tok}) \ (IF cells[i] = None THEN {} ELSE {cells[i]})
         /\ s.loc[tok] = Rec!At("slice", i)
         /\ \A k \in DOMAIN loc : k # tok /\ k # cells[i] => s.loc[k] = loc[k]
<1>1. PICK s1 : s1 = Rec!TokenFor(Rec!Still, g, x) OBVIOUS
<1>2. PICK c : c = cells[i] OBVIOUS
<1>3. PICK s2 : s2 = IF c = None THEN s1 ELSE Rec!Move(s1, c, Rec!Gone) OBVIOUS
<1>4. s = Rec!Move(s2, tok, Rec!At("slice", i)) BY <1>1, <1>2, <1>3 DEF PutBuilds
<1>5. /\ Tells(loc, s1) /\ Free(s1.moves, tok) /\ Toks(s1.moves) \subseteq {tok}
      /\ s1.made \in {made, made + 1} /\ tok \in 1..s1.made
      /\ DOMAIN s1.loc = DOMAIN loc \cup {tok} /\ s1.loc[tok] = Rec!At(g, 0)
      /\ \A k \in DOMAIN loc : s1.loc[k] = loc[k]
      /\ x = 0 => tok \notin DOMAIN loc
      /\ x # 0 => tok \in DOMAIN loc /\ loc[tok] = Rec!At(g, 0)
  <2>1. Shaped(Rec!Still) BY DEF RecWorld, RecShape
  <2> QED BY <1>1, <2>1, TokenForTells
<1>6. \A j \in Rec!Slots : cells[j] # None => cells[j] \in DOMAIN loc /\ loc[cells[j]] = Rec!At("slice", j)
  BY DEF RecWorld, RecCells
<1>7. tok \in Nat /\ tok # None BY <1>5, CellTokens, ReplayAssumption
<1>8. \A j \in Rec!Slots : cells[j] # tok
  <2> TAKE j \in Rec!Slots
  <2>1. CASE cells[j] = None BY <1>7, <2>1
  <2>2. CASE cells[j] # None
    <3>1. cells[j] \in DOMAIN loc /\ loc[cells[j]] = Rec!At("slice", j) BY <1>6, <2>2
    <3>2. Rec!At(g, 0) # Rec!At("slice", j) BY PlacesDiffer
    <3> QED BY <1>5, <3>1, <3>2
  <2> QED BY <2>1, <2>2
<1>9. Rec!At("slice", i) \in Locs /\ Rec!At("slice", i) # Rec!Gone /\ Rec!Gone \in Locs
  BY PlacesDiffer, CellTokens
<1>10. /\ Tells(loc, s2) /\ Free(s2.moves, tok) /\ tok \in DOMAIN s2.loc
       /\ DOMAIN s2.loc = (DOMAIN loc \cup {tok}) \ (IF c = None THEN {} ELSE {c})
       /\ \A k \in DOMAIN loc : k # tok /\ k # c => s2.loc[k] = loc[k]
  <2>1. CASE c = None
    <3>1. s2 = s1 BY <1>3, <2>1
    <3> QED BY <1>5, <2>1, <3>1
  <2>2. CASE c # None
    <3>1. c \in DOMAIN loc /\ c # tok BY <1>2, <1>6, <1>8, <2>2
    <3>2. c \in DOMAIN s1.loc /\ Free(s1.moves, c) BY <1>5, <3>1 DEF Free
    <3>3. s2 = Rec!Move(s1, c, Rec!Gone) BY <1>3, <2>2
    <3>4. MovesOne(loc, s1, c, Rec!Gone, s2) BY <1>5, <1>9, <3>2, <3>3, MoveTells
    <3>5. Tells(loc, s2) /\ Free(s2.moves, tok) BY <1>5, <3>1, <3>4 DEF MovesOne
    <3>6. DOMAIN s2.loc = DOMAIN s1.loc \ {c} BY <3>4 DEF MovesOne
    <3>7. \A k \in DOMAIN s2.loc : k # c => s2.loc[k] = s1.loc[k] BY <3>4 DEF MovesOne
    <3>8. \A k \in DOMAIN loc : k # tok /\ k # c => s2.loc[k] = loc[k] BY <1>5, <3>6, <3>7
    <3> QED BY <1>5, <2>2, <3>1, <3>5, <3>6, <3>8
  <2> QED BY <2>1, <2>2
<1>11. MovesOne(loc, s2, tok, Rec!At("slice", i), s) BY <1>4, <1>9, <1>10, MoveTells
<1>12. Tells(loc, s) /\ DOMAIN s.loc = DOMAIN s2.loc BY <1>9, <1>11 DEF MovesOne
<1>13. \A k \in DOMAIN s.loc : s.loc[k] = IF k = tok THEN Rec!At("slice", i) ELSE s2.loc[k] BY <1>11 DEF MovesOne
<1>14. \A k \in DOMAIN loc : k # tok /\ k # c => k \in DOMAIN s2.loc BY <1>10
<1>15. \A k \in DOMAIN loc : k # tok /\ k # c => s.loc[k] = loc[k] BY <1>10, <1>12, <1>13, <1>14
<1>16. s.loc[tok] = Rec!At("slice", i) BY <1>10, <1>12, <1>13
<1> QED BY <1>2, <1>7, <1>8, <1>10, <1>12, <1>15, <1>16

LEMMA PutKeeps ==
  ASSUME RecIInv, NEW g \in Goroutines, Rec!Resumed(g), NEW i \in Rec!Slots, NEW x \in Nat, NEW op,
         Rec!PutAt(g, i, x, op)
  PROVE  RecIInv'
<1>1. PICK s : PutBuilds(g, i, x, s) BY DEF PutBuilds
<1>2. PICK tok : tok = Rec!TokenOf(x) OBVIOUS
<1>3. /\ Rec!MayUse(g, x) /\ loc' = s.loc /\ made' = s.made /\ cells' = [cells EXCEPT ![i] = tok]
      /\ UNCHANGED <<status, now, fact, printed, marks, phase, outcome>>
      /\ Rec!Emit(op, s.moves, "no")
  BY <1>1, <1>2 DEF PutBuilds, Rec!PutAt, Rec!Moves
<1>4. RecWorld BY DEF RecIInv
<1>5. /\ Tells(loc, s) /\ tok \in Nat /\ tok # None
      /\ cells[i] = None \/ cells[i] # tok
      /\ \A j \in Rec!Slots : cells[j] # tok
      /\ DOMAIN s.loc = (DOMAIN loc \cup {tok}) \ (IF cells[i] = None THEN {} ELSE {cells[i]})
      /\ s.loc[tok] = Rec!At("slice", i)
      /\ \A k \in DOMAIN loc : k # tok /\ k # cells[i] => s.loc[k] = loc[k]
  BY <1>1, <1>2, <1>3, <1>4, PutTells
<1>6. RecTold' /\ RecLimits' /\ Rec!LastIsTheEnd' BY <1>3, <1>5, Emitted
<1>7. RecShape' BY <1>3, <1>5, ShapeKept
<1>8. cells = [j \in Rec!Slots |-> cells[j]] BY <1>4 DEF RecWorld, RecCells
<1>9. \A j \in Rec!Slots : cells'[j] = IF j = i THEN tok ELSE cells[j] BY <1>3, <1>8
<1>10. Rec!Slots' = Rec!Slots BY DEF Rec!Slots
<1>11. \A j \in Rec!Slots : cells[j] # None => cells[j] \in DOMAIN loc /\ loc[cells[j]] = Rec!At("slice", j)
  BY <1>4 DEF RecWorld, RecCells
<1>12. tok \in DOMAIN s.loc BY <1>5
<1>13. RecCells'
  <2>1. cells' = [j \in Rec!Slots |-> cells'[j]] BY <1>3, <1>8
  <2>2. ASSUME NEW j \in Rec!Slots, cells'[j] # None
        PROVE  cells'[j] \in DOMAIN loc' /\ loc'[cells'[j]] = Rec!At("slice", j)
    <3>1. CASE j = i BY <1>3, <1>5, <1>9, <1>12, <3>1
    <3>2. CASE j # i
      <4>1. cells'[j] = cells[j] /\ cells[j] # None BY <1>9, <2>2, <3>2
      <4>2. cells[j] # cells[i] /\ cells[j] # tok BY <1>4, <1>5, <3>2, <4>1, CellTokens
      <4>3. cells[j] \in DOMAIN loc /\ loc[cells[j]] = Rec!At("slice", j) BY <1>11, <4>1
      <4>4. cells[j] \in DOMAIN s.loc /\ s.loc[cells[j]] = loc[cells[j]] BY <1>5, <4>2, <4>3
      <4> QED BY <1>3, <4>1, <4>3, <4>4
    <3> QED BY <3>1, <3>2
  <2> QED BY <1>10, <2>1, <2>2 DEF RecCells, Rec!At
<1>14. RecPlaced'
  <2>1. ASSUME NEW k \in DOMAIN s.loc
        PROVE  \/ s.loc[k].node = "slice" /\ s.loc[k].slot \in Rec!Slots /\ cells'[s.loc[k].slot] = k
               \/ s.loc[k].node = "stdout" /\ s.loc[k].slot \in 0..(Len(printed) - 1) /\ printed[s.loc[k].slot + 1] = k
               \/ s.loc[k].node \in Goroutines
    <3>1. CASE k = tok
      <4>1. s.loc[k].node = "slice" /\ s.loc[k].slot = i BY <1>5, <3>1, PlacesDiffer
      <4> QED BY <1>9, <3>1, <4>1
    <3>2. CASE k # tok
      <4>1. k \in DOMAIN loc /\ k # cells[i]
        <5>1. k \in DOMAIN loc BY <1>5, <3>2
        <5>2. k # None BY <1>4, <5>1, CellTokens, ReplayAssumption
        <5> QED BY <1>5, <5>1, <5>2
      <4>2. s.loc[k] = loc[k] BY <1>5, <3>2, <4>1
      <4>3. \/ loc[k].node = "slice" /\ loc[k].slot \in Rec!Slots /\ cells[loc[k].slot] = k
            \/ loc[k].node = "stdout" /\ loc[k].slot \in 0..(Len(printed) - 1) /\ printed[loc[k].slot + 1] = k
            \/ loc[k].node \in Goroutines
        BY <1>4, <4>1 DEF RecWorld, RecPlaced
      <4>4. loc[k].slot \in Rec!Slots /\ cells[loc[k].slot] = k => cells'[loc[k].slot] = k BY <1>9, <4>1
      <4> QED BY <4>2, <4>3, <4>4
    <3> QED BY <3>1, <3>2
  <2> QED BY <1>3, <1>10, <2>1 DEF RecPlaced
<1>15. RecRest' BY <1>3, <1>4 DEF RecWorld, RecRest
<1> QED BY <1>6, <1>7, <1>13, <1>14, <1>15 DEF RecIInv, RecWorld

\* append writes behind the last cell in use, shift takes the first.
LEMMA ShiftKeeps ==
  ASSUME RecIInv, NEW g \in Goroutines, Rec!Shift(g)
  PROVE  RecIInv'
<1>0. Rec!Resumed(g) BY DEF Rec!Shift
<1>1. CASE Rec!Fatal BY <1>0, <1>1, FatalKeeps
<1>2. CASE ~Rec!Fatal
  <2> DEFINE last == Size - 1
             plan == Rec!Downs
             r == Rec!MoveEach(Rec!Still, plan, last)[last]
  <2>1. PICK q : q = r OBVIOUS
  <2>2. PICK c : c = cells[0] OBVIOUS
  <2>3. PICK s : s = Rec!Move(q, c, Rec!At(g, 0)) OBVIOUS
  <2>4. /\ c # None /\ loc' = s.loc /\ made' = s.made
        /\ cells' = [i \in Rec!Slots |-> IF i = Size - 1 THEN None ELSE cells[i + 1]]
        /\ UNCHANGED <<status, now, fact, printed, marks, phase, outcome>>
        /\ Rec!Emit("shift", s.moves, "no")
    BY <1>2, <2>1, <2>2, <2>3 DEF Rec!Shift, Rec!Moves, Rec!OneCellDown
  <2>5. RecWorld BY DEF RecIInv
  <2>6. Size \in Nat /\ Size > 0 /\ last \in Nat /\ Rec!Slots = 0..last BY ReplayAssumption DEF Rec!Slots
  <2>7. \A j \in Rec!Slots : cells[j] # None => cells[j] \in DOMAIN loc /\ loc[cells[j]] = Rec!At("slice", j)
    BY <2>5 DEF RecWorld, RecCells
  <2>8. /\ DOMAIN plan = {j \in 1..last : cells[j] # None}
        /\ \A i \in DOMAIN plan : plan[i].tok = cells[i] /\ plan[i].to = Rec!At("slice", i - 1)
    BY DEF Rec!Downs
  <2>9. Planned(plan, last) = {j \in 1..last : cells[j] # None}
    <3> HIDE DEF plan
    <3> QED BY <2>8 DEF Planned
  <2> HIDE DEF plan, last
  <2>10. \A i \in Planned(plan, last) :
           i \in Rec!Slots /\ i - 1 \in Rec!Slots /\ i \in Int /\ i - 1 \in Int /\ i # 0 /\ cells[i] # None
    BY <2>6, <2>9
  <2>11. /\ Tells(loc, Rec!Still) /\ Toks(Rec!Still.moves) = {} /\ Rec!Still.loc = loc /\ Rec!Still.made = made
    BY <2>5, StillTells DEF RecWorld, RecShape
  <2>12. \A k \in Planned(plan, last) :
           plan[k].tok \in DOMAIN Rec!Still.loc /\ plan[k].tok \notin Toks(Rec!Still.moves) /\ plan[k].to \in Locs
    BY <2>7, <2>8, <2>9, <2>10, <2>11, PlacesDiffer
  <2>13. \A j, k \in Planned(plan, last) : plan[j].tok = plan[k].tok => j = k
    BY <2>5, <2>8, <2>9, <2>10, CellTokens
  <2>14. /\ Tells(loc, q) /\ q.made = made
         /\ Toks(q.moves) = PlannedToks(plan, last)
         /\ DOMAIN q.loc \subseteq DOMAIN loc
         /\ \A x \in DOMAIN loc : x \notin PlannedToks(plan, last) => x \in DOMAIN q.loc /\ q.loc[x] = loc[x]
         /\ \A k \in Planned(plan, last) :
              IF plan[k].to = Rec!Gone THEN plan[k].tok \notin DOMAIN q.loc
              ELSE plan[k].tok \in DOMAIN q.loc /\ q.loc[plan[k].tok] = plan[k].to
    <3>1. q = Rec!MoveEach(Rec!Still, plan, last)[last] BY <2>1 DEF plan, last
    <3>2. EachMoved(loc, Rec!Still, plan, last, q) BY <2>6, <2>11, <2>12, <2>13, <3>1, EachTells
    <3> QED BY <2>11, <3>2 DEF EachMoved
  <2>15. PlannedToks(plan, last) = {cells[j] : j \in Planned(plan, last)} BY <2>8, <2>9 DEF PlannedToks
  <2>16. \A j \in Planned(plan, last) : cells[j] \in DOMAIN q.loc /\ q.loc[cells[j]] = Rec!At("slice", j - 1)
    BY <2>8, <2>9, <2>14, PlacesDiffer
  <2>17. c \in DOMAIN loc /\ loc[c] = Rec!At("slice", 0) /\ 0 \in Rec!Slots BY <2>2, <2>4, <2>6, <2>7
  <2>18. c \notin PlannedToks(plan, last) BY <2>2, <2>4, <2>5, <2>10, <2>15, <2>17, CellTokens
  <2>19. c \in DOMAIN q.loc /\ Free(q.moves, c) BY <2>14, <2>17, <2>18 DEF Free
  <2>20. Rec!At(g, 0) \in Locs /\ Rec!At(g, 0) # Rec!Gone BY PlacesDiffer
  <2>21. MovesOne(loc, q, c, Rec!At(g, 0), s) BY <2>3, <2>14, <2>19, <2>20, MoveTells
  <2>22. Tells(loc, s) /\ DOMAIN s.loc = DOMAIN q.loc BY <2>20, <2>21 DEF MovesOne
  <2>23. \A k \in DOMAIN s.loc : s.loc[k] = IF k = c THEN Rec!At(g, 0) ELSE q.loc[k] BY <2>21 DEF MovesOne
  <2>24. RecTold' /\ RecLimits' /\ Rec!LastIsTheEnd' BY <1>0, <2>4, <2>22, Emitted
  <2>25. RecShape' BY <2>4, <2>22, ShapeKept
  <2>26. Rec!Slots' = Rec!Slots BY DEF Rec!Slots
  <2>27. RecCells'
    <3>1. cells' = [j \in Rec!Slots |-> cells'[j]] BY <2>4
    <3>2. ASSUME NEW j \in Rec!Slots, cells'[j] # None
          PROVE  cells'[j] \in DOMAIN loc' /\ loc'[cells'[j]] = Rec!At("slice", j)
      <4>1. j # last /\ cells'[j] = cells[j + 1] BY <2>4, <3>2 DEF last
      <4>2. j + 1 \in Planned(plan, last) /\ (j + 1) - 1 = j BY <2>6, <2>9, <3>2, <4>1
      <4>3. cells[j + 1] \in DOMAIN q.loc /\ q.loc[cells[j + 1]] = Rec!At("slice", j) BY <2>16, <4>2
      <4>4. cells[j + 1] # c BY <2>15, <2>18, <4>2
      <4> QED BY <2>4, <2>22, <2>23, <4>1, <4>3, <4>4
    <3> QED BY <2>26, <3>1, <3>2 DEF RecCells, Rec!At
  <2>28. RecPlaced'
    <3>1. ASSUME NEW k \in DOMAIN s.loc
          PROVE  \/ s.loc[k].node = "slice" /\ s.loc[k].slot \in Rec!Slots /\ cells'[s.loc[k].slot] = k
                 \/ s.loc[k].node = "stdout" /\ s.loc[k].slot \in 0..(Len(printed) - 1) /\ printed[s.loc[k].slot + 1] = k
                 \/ s.loc[k].node \in Goroutines
      <4>1. CASE k = c BY <2>23, <4>1, PlacesDiffer
      <4>2. CASE k # c /\ k \in PlannedToks(plan, last)
        <5>1. PICK j \in Planned(plan, last) : k = cells[j] BY <2>15, <4>2
        <5>2. s.loc[k] = Rec!At("slice", j - 1) BY <2>16, <2>23, <4>2, <5>1
        <5>3. s.loc[k].node = "slice" /\ s.loc[k].slot = j - 1 BY <5>2, PlacesDiffer
        <5>4. j - 1 \in Rec!Slots /\ j - 1 # Size - 1 /\ (j - 1) + 1 = j BY <2>6, <2>9, <2>10 DEF last
        <5>5. cells'[j - 1] = k BY <2>4, <5>1, <5>4
        <5> QED BY <5>3, <5>4, <5>5
      <4>3. CASE k # c /\ k \notin PlannedToks(plan, last)
        <5>1. k \in DOMAIN loc /\ s.loc[k] = loc[k] BY <2>14, <2>22, <2>23, <4>3
        <5>2. \/ loc[k].node = "slice" /\ loc[k].slot \in Rec!Slots /\ cells[loc[k].slot] = k
              \/ loc[k].node = "stdout" /\ loc[k].slot \in 0..(Len(printed) - 1) /\ printed[loc[k].slot + 1] = k
              \/ loc[k].node \in Goroutines
          BY <2>5, <5>1 DEF RecWorld, RecPlaced
        <5>3. ASSUME loc[k].slot \in Rec!Slots, cells[loc[k].slot] = k PROVE FALSE
          <6>1. k # None BY <2>5, <5>1, CellTokens, ReplayAssumption
          <6>2. loc[k].slot # 0 BY <2>2, <4>3, <5>3
          <6>3. loc[k].slot \in Planned(plan, last) BY <2>6, <2>9, <5>3, <6>1, <6>2
          <6> QED BY <2>15, <4>3, <5>3, <6>3
        <5> QED BY <5>1, <5>2, <5>3
      <4> QED BY <4>1, <4>2, <4>3
    <3> QED BY <2>4, <2>26, <3>1 DEF RecPlaced
  <2>29. RecRest' BY <2>4, <2>5 DEF RecWorld, RecRest
  <2> QED BY <2>24, <2>25, <2>27, <2>28, <2>29 DEF RecIInv, RecWorld
<1> QED BY <1>1, <1>2

LEMMA PrintKeeps ==
  ASSUME RecIInv, NEW g \in Goroutines, NEW x \in Nat, Rec!PrintOut(g, x)
  PROVE  RecIInv'
<1>0. Rec!Resumed(g) BY DEF Rec!PrintOut
<1>1. CASE Rec!Fatal BY <1>0, <1>1, FatalKeeps
<1>2. CASE ~Rec!Fatal
  <2>1. PICK s1 : s1 = Rec!TokenFor(Rec!Still, g, x) OBVIOUS
  <2>2. PICK tok : tok = Rec!TokenOf(x) OBVIOUS
  <2>3. PICK s : s = Rec!Move(s1, tok, Rec!At("stdout", Len(printed))) OBVIOUS
  <2>4. /\ Rec!MayUse(g, x) /\ loc' = s.loc /\ made' = s.made /\ printed' = Append(printed, tok)
        /\ UNCHANGED <<status, now, cells, fact, marks, phase, outcome>>
        /\ Rec!Emit("print", s.moves, "no")
    BY <1>2, <2>1, <2>2, <2>3 DEF Rec!PrintOut, Rec!Moves
  <2>5. RecWorld BY DEF RecIInv
  <2>6. /\ Tells(loc, s1) /\ Free(s1.moves, tok) /\ Toks(s1.moves) \subseteq {tok}
        /\ s1.made \in {made, made + 1} /\ tok \in 1..s1.made
        /\ DOMAIN s1.loc = DOMAIN loc \cup {tok} /\ s1.loc[tok] = Rec!At(g, 0)
        /\ \A k \in DOMAIN loc : s1.loc[k] = loc[k]
        /\ x = 0 => tok \notin DOMAIN loc
        /\ x # 0 => tok \in DOMAIN loc /\ loc[tok] = Rec!At(g, 0)
    <3>1. Shaped(Rec!Still) BY <2>5 DEF RecWorld, RecShape
    <3>2. Rec!MayUse(g, x) BY <2>4
    <3> QED BY <2>1, <2>2, <3>1, <3>2, TokenForTells
  <2>7. PICK n \in Nat : n = Len(printed) BY <2>5, LenProperties DEF RecWorld, RecRest
  <2>8. Rec!At("stdout", n) \in Locs /\ Rec!At("stdout", n) # Rec!Gone BY PlacesDiffer
  <2>9. MovesOne(loc, s1, tok, Rec!At("stdout", n), s) BY <2>3, <2>6, <2>7, <2>8, MoveTells
  <2>10. Tells(loc, s) /\ DOMAIN s.loc = DOMAIN loc \cup {tok} BY <2>6, <2>8, <2>9 DEF MovesOne
  <2>11. \A k \in DOMAIN s.loc : s.loc[k] = IF k = tok THEN Rec!At("stdout", n) ELSE loc[k]
    <3>1. \A k \in DOMAIN s.loc : s.loc[k] = IF k = tok THEN Rec!At("stdout", n) ELSE s1.loc[k]
      BY <2>9 DEF MovesOne
    <3> QED BY <2>6, <2>10, <3>1
  <2>12. RecTold' /\ RecLimits' /\ Rec!LastIsTheEnd' BY <1>0, <2>4, <2>10, Emitted
  <2>13. RecShape' BY <2>4, <2>10, ShapeKept
  <2>14. tok \in Nat BY <2>5, <2>6, CellTokens
  <2>15. /\ printed' \in Seq(Nat) /\ Len(printed') = n + 1 /\ printed'[n + 1] = tok
         /\ \A i \in 1..n : printed'[i] = printed[i]
    BY <2>4, <2>5, <2>7, <2>14, AppendProperties DEF RecWorld, RecRest
  <2>16. Rec!Slots' = Rec!Slots BY DEF Rec!Slots
  <2>17. RecCells'
    <3>1. ASSUME NEW j \in Rec!Slots, cells[j] # None
          PROVE  cells[j] \in DOMAIN loc' /\ loc'[cells[j]] = Rec!At("slice", j)
      <4>1. cells[j] \in DOMAIN loc /\ loc[cells[j]] = Rec!At("slice", j) BY <2>5, <3>1 DEF RecWorld, RecCells
      <4>2. cells[j] # tok
        <5>1. Rec!At(g, 0) # Rec!At("slice", j) BY PlacesDiffer
        <5> QED BY <2>6, <4>1, <5>1
      <4> QED BY <2>4, <2>10, <2>11, <4>1, <4>2
    <3>2. cells = [i \in Rec!Slots |-> cells[i]] BY <2>5 DEF RecWorld, RecCells
    <3> QED BY <2>4, <2>16, <3>1, <3>2 DEF RecCells, Rec!At
  <2>18. RecPlaced'
    <3>1. ASSUME NEW k \in DOMAIN s.loc
          PROVE  \/ s.loc[k].node = "slice" /\ s.loc[k].slot \in Rec!Slots /\ cells[s.loc[k].slot] = k
                 \/ s.loc[k].node = "stdout" /\ s.loc[k].slot \in 0..n /\ printed'[s.loc[k].slot + 1] = k
                 \/ s.loc[k].node \in Goroutines
      <4>1. CASE k = tok
        <5>1. s.loc[k].node = "stdout" /\ s.loc[k].slot = n BY <2>11, <4>1, PlacesDiffer
        <5> QED BY <2>15, <4>1, <5>1
      <4>2. CASE k # tok
        <5>1. k \in DOMAIN loc /\ s.loc[k] = loc[k] BY <2>10, <2>11, <4>2
        <5>2. \/ loc[k].node = "slice" /\ loc[k].slot \in Rec!Slots /\ cells[loc[k].slot] = k
              \/ loc[k].node = "stdout" /\ loc[k].slot \in 0..(n - 1) /\ printed[loc[k].slot + 1] = k
              \/ loc[k].node \in Goroutines
          BY <2>5, <2>7, <5>1 DEF RecWorld, RecPlaced
        <5>3. \A i \in 0..(n - 1) : i \in 0..n /\ printed'[i + 1] = printed[i + 1]
          <6>1. \A i \in 0..(n - 1) : i \in 0..n /\ i + 1 \in 1..n OBVIOUS
          <6> QED BY <2>15, <6>1
        <5> QED BY <5>1, <5>2, <5>3
      <4> QED BY <4>1, <4>2
    <3>2. Len(printed') - 1 = n BY <2>15
    <3> QED BY <2>4, <2>16, <3>1, <3>2 DEF RecPlaced
  <2>19. RecRest' BY <2>4, <2>5, <2>15 DEF RecWorld, RecRest
  <2> QED BY <2>12, <2>13, <2>17, <2>18, <2>19 DEF RecIInv, RecWorld
<1> QED BY <1>1, <1>2

\* Sim.dropHeld: the tokens at the goroutines of G are gone, each with a move.
LEMMA DropTells ==
  ASSUME RecWorld, NEW G, NEW s, s = Rec!DropHeld(Rec!Still, G)
  PROVE  /\ Tells(loc, s) /\ s.made = made
         /\ \A k \in DOMAIN s.loc : k \in DOMAIN loc /\ s.loc[k] = loc[k]
         /\ \A k \in DOMAIN loc : loc[k].node \notin G => k \in DOMAIN s.loc
<1> DEFINE plan == Rec!Drops(Rec!Still, G)
<1>1. /\ Tells(loc, Rec!Still) /\ Toks(Rec!Still.moves) = {} /\ Rec!Still.loc = loc /\ Rec!Still.made = made
  BY StillTells DEF RecWorld, RecShape
<1>2. /\ DOMAIN plan = {x \in DOMAIN loc : loc[x].node \in G}
      /\ \A k \in DOMAIN plan : plan[k].tok = k /\ plan[k].to = Rec!Gone
  BY <1>1 DEF Rec!Drops
<1>3. s = Rec!MoveEach(Rec!Still, plan, made)[made] BY <1>1 DEF Rec!DropHeld
<1> HIDE DEF plan
<1>4. made \in Nat /\ \A k \in DOMAIN loc : k \in 1..made BY DEF RecWorld, RecShape, Shaped, Rec!Still
<1>5. Planned(plan, made) = {x \in DOMAIN loc : loc[x].node \in G} BY <1>2, <1>4 DEF Planned
<1>6. \A k \in Planned(plan, made) : k \in DOMAIN loc /\ plan[k].tok = k /\ plan[k].to = Rec!Gone BY <1>2, <1>5
<1>7. PlannedToks(plan, made) = Planned(plan, made) BY <1>6 DEF PlannedToks
<1>8. EachMoved(loc, Rec!Still, plan, made, s)
  <2>1. \A k \in Planned(plan, made) :
          plan[k].tok \in DOMAIN Rec!Still.loc /\ plan[k].tok \notin Toks(Rec!Still.moves) /\ plan[k].to \in Locs
    BY <1>1, <1>6, PlacesDiffer
  <2>2. \A j, k \in Planned(plan, made) : plan[j].tok = plan[k].tok => j = k BY <1>6
  <2> QED BY <1>1, <1>3, <1>4, <2>1, <2>2, EachTells
<1>9. \A k \in Planned(plan, made) : k \notin DOMAIN s.loc BY <1>6, <1>8 DEF EachMoved
<1>10. \A x \in DOMAIN loc : x \notin Planned(plan, made) => x \in DOMAIN s.loc /\ s.loc[x] = loc[x]
  BY <1>1, <1>7, <1>8 DEF EachMoved
<1>11. Tells(loc, s) /\ s.made = made /\ DOMAIN s.loc \subseteq DOMAIN loc BY <1>1, <1>8 DEF EachMoved
<1> QED BY <1>5, <1>9, <1>10, <1>11

LEMMA DropKeeps ==
  ASSUME RecIInv, NEW g \in Goroutines, Rec!Resumed(g), NEW G \in SUBSET Goroutines,
         NEW s, s = Rec!DropHeld(Rec!Still, G), loc' = s.loc, made' = s.made,
         UNCHANGED <<now, cells, fact, printed, marks, phase, outcome>>,
         NEW op, NEW h, Rec!Emit(op, s.moves, h)
  PROVE  RecIInv'
<1>1. RecWorld BY DEF RecIInv
<1>2. /\ Tells(loc, s) /\ s.made = made
      /\ \A k \in DOMAIN s.loc : k \in DOMAIN loc /\ s.loc[k] = loc[k]
      /\ \A k \in DOMAIN loc : loc[k].node \notin G => k \in DOMAIN s.loc
  BY <1>1, DropTells
<1>3. RecTold' /\ RecLimits' /\ Rec!LastIsTheEnd' BY <1>2, Emitted
<1>4. RecShape' BY <1>2, ShapeKept
<1>5. Rec!Slots' = Rec!Slots BY DEF Rec!Slots
<1>6. RecCells'
  <2>1. ASSUME NEW j \in Rec!Slots, cells[j] # None
        PROVE  cells[j] \in DOMAIN loc' /\ loc'[cells[j]] = Rec!At("slice", j)
    <3>1. cells[j] \in DOMAIN loc /\ loc[cells[j]] = Rec!At("slice", j) BY <1>1, <2>1 DEF RecWorld, RecCells
    <3>2. loc[cells[j]].node \notin G BY <3>1, PlacesDiffer
    <3> QED BY <1>2, <3>1, <3>2
  <2>2. cells = [i \in Rec!Slots |-> cells[i]] BY <1>1 DEF RecWorld, RecCells
  <2> QED BY <1>5, <2>1, <2>2 DEF RecCells, Rec!At
<1>7. RecPlaced' BY <1>1, <1>2, <1>5 DEF RecWorld, RecPlaced
<1>8. RecRest' BY <1>1 DEF RecWorld, RecRest
<1> QED BY <1>3, <1>4, <1>6, <1>7, <1>8 DEF RecIInv, RecWorld

-----------------------------------------------------------------------------
(* All the operations, and the end of the run.                             *)

LEMMA OperationKeeps ==
  ASSUME RecIInv, NEW g \in Goroutines, Rec!Operation(g)
  PROVE  RecIInv'
<1>1. 0..made \subseteq Nat BY CellTokens DEF RecIInv
<1>2. RecWorld /\ marks \in [Tests -> {None, "pass", "fail"}] BY DEF RecIInv, RecWorld, RecRest
<1>3. ASSUME NEW x \in Nat, Rec!AppendTo(g, x) PROVE RecIInv'
  <2>1. Rec!Resumed(g) BY <1>3 DEF Rec!AppendTo
  <2>2. CASE Rec!Fatal BY <2>1, <2>2, FatalKeeps
  <2>3. CASE Rec!AfterLast \in Rec!Slots /\ Rec!PutAt(g, Rec!AfterLast, x, "append")
    <3>1. PICK i \in Rec!Slots : i = Rec!AfterLast BY <2>3
    <3> QED BY <2>1, <2>3, <3>1, PutKeeps
  <2> QED BY <1>3, <2>2, <2>3 DEF Rec!AppendTo
<1>4. ASSUME NEW x \in Nat, NEW i, Rec!Put(g, i, x) PROVE RecIInv'
  <2>1. Rec!Resumed(g) BY <1>4 DEF Rec!Put
  <2>2. CASE Rec!Fatal BY <2>1, <2>2, FatalKeeps
  <2>3. CASE i \in Rec!Slots /\ Rec!PutAt(g, i, x, "put") BY <2>1, <2>3, PutKeeps
  <2> QED BY <1>4, <2>2, <2>3 DEF Rec!Put
<1>5. CASE Rec!SetFact(g) BY <1>2, <1>5, EmittedStill DEF Rec!SetFact
<1>6. ASSUME NEW test, NEW verdict \in {"pass", "fail"}, Rec!Mark(g, test, verdict) PROVE RecIInv'
  <2>1. Rec!Resumed(g) BY <1>6 DEF Rec!Mark
  <2>2. CASE Rec!Fatal BY <2>1, <2>2, FatalKeeps
  <2>3. CASE ~Rec!Fatal
    <3>1. /\ test \in Tests /\ marks' = [marks EXCEPT ![test] = verdict]
          /\ UNCHANGED <<loc, made, cells, printed, phase, now>> /\ Rec!Emit(verdict, <<>>, "no")
      BY <1>6, <2>3 DEF Rec!Mark
    <3>2. marks' \in [Tests -> {None, "pass", "fail"}] BY <1>2, <3>1
    <3> QED BY <2>1, <3>1, <3>2, EmittedStill
  <2> QED BY <2>2, <2>3
<1>7. ASSUME NEW how, Rec!Leaves(g, how) PROVE RecIInv' BY <1>2, <1>7, EmittedStill DEF Rec!Leaves
<1>8. ASSUME NEW h, Rec!Wake(g, h) PROVE RecIInv' BY <1>2, <1>8, EmittedStill DEF Rec!Wake
<1>9. CASE Rec!PanicG(g) BY <1>2, <1>9, EmittedStill DEF Rec!PanicG
<1>10. CASE Rec!Throws(g) BY <1>10, FatalKeeps DEF Rec!Throws
<1>11. CASE Rec!Return(g)
  <2>1. PICK s : s = Rec!DropHeld(Rec!Still, {g}) OBVIOUS
  <2> QED BY <1>11, <2>1, DropKeeps DEF Rec!Return, Rec!Moves
<1>12. CASE Rec!ExitAll(g)
  <2>1. PICK G \in SUBSET Goroutines : G = Rec!Live BY DEF Rec!Live
  <2>2. PICK s : s = Rec!DropHeld(Rec!Still, G) OBVIOUS
  <2>3. s = Rec!Killed BY <2>1, <2>2 DEF Rec!Killed
  <2> QED BY <1>12, <2>2, <2>3, DropKeeps DEF Rec!ExitAll, Rec!Moves
<1>13. CASE \E x \in 0..made : Rec!AppendTo(g, x) \/ Rec!PrintOut(g, x) \/ \E i \in -1..Size : Rec!Put(g, i, x)
  BY <1>1, <1>3, <1>4, <1>13, PrintKeeps
<1>14. CASE Rec!Shift(g) BY <1>14, ShiftKeeps
<1> QED BY <1>5, <1>6, <1>7, <1>8, <1>9, <1>10, <1>11, <1>12, <1>13, <1>14 DEF Rec!Operation

LEMMA AdvanceKeeps ==
  ASSUME RecIInv, Rec!Advance
  PROVE  RecIInv'
<1>1. /\ now \in Nat /\ now' = now + 1 /\ phase = "run"
      /\ UNCHANGED <<loc, cells, fact, printed, marks, made, steps, peak, halted, phase, outcome>>
  BY DEF Rec!Advance, Rec!Quiet, RecIInv, RecWorld, RecRest
<1>2. now' \in Nat /\ now' > now BY <1>1
<1>3. RecWorld'
  <2>1. RecRest' BY <1>1, <1>2 DEF RecIInv, RecWorld, RecRest
  <2> QED BY <1>1, <2>1, WorldKept DEF RecIInv
<1>4. RecTold' BY <1>1, <1>2, ToldKept DEF RecIInv, RecWorld
<1>5. RecLimits' BY <1>1 DEF RecIInv, RecLimits
<1>6. Rec!LastIsTheEnd' BY <1>1 DEF Rec!LastIsTheEnd
<1> QED BY <1>3, <1>4, <1>5, <1>6 DEF RecIInv

LEMMA EndsKeeps ==
  ASSUME RecIInv, Rec!Ends
  PROVE  RecIInv'
<1>1. /\ now \in Nat /\ now' \in {now, now + 1} /\ phase = "run" /\ phase' = "ended"
      /\ UNCHANGED <<status, loc, cells, fact, printed, marks, made, steps, peak, halted, outcome>>
  BY DEF Rec!Ends, RecIInv, RecWorld, RecRest
<1>2. now' \in Nat /\ (now' = now \/ now' > now) BY <1>1
<1>3. RecWorld'
  <2>1. RecRest' BY <1>1, <1>2 DEF RecIInv, RecWorld, RecRest
  <2> QED BY <1>1, <2>1, WorldKept DEF RecIInv
<1>4. RecTold' BY <1>1, <1>2, ToldKept DEF RecIInv, RecWorld
<1>5. RecLimits' BY <1>1 DEF RecIInv, RecLimits
<1>6. Rec!LastIsTheEnd' BY <1>1 DEF Rec!LastIsTheEnd
<1> QED BY <1>3, <1>4, <1>5, <1>6 DEF RecIInv

LEMMA ConcludeKeeps ==
  ASSUME RecIInv, Rec!Conclude
  PROVE  RecIInv'
<1>1. phase = "ended" /\ phase' = "concluded" BY DEF Rec!Conclude
<1>2. RecWorld /\ RecTold /\ RecLimits /\ RecSteps /\ RecRest BY DEF RecIInv, RecWorld, RecTold
<1>3. Len(steps) \in Nat /\ MaxSteps \in Nat BY <1>2, StepsLength, ReplayAssumption
<1>4. Rec!LastIsTheEnd' BY <1>1 DEF Rec!LastIsTheEnd
<1>5. CASE /\ outcome' = IF halted # "no" THEN halted ELSE IF Rec!Live = {} THEN "ok" ELSE "timeout"
           /\ UNCHANGED <<Rec!world, made, steps, peak, halted>>
  <2>1. UNCHANGED <<status, now, loc, cells, fact, printed, marks, made, steps, halted>> BY <1>5 DEF Rec!world
  <2>2. RecWorld'
    <3>1. RecRest' BY <1>2, <2>1 DEF RecRest
    <3> QED BY <1>2, <2>1, <3>1, WorldKept
  <2>3. RecTold' BY <1>2, <2>1, ToldKept
  <2>4. Len(steps) > MaxSteps => outcome' = "panic"
    <3>1. HAVE Len(steps) > MaxSteps
    <3>2. halted = "panic" BY <1>1, <1>2, <3>1 DEF RecLimits
    <3> QED BY <1>5, <3>2
  <2>5. RecLimits' BY <1>1, <1>2, <2>1, <2>4 DEF RecLimits
  <2> QED BY <1>4, <2>2, <2>3, <2>5 DEF RecIInv
<1>6. CASE /\ halted = "no" /\ UNCHANGED <<now, loc, cells, fact, printed, marks, made>>
           /\ Rec!Emit("end", <<>>, "no")
           /\ \E leak : outcome' = Rec!Stuck(Len(steps') > MaxSteps, leak)
  <2>1. RecWorld'
    <3>1. RecRest' BY <1>2, <1>6 DEF RecRest
    <3> QED BY <1>2, <1>6, <3>1, WorldKept
  <2>2. PICK s : s = Rec!Still OBVIOUS
  <2>3. Tells(loc, s) /\ s.loc = loc /\ RecShape BY <1>2, <2>2, StillTells DEF RecWorld, RecShape
  <2>4. Records("end", s.moves) BY <1>6, <2>2 DEF Rec!Emit, Records, Rec!Still
  <2>5. now' \in Nat BY <1>2, <1>6 DEF RecRest
  <2>6. RecTold' /\ Len(steps') = Len(steps) + 1 BY <1>2, <1>6, <2>3, <2>4, <2>5, StepIsTold
  <2>7. Len(steps) <= MaxSteps BY <1>1, <1>2, <1>3, <1>6 DEF RecLimits
  <2>8. Len(steps') > MaxSteps => outcome' = "panic" BY <1>6 DEF Rec!Stuck
  <2>9. RecLimits' BY <1>1, <1>3, <2>6, <2>7, <2>8 DEF RecLimits
  <2> QED BY <1>4, <2>1, <2>6, <2>9 DEF RecIInv
<1> QED BY <1>5, <1>6 DEF Rec!Conclude

LEMMA JudgeKeeps ==
  ASSUME RecIInv, Rec!Judge
  PROVE  RecIInv'
<1>1. /\ phase = "concluded" /\ phase' = "done"
      /\ UNCHANGED <<status, now, loc, cells, fact, printed, made, peak, halted, outcome>>
  BY DEF Rec!Judge
<1>2. PICK verdict \in [Tests -> {"pass", "fail"}] :
        marks' = [x \in Tests |-> IF x \in Rec!ToJudge THEN verdict[x] ELSE marks[x]]
  BY DEF Rec!Judge
<1>3. steps' = IF Rec!NeedsClosing THEN Append(steps, [op |-> "end", moves |-> <<>>, world |-> Rec!World']) ELSE steps
  BY DEF Rec!Judge
<1>4. RecWorld /\ RecTold /\ RecLimits /\ RecSteps /\ RecRest BY DEF RecIInv, RecWorld, RecTold
<1>5. marks \in [Tests -> {None, "pass", "fail"}] /\ now \in Nat BY <1>4 DEF RecRest
<1>6. marks' \in [Tests -> {None, "pass", "fail"}] BY <1>2, <1>5
<1>7. RecWorld'
  <2>1. RecRest' BY <1>1, <1>4, <1>6 DEF RecRest
  <2> QED BY <1>1, <1>4, <2>1, WorldKept
<1>8. Len(steps) \in Nat /\ MaxSteps \in Nat /\ Len(steps) <= MaxSteps + 1
  BY <1>1, <1>4, StepsLength, ReplayAssumption DEF RecLimits
<1>9. \A x \in Judged : marks'[x] # None
  <2> TAKE x \in Judged
  <2>1. x \in Tests /\ None \notin {"pass", "fail"} BY ReplayAssumption
  <2>2. CASE x \in Rec!ToJudge BY <1>2, <2>1, <2>2
  <2>3. CASE x \notin Rec!ToJudge BY <1>2, <2>1, <2>3 DEF Rec!ToJudge
  <2> QED BY <2>2, <2>3
<1>10. CASE Rec!NeedsClosing
  <2>2. PICK s : s = Rec!Still OBVIOUS
  <2>3. Tells(loc, s) /\ s.loc = loc /\ RecShape BY <1>4, <2>2, StillTells DEF RecWorld, RecShape
  <2>4. Records("end", s.moves) BY <1>3, <1>10, <2>2 DEF Records, Rec!Still
  <2>5. now' \in Nat /\ loc' = s.loc BY <1>1, <1>5, <2>3
  <2>6. RecTold' /\ Len(steps') = Len(steps) + 1 /\ steps'[Len(steps) + 1].world = Rec!World'
    BY <1>4, <2>3, <2>4, <2>5, StepIsTold
  <2>7. steps' # <<>> BY <1>8, <2>6, EmptySeq
  <2>8. Rec!LastIsTheEnd' BY <1>9, <2>6, <2>7 DEF Rec!LastIsTheEnd, Rec!Last
  <2>9. RecLimits' BY <1>1, <1>8, <2>6 DEF RecLimits
  <2> QED BY <1>7, <2>6, <2>8, <2>9 DEF RecIInv
<1>11. CASE ~Rec!NeedsClosing
  <2>1. steps' = steps /\ Rec!ToJudge = {} /\ steps # <<>> /\ Rec!Last(steps).world.t = now
    BY <1>3, <1>11 DEF Rec!NeedsClosing
  <2>2. marks' = marks
    <3>1. marks' = [x \in Tests |-> marks[x]] BY <1>2, <2>1
    <3> QED BY <1>5, <3>1
  <2>3. RecTold' BY <1>1, <1>4, <2>1, <2>2, ToldKept
  <2>4. Rec!Last(steps).world = Rec!World BY <1>4, <2>1 DEF RecSteps, Rec!Last
  <2>5. Rec!World' = Rec!World BY <1>1, <2>2 DEF Rec!World
  <2>6. Rec!Last(steps)' = Rec!Last(steps) BY <2>1 DEF Rec!Last
  <2>7. Rec!LastIsTheEnd' BY <1>9, <2>1, <2>4, <2>5, <2>6 DEF Rec!LastIsTheEnd
  <2>8. RecLimits' BY <1>1, <1>8, <2>1 DEF RecLimits
  <2> QED BY <1>7, <2>3, <2>7, <2>8 DEF RecIInv
<1> QED BY <1>10, <1>11

\* At the start nothing is recorded, and nothing is anywhere.
LEMMA RecordingStarts ==
  ASSUME Rec!Init
  PROVE  RecIInv
<1>1. /\ now = 0 /\ loc = [k \in {} |-> Rec!Gone] /\ made = 0
      /\ cells = [i \in Rec!Slots |-> None] /\ printed = <<>> /\ marks = [x \in Tests |-> None]
      /\ steps = <<>> /\ halted = "no" /\ phase = "run"
  BY DEF Rec!Init
<1>2. DOMAIN loc = {} BY <1>1
<1>3. RecShape
  <2>1. loc = [k \in DOMAIN loc |-> loc[k]] BY <1>1
  <2>2. <<>> \in Seq(MoveRecs) BY EmptySeq
  <2> QED BY <1>1, <1>2, <2>1, <2>2 DEF RecShape, Shaped, Rec!Still
<1>4. RecPlaced BY <1>2 DEF RecPlaced
<1>5. RecCells BY <1>1 DEF RecCells
<1>6. RecRest
  <2>1. printed \in Seq(Nat) BY <1>1, EmptySeq
  <2> QED BY <1>1, <2>1 DEF RecRest
<1>7. Len(steps) = 0 /\ steps \in Seq({}) BY <1>1, EmptySeq
<1>8. RecSteps
  <2>1. loc = Rec!Before(Len(steps) + 1)
    <3>1. Len(steps) + 1 = 1 BY <1>7
    <3> QED BY <1>1, <3>1 DEF Rec!Before
  <2> QED BY <1>1, <1>7, <2>1 DEF RecSteps
<1>9. Rec!Latest = {} BY <1>1 DEF Rec!Latest
<1>10. Rec!MovesTellPlaces /\ Rec!OneMoveEach BY <1>9 DEF Rec!MovesTellPlaces, Rec!OneMoveEach
<1>11. RecLimits BY <1>1, <1>7, ReplayAssumption DEF RecLimits
<1>12. Rec!LastIsTheEnd BY <1>1 DEF Rec!LastIsTheEnd
<1> QED BY <1>3, <1>4, <1>5, <1>6, <1>8, <1>10, <1>11, <1>12 DEF RecIInv, RecWorld, RecTold

LEMMA NothingRecorded ==
  ASSUME RecIInv, UNCHANGED Rec!vars
  PROVE  RecIInv'
<1>1. UNCHANGED <<status, now, loc, cells, fact, printed, marks, made, steps, peak, halted, phase, outcome>>
  BY DEF Rec!vars, Rec!world
<1>2. RecWorld /\ RecTold /\ RecLimits /\ RecRest BY DEF RecIInv, RecWorld
<1>3. RecWorld'
  <2>1. RecRest' BY <1>1, <1>2 DEF RecRest
  <2> QED BY <1>1, <1>2, <2>1, WorldKept
<1>4. RecTold' BY <1>1, <1>2, ToldKept
<1>5. RecLimits' BY <1>1, <1>2 DEF RecLimits
<1>6. Rec!LastIsTheEnd'
  <2>1. Rec!World' = Rec!World /\ Rec!Last(steps)' = Rec!Last(steps) BY <1>1 DEF Rec!World, Rec!Last
  <2> QED BY <1>1, <2>1 DEF RecIInv, Rec!LastIsTheEnd
<1> QED BY <1>3, <1>4, <1>5, <1>6 DEF RecIInv

LEMMA RecordingSteps ==
  ASSUME RecIInv, [Rec!Next]_Rec!vars
  PROVE  RecIInv'
<1>1. CASE UNCHANGED Rec!vars BY <1>1, NothingRecorded
<1>2. ASSUME NEW g \in Goroutines, Rec!Operation(g) PROVE RecIInv' BY <1>2, OperationKeeps
<1>3. CASE Rec!Advance BY <1>3, AdvanceKeeps
<1>4. CASE Rec!Ends BY <1>4, EndsKeeps
<1>5. CASE Rec!Conclude BY <1>5, ConcludeKeeps
<1>6. CASE Rec!Judge BY <1>6, JudgeKeeps
<1> QED BY <1>1, <1>2, <1>3, <1>4, <1>5, <1>6 DEF Rec!Next

\* What is recorded is what happened: from every state the simulator reaches, the
\* moves of the last step lead from the places before it to those after it, no token
\* moves twice in a step, and the end of the run is what its last step shows.
THEOREM RecordingIsTrue == Rec!Spec => []RecordingInv
<1>1. Rec!Init => RecIInv BY RecordingStarts
<1>2. RecIInv /\ [Rec!Next]_Rec!vars => RecIInv' BY RecordingSteps
<1>3. RecIInv => RecordingInv
  <2> SUFFICES ASSUME RecIInv PROVE RecordingInv OBVIOUS
  <2>1. Rec!RecTypeOK BY RecTypes DEF RecIInv
  <2>2. Len(steps) \in Nat /\ MaxSteps \in Nat BY StepsLength, ReplayAssumption DEF RecIInv, RecTold
  <2>3. Rec!TooLongIsPanic BY <2>2 DEF RecIInv, RecLimits, Rec!TooLongIsPanic
  <2> QED BY <2>1, <2>3 DEF RecIInv, RecTold, RecordingInv, Rec!RecordingInv
<1> QED BY <1>1, <1>2, <1>3, PTL DEF Rec!Spec

-----------------------------------------------------------------------------
(* The whole run, as the timeline takes it.                                *)

\* What runModel hands over: the steps with their instants and moves, and the end.
RecordedRun ==
  [t     |-> now,
   steps |-> [i \in 1..Len(steps) |-> [t |-> steps[i].world.t, moves |-> steps[i].moves]]]
EachStepTold == \A k \in 1..Len(steps) : Rec!Lead(Rec!Before(k), steps[k].moves, steps[k].world.at)

\* A step of the simulator records at most one step, at the instant it leaves.
RecordsNow == steps' = steps \/ \E e : steps' = Append(steps, e) /\ e.world.t = now'

LEMMA EmitRecordsNow ==
  ASSUME NEW op, NEW moves, NEW h, Rec!Emit(op, moves, h)
  PROVE  RecordsNow
<1> DEFINE e == [op |-> op, moves |-> moves, world |-> Rec!World']
<1>1. steps' = Append(steps, e) BY DEF Rec!Emit
<1>2. e.world.t = now' BY DEF Rec!World
<1> QED BY <1>1, <1>2 DEF RecordsNow

LEMMA OperationRecordsNow ==
  ASSUME NEW g \in Goroutines, Rec!Operation(g)
  PROVE  RecordsNow /\ now' = now
<1>1. ASSUME NEW i, NEW x, NEW op, Rec!PutAt(g, i, x, op) PROVE RecordsNow /\ now' = now
  BY <1>1, EmitRecordsNow DEF Rec!PutAt
<1>2. ASSUME Rec!Fatal PROVE RecordsNow /\ now' = now BY <1>2 DEF Rec!Fatal, Rec!world, RecordsNow
<1>3. ASSUME NEW x, NEW i, Rec!Put(g, i, x) PROVE RecordsNow /\ now' = now BY <1>1, <1>2, <1>3 DEF Rec!Put
<1>4. ASSUME NEW x, Rec!AppendTo(g, x) PROVE RecordsNow /\ now' = now BY <1>1, <1>2, <1>4 DEF Rec!AppendTo
<1>5. ASSUME NEW x, Rec!PrintOut(g, x) PROVE RecordsNow /\ now' = now
  BY <1>2, <1>5, EmitRecordsNow DEF Rec!PrintOut
<1>6. CASE Rec!Shift(g) BY <1>2, <1>6, EmitRecordsNow DEF Rec!Shift
<1>7. CASE Rec!SetFact(g) BY <1>7, EmitRecordsNow DEF Rec!SetFact
<1>8. ASSUME NEW test, NEW verdict, Rec!Mark(g, test, verdict) PROVE RecordsNow /\ now' = now
  BY <1>2, <1>8, EmitRecordsNow DEF Rec!Mark
<1>9. ASSUME NEW how, Rec!Leaves(g, how) PROVE RecordsNow /\ now' = now
  BY <1>9, EmitRecordsNow DEF Rec!Leaves
<1>10. ASSUME NEW h, Rec!Wake(g, h) PROVE RecordsNow /\ now' = now BY <1>10, EmitRecordsNow DEF Rec!Wake
<1>11. CASE Rec!Return(g) BY <1>11, EmitRecordsNow DEF Rec!Return
<1>12. CASE Rec!PanicG(g) BY <1>12, EmitRecordsNow DEF Rec!PanicG
<1>13. CASE Rec!ExitAll(g) BY <1>13, EmitRecordsNow DEF Rec!ExitAll
<1>14. CASE Rec!Throws(g) BY <1>2, <1>14 DEF Rec!Throws
<1> QED BY <1>3, <1>4, <1>5, <1>6, <1>7, <1>8, <1>9, <1>10, <1>11, <1>12, <1>13, <1>14 DEF Rec!Operation

LEMMA StepRecordsNow ==
  ASSUME now \in Nat, [Rec!Next]_Rec!vars
  PROVE  RecordsNow /\ now <= now'
<1>1. CASE UNCHANGED Rec!vars BY <1>1 DEF Rec!vars, Rec!world, RecordsNow
<1>2. ASSUME NEW g \in Goroutines, Rec!Operation(g) PROVE RecordsNow /\ now <= now'
  BY <1>2, OperationRecordsNow
<1>3. CASE Rec!Advance BY <1>3 DEF Rec!Advance, RecordsNow
<1>4. CASE Rec!Ends
  <2>1. now' = now \/ now' = now + 1 BY <1>4 DEF Rec!Ends
  <2> QED BY <1>4, <2>1 DEF Rec!Ends, RecordsNow
<1>5. CASE Rec!Conclude
  <2>1. CASE UNCHANGED <<Rec!world, made, steps, peak, halted>> BY <2>1 DEF Rec!world, RecordsNow
  <2>2. CASE now' = now /\ Rec!Emit("end", <<>>, "no") BY <2>2, EmitRecordsNow
  <2> QED BY <1>5, <2>1, <2>2 DEF Rec!Conclude
<1>6. CASE Rec!Judge
  <2> DEFINE e == [op |-> "end", moves |-> <<>>, world |-> Rec!World']
  <2>1. now' = now /\ (steps' = steps \/ steps' = Append(steps, e)) BY <1>6 DEF Rec!Judge
  <2>2. e.world.t = now' BY DEF Rec!World
  <2> QED BY <2>1, <2>2 DEF RecordsNow
<1> QED BY <1>1, <1>2, <1>3, <1>4, <1>5, <1>6 DEF Rec!Next

\* The steps are in the order of time.
RecOrder ==
  \A i \in 1..Len(steps) : /\ steps[i].world.t \in Nat /\ steps[i].world.t <= now
                           /\ \A j \in i..Len(steps) : steps[i].world.t <= steps[j].world.t

LEMMA WholeRunKept ==
  ASSUME RecIInv, RecIInv', RecOrder, EachStepTold, RecordsNow, now <= now'
  PROVE  RecOrder' /\ EachStepTold'
<1>1. PICK n \in Nat : n = Len(steps) BY StepsLength DEF RecIInv, RecTold
<1>2. now \in Nat /\ now' \in Nat BY DEF RecIInv, RecWorld, RecRest
<1>3. CASE steps' = steps
  <2>1. RecOrder'
    <3>1. \A i \in 1..n : steps[i].world.t \in Nat /\ steps[i].world.t <= now' BY <1>1, <1>2 DEF RecOrder
    <3> QED BY <1>1, <1>3, <3>1 DEF RecOrder
  <2>2. \A k : Rec!Before(k)' = Rec!Before(k) BY <1>3 DEF Rec!Before, Rec!Gone, Rec!At
  <2>3. EachStepTold'
    <3>1. EachStepTold' <=>
            \A k \in 1..Len(steps') : Rec!Lead(Rec!Before(k)', steps'[k].moves, steps'[k].world.at)
      BY DEF EachStepTold
    <3> QED BY <1>3, <2>2, <3>1 DEF EachStepTold
  <2> QED BY <2>1, <2>3
<1>4. CASE \E e : steps' = Append(steps, e) /\ e.world.t = now'
  <2>1. PICK e : steps' = Append(steps, e) /\ e.world.t = now' BY <1>4
  <2>2. PICK S : steps \in Seq(S) BY DEF RecIInv, RecTold, RecSteps
  <2>3. /\ Len(steps') = n + 1 /\ steps'[n + 1] = e
        /\ \A i \in 1..n : steps'[i] = steps[i]
    <3>1. steps \in Seq(S \cup {e}) BY <2>2, SeqMonotonic
    <3> QED BY <1>1, <2>1, <3>1, AppendProperties
  <2>4. RecOrder'
    <3>1. \A i \in 1..(n + 1) : steps'[i].world.t \in Nat /\ steps'[i].world.t <= now'
      BY <1>1, <1>2, <2>1, <2>3 DEF RecOrder
    <3>2. ASSUME NEW i \in 1..(n + 1), NEW j \in i..(n + 1) PROVE steps'[i].world.t <= steps'[j].world.t
      <4>1. CASE j = n + 1 BY <2>1, <2>3, <3>1, <4>1
      <4>2. CASE j # n + 1
        <5>1. i \in 1..n /\ j \in i..n /\ j \in 1..n BY <1>1, <4>2
        <5> QED BY <1>1, <2>3, <5>1 DEF RecOrder
      <4> QED BY <4>1, <4>2
    <3> QED BY <2>3, <3>1, <3>2 DEF RecOrder
  <2>5. EachStepTold'
    <3>3. EachStepTold' <=>
            \A k \in 1..Len(steps') : Rec!Lead(Rec!Before(k)', steps'[k].moves, steps'[k].world.at)
      BY DEF EachStepTold
    <3> SUFFICES ASSUME NEW k \in 1..(n + 1)
                 PROVE  Rec!Lead(Rec!Before(k)', steps'[k].moves, steps'[k].world.at)
      BY <2>3, <3>3
    <3>1. CASE k = n + 1
      <4>1. Len(steps') \in Rec!Latest' BY <2>3, EmptySeq, <1>1 DEF Rec!Latest
      <4>2. Rec!MovesTellPlaces' BY DEF RecIInv, RecTold
      <4>3. Rec!MovesTellPlaces' <=>
              \A i \in Rec!Latest' : Rec!Lead(Rec!Before(i)', steps'[i].moves, steps'[i].world.at)
        BY DEF Rec!MovesTellPlaces
      <4> QED BY <2>3, <3>1, <4>1, <4>2, <4>3
    <3>2. CASE k # n + 1
      <4>1. k \in 1..n BY <1>1, <3>2
      <4>2. k # 1 => k - 1 \in 1..n BY <1>1, <4>1
      <4>3. Rec!Before(k)' = Rec!Before(k)
        BY <2>3, <4>2 DEF Rec!Before, Rec!Gone, Rec!At
      <4> QED BY <1>1, <2>3, <4>1, <4>3 DEF EachStepTold
    <3> QED BY <3>1, <3>2
  <2> QED BY <2>4, <2>5
<1> QED BY <1>3, <1>4 DEF RecordsNow

LEMMA RecordedRunIsOne ==
  ASSUME RecIInv, RecOrder
  PROVE  IsRun(RecordedRun)
<1>1. PICK n \in Nat : n = Len(steps) BY StepsLength DEF RecIInv, RecTold
<1> DEFINE u == [i \in 1..n |-> [t |-> steps[i].world.t, moves |-> steps[i].moves]]
<1>2. Len(u) = n
  <2>1. u \in [1..n -> {u[i] : i \in 1..n}] OBVIOUS
  <2> HIDE DEF u
  <2>2. u \in Seq({u[i] : i \in 1..n}) BY <2>1, <1>1, IsASeq
  <2> QED BY <2>1, <2>2, <1>1, LenProperties
<1>3. \A i \in 1..n : u[i].t = steps[i].world.t OBVIOUS
<1>4. RecordedRun.t = now /\ RecordedRun.steps = u BY <1>1 DEF RecordedRun
<1>5. now \in Nat BY DEF RecIInv, RecWorld, RecRest
<1> HIDE DEF u
<1>6. \A i \in 1..n : u[i].t \in 0..now BY <1>1, <1>3, <1>5 DEF RecOrder
<1>7. ASSUME NEW i \in 1..n, NEW j \in i..n PROVE u[i].t <= u[j].t
  <2>1. j \in 1..n BY <1>1
  <2> QED BY <1>1, <1>3, <2>1 DEF RecOrder
<1> QED BY <1>1, <1>2, <1>4, <1>5, <1>6, <1>7 DEF IsRun

\* What the simulator hands to the player is what the player assumes of a run: its
\* steps are in the order of time and none is later than the end; and the moves of
\* every step of it, not of the last alone, lead to the places the step shows.
THEOREM RecordedRunsAreRuns == Rec!Spec => [](IsRun(RecordedRun) /\ EachStepTold)
<1> DEFINE I == RecIInv /\ RecOrder /\ EachStepTold
<1>1. Rec!Init => I
  <2> SUFFICES ASSUME Rec!Init PROVE I OBVIOUS
  <2>1. RecIInv BY RecordingStarts
  <2>2. Len(steps) = 0 BY EmptySeq DEF Rec!Init
  <2> QED BY <2>1, <2>2 DEF RecOrder, EachStepTold
<1>2. I /\ [Rec!Next]_Rec!vars => I'
  <2> SUFFICES ASSUME I, [Rec!Next]_Rec!vars PROVE I' OBVIOUS
  <2>1. RecIInv' BY RecordingSteps
  <2>2. now \in Nat BY DEF RecIInv, RecWorld, RecRest
  <2>3. RecordsNow /\ now <= now' BY <2>2, StepRecordsNow
  <2> QED BY <2>1, <2>3, WholeRunKept
<1>3. I => IsRun(RecordedRun) /\ EachStepTold BY RecordedRunIsOne
<1> HIDE DEF I
<1> QED BY <1>1, <1>2, <1>3, PTL DEF Rec!Spec

-----------------------------------------------------------------------------
(* Where the batches end.                                                  *)

\* The greatest of a set of numbers that are bounded.
LEMMA GreatestNumber ==
  ASSUME NEW S \in SUBSET Nat, S # {}, NEW most \in Nat, \A x \in S : x <= most
  PROVE  \E x \in S : \A y \in S : x >= y
<1> DEFINE T == {most - x : x \in S}
<1>1. T \in SUBSET Nat /\ T # {}
  <2>1. \A x \in S : x \in Nat /\ most - x \in Nat OBVIOUS
  <2>2. T \subseteq Nat BY <2>1
  <2> QED BY <2>2
<1>2. PICK z \in T : \A w \in T : z <= w BY <1>1, LeastNumber
<1>3. PICK x \in S : z = most - x OBVIOUS
<1>4. \A y \in S : x >= y
  <2> TAKE y \in S
  <2>1. x \in Nat /\ y \in Nat /\ most - y \in T OBVIOUS
  <2>2. most - x <= most - y BY <1>2, <1>3, <2>1
  <2> QED BY <2>1, <2>2
<1> QED BY <1>4

LEMMA SmallestIs ==
  ASSUME NEW S \in SUBSET Nat, S # {}
  PROVE  SmallestOf(S) \in S /\ \A y \in S : SmallestOf(S) <= y
<1>1. \E x \in S : \A y \in S : x <= y BY LeastNumber
<1> QED BY <1>1 DEF SmallestOf

LEMMA LargestIs ==
  ASSUME NEW S \in SUBSET Nat, S # {}, NEW most \in Nat, \A x \in S : x <= most
  PROVE  LargestOf(S) \in S /\ \A y \in S : LargestOf(S) >= y
<1>1. \E x \in S : \A y \in S : x >= y BY GreatestNumber
<1> QED BY <1>1 DEF LargestOf

\* The scan of a batch, at one of its steps.
LEMMA ScanSteps ==
  ASSUME NEW r, Len(r.steps) \in Nat, NEW i \in 1..Len(r.steps), NEW u, u = Scan(r, i)
  PROVE  \A k \in i..Len(r.steps) : u[k] = IF EndsBatch(r, i, k) THEN k ELSE u[k + 1]
<1> DEFINE n == Len(r.steps)
           F(k) == {j \in k..n : EndsBatch(r, i, j)}
           f == [k \in i..n |-> SmallestOf(F(k))]
<1>1. EndsBatch(r, i, n) BY DEF EndsBatch
<1>2. ASSUME NEW k \in i..n
      PROVE  SmallestOf(F(k)) \in F(k) /\ \A y \in F(k) : SmallestOf(F(k)) <= y
  <2>1. n \in F(k) BY <1>1
  <2>2. F(k) \in SUBSET Nat OBVIOUS
  <2> HIDE DEF F
  <2> QED BY <2>1, <2>2, SmallestIs
<1>3. ASSUME NEW k \in i..n PROVE f[k] = IF EndsBatch(r, i, k) THEN k ELSE f[k + 1]
  <2>1. f[k] \in F(k) /\ \A y \in F(k) : f[k] <= y BY <1>2
  <2> HIDE DEF f
  <2>2. CASE EndsBatch(r, i, k)
    <3>1. k \in F(k) BY <2>2
    <3>2. f[k] <= k /\ f[k] >= k /\ f[k] \in Nat BY <2>1, <3>1
    <3> QED BY <2>2, <3>2
  <2>3. CASE ~EndsBatch(r, i, k)
    <3>1. k # n /\ k + 1 \in i..n BY <1>1, <2>3
    <3>2. F(k) = F(k + 1)
      <4>1. \A j \in F(k) : j \in F(k + 1) BY <2>3
      <4>2. \A j \in F(k + 1) : j \in F(k) OBVIOUS
      <4> HIDE DEF F
      <4> QED BY <4>1, <4>2
    <3>3. f[k] = SmallestOf(F(k)) /\ f[k + 1] = SmallestOf(F(k + 1)) BY <3>1 DEF f
    <3> QED BY <2>3, <3>2, <3>3
  <2> QED BY <2>2, <2>3
<1>4. f = [k \in i..n |-> f[k]] OBVIOUS
<1> HIDE DEF f
<1>5. f = [k \in i..n |-> IF EndsBatch(r, i, k) THEN k ELSE f[k + 1]] BY <1>3, <1>4
<1>6. \E h : h = [k \in i..n |-> IF EndsBatch(r, i, k) THEN k ELSE h[k + 1]] BY <1>5
<1>7. u = [k \in i..n |-> IF EndsBatch(r, i, k) THEN k ELSE u[k + 1]] BY <1>6 DEF Scan
<1> QED BY <1>7

\* A batch ends with the first step that ends it.
LEMMA BatchEndIs ==
  ASSUME NEW r, Len(r.steps) \in Nat, NEW i \in 1..Len(r.steps), NEW e, e = BatchEnd(r, i)
  PROVE  e \in i..Len(r.steps) /\ EndsBatch(r, i, e) /\ \A m \in i..(e - 1) : ~EndsBatch(r, i, m)
<1> DEFINE n == Len(r.steps)
           u == Scan(r, i)
           Q(k, x) == x \in k..n /\ EndsBatch(r, i, x) /\ \A m \in k..(x - 1) : ~EndsBatch(r, i, m)
           P == {m \in Nat : m <= n - i => Q(n - m, u[n - m])}
<1>1. \A k \in i..n : u[k] = IF EndsBatch(r, i, k) THEN k ELSE u[k + 1] BY ScanSteps
<1>2. e = u[i] BY DEF BatchEnd
<1>3. EndsBatch(r, i, n) BY DEF EndsBatch
<1> HIDE DEF u
<1>4. 0 \in P
  <2>1. u[n] = n BY <1>1, <1>3
  <2> QED BY <1>3, <2>1
<1>5. ASSUME NEW m \in Nat, m \in P PROVE m + 1 \in P
  <2> SUFFICES ASSUME m + 1 <= n - i PROVE Q(n - (m + 1), u[n - (m + 1)]) OBVIOUS
  <2> DEFINE k == n - (m + 1)
  <2>1. k \in i..n /\ k + 1 \in i..n /\ k + 1 = n - m /\ m <= n - i OBVIOUS
  <2>2. Q(k + 1, u[k + 1]) BY <1>5, <2>1
  <2>3. u[k] = IF EndsBatch(r, i, k) THEN k ELSE u[k + 1] BY <1>1, <2>1
  <2> HIDE DEF k
  <2>4. Q(k, u[k])
    <3>1. CASE EndsBatch(r, i, k) BY <2>1, <2>3, <3>1
    <3>2. CASE ~EndsBatch(r, i, k) BY <2>1, <2>2, <2>3, <3>2
    <3> QED BY <3>1, <3>2
  <2> QED BY <2>4 DEF k
<1>6. n - i \in P
  <2> HIDE DEF P
  <2>1. Nat \subseteq P BY <1>4, <1>5, NatSetInduction
  <2>2. n - i \in Nat OBVIOUS
  <2> QED BY <2>1, <2>2
<1>7. n - (n - i) = i OBVIOUS
<1>8. Q(i, u[i]) BY <1>6, <1>7
<1> QED BY <1>2, <1>8

\* What a batch of the steps from i to j is.
BatchFacts(r, i, j) ==
  /\ i \in 1..Len(r.steps) /\ j \in i..Len(r.steps)
  /\ \A k \in i..j : r.steps[k].t = r.steps[i].t
  /\ \A k \in i..(j - 1) : k \notin r.stops
  /\ \A a, c \in i..j : a # c => Tokens(r.steps[a]) \cap Tokens(r.steps[c]) = {}
  /\ j < Len(r.steps) /\ r.steps[j + 1].t = r.steps[i].t /\ j \notin r.stops =>
       \E a \in i..j : Tokens(r.steps[a]) \cap Tokens(r.steps[j + 1]) # {}

LEMMA BatchIs ==
  ASSUME NEW r, Len(r.steps) \in Nat, NEW i \in 1..Len(r.steps), NEW j, j = BatchEnd(r, i)
  PROVE  BatchFacts(r, i, j)
<1>1. j \in i..Len(r.steps) /\ EndsBatch(r, i, j) /\ \A m \in i..(j - 1) : ~EndsBatch(r, i, m) BY BatchEndIs
<1>2. \A m \in i..(j - 1) : /\ m \notin r.stops /\ r.steps[m + 1].t = r.steps[i].t
                            /\ ~MovesAgain(r, i, m)
  BY <1>1 DEF EndsBatch
<1>3. \A k \in i..j : r.steps[k].t = r.steps[i].t
  <2> TAKE k \in i..j
  <2>1. CASE k = i BY <2>1
  <2>2. CASE k # i
    <3>1. k - 1 \in i..(j - 1) /\ (k - 1) + 1 = k BY <1>1, <2>2
    <3> QED BY <1>2, <3>1
  <2> QED BY <2>1, <2>2
<1>4. ASSUME NEW a \in i..j, NEW c \in i..j, a < c PROVE Tokens(r.steps[a]) \cap Tokens(r.steps[c]) = {}
  <2>1. c - 1 \in i..(j - 1) /\ (c - 1) + 1 = c /\ a \in i..(c - 1) BY <1>1, <1>4
  <2>2. Tokens(r.steps[c]) \cap UNION {Tokens(r.steps[h]) : h \in i..(c - 1)} = {}
    BY <1>2, <2>1 DEF MovesAgain
  <2> QED BY <2>1, <2>2
<1>5. \A a, c \in i..j : a # c => Tokens(r.steps[a]) \cap Tokens(r.steps[c]) = {}
  <2> TAKE a, c \in i..j
  <2>1. CASE a < c BY <1>4, <2>1
  <2>2. CASE c < a
    <3>1. Tokens(r.steps[c]) \cap Tokens(r.steps[a]) = {} BY <1>4, <2>2
    <3> QED BY <3>1
  <2> QED BY <1>1, <2>1, <2>2
<1>6. ASSUME j < Len(r.steps), r.steps[j + 1].t = r.steps[i].t, j \notin r.stops
      PROVE  \E a \in i..j : Tokens(r.steps[a]) \cap Tokens(r.steps[j + 1]) # {}
  <2>1. MovesAgain(r, i, j) BY <1>1, <1>6 DEF EndsBatch
  <2> QED BY <2>1 DEF MovesAgain
<1> QED BY <1>1, <1>2, <1>3, <1>5, <1>6 DEF BatchFacts

-----------------------------------------------------------------------------
(* The beats of a run.                                                     *)

BeatRecs == [kind : {"time", "batch"}, t0 : Nat, t1 : Nat, first : Nat, last : Nat, stop : BOOLEAN,
             d : Nat, start : Nat]
GoodBeat(r, x) ==
  /\ x \in BeatRecs /\ x.d > 0
  /\ x.kind = "time" => x.t0 < x.t1 /\ x.d = (x.t1 - x.t0) * Slow /\ x.stop = FALSE
  /\ x.kind = "batch" => /\ x.t1 = x.t0 /\ x.d > Eps /\ BatchFacts(r, x.first, x.last)
                         /\ x.t0 = r.steps[x.first].t /\ x.stop = (x.last \in r.stops)

\* The beats that show a run from step i on, with the clock at t and the display
\* at start.
Shows(r, q, i, t, start) ==
  /\ q \in Seq(BeatRecs)
  /\ \A b \in 1..Len(q) : GoodBeat(r, q[b])
  /\ Len(q) = 0 => i = Len(r.steps) + 1 /\ t = r.t
  /\ Len(q) > 0 => q[1].start = start /\ q[1].t0 = t /\ q[Len(q)].t1 = r.t
  /\ \A b \in 2..Len(q) : q[b].start = EndOf(q[b - 1]) /\ q[b].t0 = q[b - 1].t1
  /\ \A b, c \in 1..Len(q) : q[b].kind = "batch" /\ q[c].kind = "batch" /\ b < c => q[b].last < q[c].first
  /\ \A b \in 1..Len(q) : q[b].kind = "batch" => q[b].first >= i
  /\ \A k \in i..Len(r.steps) : \E b \in 1..Len(q) : q[b].kind = "batch" /\ k \in q[b].first..q[b].last

\* A beat from t to s, and one of the steps from i to j.
IsTimeBeat(r, x, t, s, start) ==
  GoodBeat(r, x) /\ x.kind = "time" /\ x.t0 = t /\ x.t1 = s /\ x.start = start /\ EndOf(x) \in Nat
IsBatchBeat(r, x, i, j, start) ==
  /\ GoodBeat(r, x) /\ x.kind = "batch" /\ x.t0 = r.steps[i].t /\ x.t1 = x.t0 /\ x.start = start
  /\ x.first = i /\ x.last = j /\ EndOf(x) \in Nat

LEMMA TimeBeatGood ==
  ASSUME NEW r, NEW t \in Nat, NEW s \in Nat, t < s, NEW start \in Nat, NEW x, x = TimeBeat(t, s, start)
  PROVE  IsTimeBeat(r, x, t, s, start)
<1>1. Slow \in Nat /\ Slow > 0 BY TimelineAssumption
<1>2. (s - t) * Slow \in Nat /\ (s - t) * Slow > 0
  <2>1. PICK a \in Nat : a = s - t /\ a > 0 OBVIOUS
  <2>2. a * Slow \in Nat /\ a * Slow > 0 BY <1>1, <2>1
  <2> QED BY <2>1, <2>2
<1>3. PICK m \in Nat : m = (s - t) * Slow BY <1>2
<1>4. x = [kind |-> "time", t0 |-> t, t1 |-> s, first |-> 0, last |-> 0, stop |-> FALSE, d |-> m, start |-> start]
  BY <1>3 DEF TimeBeat
<1>5. x \in BeatRecs BY <1>3, <1>4 DEF BeatRecs
<1> QED BY <1>2, <1>3, <1>4, <1>5 DEF GoodBeat, EndOf, IsTimeBeat

LEMMA BatchBeatGood ==
  ASSUME NEW r, IsRun(r), NEW i \in 1..Len(r.steps), NEW start \in Nat,
         NEW j, j = BatchEnd(r, i), NEW x, x = BatchBeat(r, i, j, start)
  PROVE  IsBatchBeat(r, x, i, j, start)
<1>1. Len(r.steps) \in Nat /\ r.steps[i].t \in Nat BY DEF IsRun
<1>2. BatchFacts(r, i, j) BY <1>1, BatchIs
<1>3. i \in Nat /\ j \in Nat BY <1>1, <1>2 DEF BatchFacts
<1>4. \A m \in {BatchVia, BatchState, BatchMove} : m \in Nat /\ m > Eps /\ m > 0 BY TimelineAssumption
<1>5. PICK m \in {BatchVia, BatchState, BatchMove} : x.d = m BY DEF BatchBeat
<1>6. /\ x.kind = "batch" /\ x.t0 = r.steps[i].t /\ x.t1 = r.steps[i].t /\ x.first = i /\ x.last = j
      /\ x.stop = (j \in r.stops) /\ x.start = start
  BY DEF BatchBeat
<1>7. x = [kind |-> x.kind, t0 |-> x.t0, t1 |-> x.t1, first |-> x.first, last |-> x.last, stop |-> x.stop,
           d |-> x.d, start |-> x.start]
  BY DEF BatchBeat
<1>8. x \in BeatRecs
  <2>1. x.stop \in BOOLEAN BY <1>6
  <2> HIDE DEF BatchBeat
  <2> QED BY <1>1, <1>3, <1>4, <1>5, <1>6, <1>7, <2>1 DEF BeatRecs
<1>9. EndOf(x) \in Nat BY <1>4, <1>5, <1>6 DEF EndOf
<1> QED BY <1>2, <1>4, <1>5, <1>6, <1>8, <1>9 DEF GoodBeat, IsBatchBeat

\* One beat before those that go on from where it ends.
LEMMA ShowsMore ==
  ASSUME NEW r, IsRun(r), NEW i \in 1..(Len(r.steps) + 1), NEW j \in 1..(Len(r.steps) + 1), NEW x, GoodBeat(r, x),
         NEW t, x.t0 = t, NEW start, x.start = start,
         \/ x.kind = "time" /\ i = j
         \/ x.kind = "batch" /\ x.first = i /\ x.last + 1 = j,
         NEW q, Shows(r, q, j, x.t1, EndOf(x)), NEW w, w = <<x>> \o q
  PROVE  Shows(r, w, i, t, start)
<1>1. /\ q \in Seq(BeatRecs) /\ x \in BeatRecs /\ Len(q) \in Nat /\ Len(r.steps) \in Nat
  BY LenProperties DEF Shows, GoodBeat, IsRun
<1>2. w \in Seq(BeatRecs) /\ Len(w) = Len(q) + 1 /\ w[1] = x /\ \A b \in 1..Len(q) : w[b + 1] = q[b]
  <2>1. <<x>> \in Seq(BeatRecs) /\ Len(<<x>>) = 1 /\ <<x>>[1] = x BY <1>1
  <2> DEFINE one == <<x>>
  <2> HIDE DEF one
  <2>2. /\ one \o q \in Seq(BeatRecs) /\ Len(one \o q) = Len(one) + Len(q)
        /\ \A b \in 1..(Len(one) + Len(q)) : (one \o q)[b] = IF b <= Len(one) THEN one[b] ELSE q[b - Len(one)]
    BY <1>1, <2>1, ConcatProperties DEF one
  <2>3. w = one \o q /\ Len(one) = 1 /\ one[1] = x BY <2>1 DEF one
  <2>4. 1 \in 1..(1 + Len(q)) /\ \A b \in 1..Len(q) : b + 1 \in 1..(1 + Len(q)) /\ (b + 1) - 1 = b /\ ~(b + 1 <= 1) BY <1>1
  <2> QED BY <1>1, <2>2, <2>3, <2>4
<1>3. \A b \in 1..Len(w) : b = 1 \/ (b - 1 \in 1..Len(q) /\ w[b] = q[b - 1])
  <2> TAKE b \in 1..Len(w)
  <2>1. CASE b # 1
    <3>1. b - 1 \in 1..Len(q) /\ (b - 1) + 1 = b BY <1>1, <1>2, <2>1
    <3> QED BY <1>2, <3>1
  <2> QED BY <2>1
<1>4. \A b \in 1..Len(q) : b + 1 \in 1..Len(w) /\ w[b + 1] = q[b] BY <1>1, <1>2
<1>5. \A b \in 1..Len(w) : GoodBeat(r, w[b]) BY <1>2, <1>3 DEF Shows
<1>6. w[Len(w)].t1 = r.t
  <2>1. CASE Len(q) = 0 BY <1>2, <2>1 DEF Shows
  <2>2. CASE Len(q) # 0
    <3>1. Len(q) \in 1..Len(q) /\ Len(q) > 0 BY <1>1, <2>2
    <3>2. w[Len(w)] = q[Len(q)] BY <1>2, <3>1
    <3> QED BY <3>1, <3>2 DEF Shows
  <2> QED BY <2>1, <2>2
<1>7. ASSUME NEW b \in 2..Len(w) PROVE w[b].start = EndOf(w[b - 1]) /\ w[b].t0 = w[b - 1].t1
  <2>1. b \in 1..Len(w) /\ b # 1 /\ b - 1 \in 1..Len(q) /\ w[b] = q[b - 1]
    <3>1. b \in 1..Len(w) /\ b # 1 BY <1>1, <1>2
    <3> QED BY <1>3, <3>1
  <2>2. CASE b = 2
    <3>1. w[b] = q[1] /\ w[b - 1] = x /\ Len(q) > 0 BY <1>1, <1>2, <2>1, <2>2
    <3> QED BY <3>1 DEF Shows
  <2>3. CASE b # 2
    <3>1. b - 1 \in 2..Len(q) /\ b - 1 \in 1..Len(w) /\ b - 1 # 1 BY <1>1, <1>2, <2>1, <2>3
    <3>2. w[b - 1] = q[(b - 1) - 1] BY <1>3, <3>1
    <3> QED BY <2>1, <3>1, <3>2 DEF Shows
  <2> QED BY <2>2, <2>3
<1>8. \A b \in 1..Len(q) : q[b].kind = "batch" => q[b].first >= j BY DEF Shows
<1>9. \A b \in 1..Len(w) : w[b].kind = "batch" => w[b].first \in Nat BY <1>5 DEF GoodBeat, BeatRecs
<1>10. x.kind = "batch" => x.last \in Nat /\ x.first \in Nat /\ x.first <= x.last /\ x.first = i /\ x.last + 1 = j
  <2>1. x.kind # "time" \/ x.kind # "batch" BY <1>1 DEF BeatRecs
  <2> QED BY <1>1, <2>1 DEF GoodBeat, BatchFacts, BeatRecs
<1>11. i <= j BY <1>1, <1>10
<1>12. ASSUME NEW b \in 1..Len(w), NEW c \in 1..Len(w), w[b].kind = "batch", w[c].kind = "batch", b < c
       PROVE  w[b].last < w[c].first
  <2>1. c - 1 \in 1..Len(q) /\ w[c] = q[c - 1] BY <1>1, <1>2, <1>3, <1>12
  <2>2. CASE b = 1
    <3>1. w[c].first >= j /\ w[c].first \in Nat BY <1>8, <1>9, <1>12, <2>1
    <3> QED BY <1>2, <1>10, <1>12, <2>2, <3>1
  <2>3. CASE b # 1
    <3>1. b - 1 \in 1..Len(q) /\ w[b] = q[b - 1] /\ b - 1 < c - 1 BY <1>1, <1>2, <1>3, <1>12, <2>3
    <3> QED BY <1>12, <2>1, <3>1 DEF Shows
  <2> QED BY <2>2, <2>3
<1>13. ASSUME NEW b \in 1..Len(w), w[b].kind = "batch" PROVE w[b].first >= i
  <2>1. CASE b = 1 BY <1>2, <1>10, <1>13, <2>1
  <2>2. CASE b # 1
    <3>1. w[b].first >= j /\ w[b].first \in Nat BY <1>3, <1>8, <1>9, <1>13, <2>2
    <3> QED BY <1>11, <3>1
  <2> QED BY <2>1, <2>2
<1>14. ASSUME NEW k \in i..Len(r.steps)
       PROVE  \E b \in 1..Len(w) : w[b].kind = "batch" /\ k \in w[b].first..w[b].last
  <2>1. CASE k \in j..Len(r.steps)
    <3>1. PICK b \in 1..Len(q) : q[b].kind = "batch" /\ k \in q[b].first..q[b].last BY <2>1 DEF Shows
    <3> QED BY <1>4, <3>1
  <2>2. CASE k \notin j..Len(r.steps)
    <3>1. k < j BY <1>1, <2>2
    <3>2. x.kind = "batch" BY <3>1
    <3>3. k \in x.first..x.last BY <1>10, <3>1, <3>2
    <3>4. 1 \in 1..Len(w) BY <1>1, <1>2
    <3> QED BY <1>2, <3>2, <3>3, <3>4
  <2> QED BY <2>1, <2>2
<1>15. Len(w) > 0 BY <1>1, <1>2
<1>16. /\ w \in Seq(BeatRecs) /\ \A b \in 1..Len(w) : GoodBeat(r, w[b])
       /\ Len(w) # 0 /\ w[1].start = start /\ w[1].t0 = t /\ w[Len(w)].t1 = r.t
  BY <1>2, <1>5, <1>6, <1>15
<1>17. \A b \in 2..Len(w) : w[b].start = EndOf(w[b - 1]) /\ w[b].t0 = w[b - 1].t1 BY <1>7
<1>18. \A b, c \in 1..Len(w) : w[b].kind = "batch" /\ w[c].kind = "batch" /\ b < c => w[b].last < w[c].first
  BY <1>12
<1>19. \A b \in 1..Len(w) : w[b].kind = "batch" => w[b].first >= i BY <1>13
<1>20. \A k \in i..Len(r.steps) : \E b \in 1..Len(w) : w[b].kind = "batch" /\ k \in w[b].first..w[b].last
  BY <1>14
<1> QED BY <1>16, <1>17, <1>18, <1>19, <1>20 DEF Shows

LEMMA ShowsNothing ==
  ASSUME NEW r, IsRun(r), NEW start
  PROVE  Shows(r, <<>>, Len(r.steps) + 1, r.t, start)
<1>1. Len(r.steps) \in Nat BY DEF IsRun
<1>2. <<>> \in Seq(BeatRecs) /\ Len(<<>>) = 0 BY EmptySeq
<1> DEFINE q == <<>>
<1> HIDE DEF q
<1>3. q \in Seq(BeatRecs) /\ Len(q) = 0 BY <1>2 DEF q
<1>4. 1..Len(q) = {} /\ 2..Len(q) = {} /\ (Len(r.steps) + 1)..Len(r.steps) = {} BY <1>1, <1>3
<1>5. Shows(r, q, Len(r.steps) + 1, r.t, start) BY <1>3, <1>4 DEF Shows
<1> QED BY <1>5 DEF q

LEMMA BeatsSteps ==
  ASSUME NEW r, IsRun(r), NEW u, u = BeatsFrom(r)
  PROVE  \A i \in 1..(Len(r.steps) + 1) :
           u[i] = IF i > Len(r.steps) THEN NoSteps(r) ELSE StepAnd(r, i, u[BatchEnd(r, i) + 1])
<1> DEFINE n == Len(r.steps)
           next(i) == BatchEnd(r, i) + 1
           Val(i, v) == IF i > n THEN NoSteps(r) ELSE StepAnd(r, i, v)
           Is(f, m) == f = [i \in (n + 1 - m)..(n + 1) |-> Val(i, f[next(i)])]
           P == {m \in Nat : m <= n => \E f : Is(f, m)}
<1>0. n \in Nat BY DEF IsRun
<1>1. \A i \in 1..n : next(i) \in (i + 1)..(n + 1)
  <2> TAKE i \in 1..n
  <2>1. BatchEnd(r, i) \in i..n BY <1>0, BatchEndIs
  <2> QED BY <1>0, <2>1
<1> HIDE DEF next, n
<1>2. 0 \in P
  <2> DEFINE f == [i \in (n + 1 - 0)..(n + 1) |-> NoSteps(r)]
  <2>1. \A i \in (n + 1 - 0)..(n + 1) : i > n BY <1>0
  <2>2. Is(f, 0) BY <2>1
  <2> HIDE DEF Is
  <2> QED BY <2>2
<1>3. ASSUME NEW m \in Nat, m \in P PROVE m + 1 \in P
  <2> HIDE DEF Is
  <2> SUFFICES ASSUME m + 1 <= n PROVE \E f : Is(f, m + 1) OBVIOUS
  <2>1. PICK f : Is(f, m) BY <1>0, <1>3
  <2> USE DEF Is
  <2> DEFINE k == n + 1 - (m + 1)
             x == Val(k, f[next(k)])
             h == [i \in k..(n + 1) |-> IF i = k THEN x ELSE f[i]]
  <2>2. k \in 1..n /\ k + 1 = n + 1 - m BY <1>0
  <2> HIDE DEF Val, k
  <2>3. \A i \in (k + 1)..(n + 1) : f[i] = Val(i, f[next(i)]) BY <2>1, <2>2
  <2>4. \A i \in (k + 1)..(n + 1) : i \in k..(n + 1) /\ i # k BY <1>0, <2>2
  <2>5. \A i \in (k + 1)..(n + 1) : h[i] = f[i] BY <2>4
  <2>6. k \in k..(n + 1) BY <1>0, <2>2
  <2>7. h[k] = x BY <2>6
  <2>8. h = [i \in k..(n + 1) |-> h[i]] OBVIOUS
  <2> HIDE DEF h, x
  <2>9. ASSUME NEW i \in k..(n + 1) PROVE h[i] = Val(i, h[next(i)])
    <3>1. CASE i = k
      <4>1. next(k) \in (k + 1)..(n + 1) BY <1>1, <2>2
      <4>2. h[next(k)] = f[next(k)] BY <2>5, <4>1
      <4> QED BY <2>7, <3>1, <4>2 DEF x
    <3>2. CASE i # k
      <4>1. i \in (k + 1)..(n + 1) BY <1>0, <2>2, <3>2
      <4>2. h[i] = Val(i, f[next(i)]) BY <2>3, <2>5, <4>1
      <4>3. CASE i > n BY <4>2, <4>3 DEF Val
      <4>4. CASE ~(i > n)
        <5>1. i \in 1..n BY <1>0, <2>2, <4>1, <4>4
        <5>2. next(i) \in (k + 1)..(n + 1)
          <6>1. next(i) \in (i + 1)..(n + 1) BY <1>1, <5>1
          <6> QED BY <1>0, <2>2, <4>1, <6>1
        <5>3. h[next(i)] = f[next(i)] BY <2>5, <5>2
        <5> QED BY <4>2, <5>3
      <4> QED BY <4>3, <4>4
    <3> QED BY <3>1, <3>2
  <2>10. Is(h, m + 1) BY <2>8, <2>9 DEF k
  <2> HIDE DEF Is
  <2> QED BY <2>10
<1>4. n \in P
  <2> HIDE DEF P, n
  <2>1. Nat \subseteq P BY <1>2, <1>3, NatSetInduction
  <2> QED BY <1>0, <2>1
<1>5. n + 1 - n = 1 BY <1>0
<1>6. \E f : f = [i \in 1..(n + 1) |-> Val(i, f[next(i)])] BY <1>4, <1>5
<1>7. u = [i \in 1..(n + 1) |-> Val(i, u[next(i)])] BY <1>6 DEF BeatsFrom, next, n
<1> HIDE DEF Val
<1>8. \A i \in 1..(n + 1) : u[i] = Val(i, u[next(i)]) BY <1>7
<1> QED BY <1>8 DEF Val, next, n

\* The beats of a run show it, wherever the display is when they begin.
ShowsFrom(r, rest, i, t) == \A start \in Nat : Shows(r, rest[start], i, t, start)

LEMMA BatchAndShows ==
  ASSUME NEW r, IsRun(r), NEW i \in 1..Len(r.steps), NEW rest,
         ShowsFrom(r, rest[r.steps[i].t], BatchEnd(r, i) + 1, r.steps[i].t),
         NEW start \in Nat
  PROVE  Shows(r, BatchAnd(r, i, rest, start), i, r.steps[i].t, start)
<1>1. PICK j : j = BatchEnd(r, i) OBVIOUS
<1>2. PICK x : x = BatchBeat(r, i, j, start) OBVIOUS
<1>3. PICK q : q = rest[r.steps[i].t][EndOf(x)] OBVIOUS
<1>4. /\ GoodBeat(r, x) /\ x.kind = "batch" /\ x.t0 = r.steps[i].t /\ x.t1 = x.t0 /\ x.start = start
      /\ x.first = i /\ x.last = j /\ EndOf(x) \in Nat
  <2>1. IsBatchBeat(r, x, i, j, start) BY <1>1, <1>2, BatchBeatGood
  <2> QED BY <2>1 DEF IsBatchBeat
<1>5. Len(r.steps) \in Nat BY DEF IsRun
<1>6. j \in i..Len(r.steps) BY <1>1, <1>5, BatchEndIs
<1>7. j + 1 \in 1..(Len(r.steps) + 1) /\ i \in 1..(Len(r.steps) + 1) BY <1>5, <1>6
<1>8. Shows(r, q, j + 1, x.t1, EndOf(x)) BY <1>1, <1>3, <1>4 DEF ShowsFrom
<1>9. Shows(r, <<x>> \o q, i, r.steps[i].t, start) BY <1>4, <1>7, <1>8, ShowsMore
<1> QED BY <1>1, <1>2, <1>3, <1>9 DEF BatchAnd

LEMMA StepAndShows ==
  ASSUME NEW r, IsRun(r), NEW i \in 1..Len(r.steps), NEW rest,
         ShowsFrom(r, rest[r.steps[i].t], BatchEnd(r, i) + 1, r.steps[i].t),
         NEW t \in 0..r.t, t <= r.steps[i].t, NEW start \in Nat
  PROVE  Shows(r, StepAnd(r, i, rest)[t][start], i, t, start)
<1>1. PICK s : s = r.steps[i].t OBVIOUS
<1>2. s \in Nat /\ t \in Nat /\ Len(r.steps) \in Nat BY <1>1 DEF IsRun
<1>3. StepAnd(r, i, rest)[t][start] =
        IF s > t THEN <<TimeBeat(t, s, start)>> \o BatchAnd(r, i, rest, EndOf(TimeBeat(t, s, start)))
        ELSE BatchAnd(r, i, rest, start)
  BY <1>1 DEF StepAnd
<1>4. CASE s > t
  <2>1. PICK x : x = TimeBeat(t, s, start) OBVIOUS
  <2>2. GoodBeat(r, x) /\ x.kind = "time" /\ x.t0 = t /\ x.t1 = s /\ x.start = start /\ EndOf(x) \in Nat
    <3>1. t < s BY <1>2, <1>4
    <3>2. IsTimeBeat(r, x, t, s, start) BY <1>2, <2>1, <3>1, TimeBeatGood
    <3> QED BY <3>2 DEF IsTimeBeat
  <2>3. PICK q : q = BatchAnd(r, i, rest, EndOf(x)) OBVIOUS
  <2>4. Shows(r, q, i, s, EndOf(x)) BY <1>1, <2>2, <2>3, BatchAndShows
  <2>5. i \in 1..(Len(r.steps) + 1) BY <1>2
  <2>6. Shows(r, <<x>> \o q, i, t, start) BY <2>2, <2>4, <2>5, ShowsMore
  <2> QED BY <1>3, <1>4, <2>1, <2>3, <2>6
<1>5. CASE ~(s > t)
  <2>1. s = t BY <1>1, <1>2, <1>5
  <2>2. Shows(r, BatchAnd(r, i, rest, start), i, s, start) BY <1>1, BatchAndShows
  <2> QED BY <1>3, <1>5, <2>1, <2>2
<1> QED BY <1>4, <1>5

LEMMA NoStepsShow ==
  ASSUME NEW r, IsRun(r), NEW t \in 0..r.t, NEW start \in Nat
  PROVE  Shows(r, NoSteps(r)[t][start], Len(r.steps) + 1, t, start)
<1>1. t \in Nat /\ r.t \in Nat /\ Len(r.steps) \in Nat BY DEF IsRun
<1>2. NoSteps(r)[t][start] = IF r.t > t THEN <<TimeBeat(t, r.t, start)>> ELSE <<>> BY DEF NoSteps
<1>3. CASE r.t > t
  <2>0. PICK s \in Nat : s = r.t /\ t < s BY <1>1, <1>3
  <2>1. PICK x : x = TimeBeat(t, s, start) OBVIOUS
  <2>2. GoodBeat(r, x) /\ x.kind = "time" /\ x.t0 = t /\ x.t1 = s /\ x.start = start
    <3>1. IsTimeBeat(r, x, t, s, start) BY <1>1, <2>0, <2>1, TimeBeatGood
    <3> QED BY <3>1 DEF IsTimeBeat
  <2>3. Len(r.steps) + 1 \in 1..(Len(r.steps) + 1) BY <1>1
  <2>4. Shows(r, <<>>, Len(r.steps) + 1, x.t1, EndOf(x)) BY <2>0, <2>2, ShowsNothing
  <2>5. PICK q : q = <<>> OBVIOUS
  <2>6. Shows(r, <<x>> \o q, Len(r.steps) + 1, t, start) BY <2>2, <2>3, <2>4, <2>5, ShowsMore
  <2>7. <<x>> \o <<>> = <<x>>
    <3>1. <<x>> \in Seq({x}) OBVIOUS
    <3> QED BY <3>1, ConcatEmptySeq
  <2> QED BY <1>2, <1>3, <2>0, <2>1, <2>5, <2>6, <2>7
<1>4. CASE ~(r.t > t)
  <2>1. r.t = t BY <1>1, <1>4
  <2> QED BY <1>2, <1>4, <2>1, ShowsNothing
<1> QED BY <1>3, <1>4

LEMMA BeatsShow ==
  ASSUME NEW r, IsRun(r)
  PROVE  Shows(r, Beats(r), 1, 0, 0)
<1> DEFINE n == Len(r.steps)
           u == BeatsFrom(r)
           Early(i, t) == i <= n => t <= r.steps[i].t
           Q(i) == \A t \in 0..r.t : Early(i, t) => ShowsFrom(r, u[i][t], i, t)
           P == {m \in Nat : \A i \in 1..(n + 1) : i >= n + 1 - m => Q(i)}
<1>0. n \in Nat /\ r.t \in Nat BY DEF IsRun
<1>1. \A i \in 1..(n + 1) : u[i] = IF i > n THEN NoSteps(r) ELSE StepAnd(r, i, u[BatchEnd(r, i) + 1])
  BY BeatsSteps
<1> HIDE DEF u, n
<1>2. 0 \in P
  <2> HIDE DEF Q
  <2> SUFFICES ASSUME NEW i \in 1..(n + 1), i >= n + 1 - 0 PROVE Q(i) OBVIOUS
  <2> USE DEF Q
  <2>1. i = n + 1 /\ i > n BY <1>0
  <2>2. u[i] = NoSteps(r) BY <1>1, <2>1
  <2> QED BY <2>1, <2>2, NoStepsShow DEF ShowsFrom, n
<1>3. ASSUME NEW m \in Nat, m \in P PROVE m + 1 \in P
  <2> HIDE DEF Q
  <2> SUFFICES ASSUME NEW i \in 1..(n + 1), i >= n + 1 - (m + 1) PROVE Q(i) OBVIOUS
  <2>1. CASE i >= n + 1 - m BY <1>3, <2>1
  <2>2. CASE ~(i >= n + 1 - m)
    <3>1. i \in 1..n /\ ~(i > n) BY <1>0, <2>2
    <3>2. PICK j : j = BatchEnd(r, i) OBVIOUS
    <3>3. BatchFacts(r, i, j) BY <1>0, <3>1, <3>2, BatchIs DEF n
    <3>4. j \in i..n /\ r.steps[j].t = r.steps[i].t
      <4>1. j \in i..n BY <3>3 DEF BatchFacts, n
      <4>2. j \in i..j BY <1>0, <3>1, <4>1
      <4> QED BY <3>3, <4>1, <4>2 DEF BatchFacts
    <3>5. j + 1 \in 1..(n + 1) /\ j + 1 >= n + 1 - m BY <1>0, <2>2, <3>1, <3>4
    <3>6. Q(j + 1) BY <1>3, <3>5
    <3>7. r.steps[i].t \in 0..r.t BY <3>1 DEF IsRun, n
    <3>8. Early(j + 1, r.steps[i].t)
      <4>1. HAVE j + 1 <= n
      <4>2. j \in 1..n /\ j + 1 \in j..n BY <1>0, <3>1, <3>4, <4>1
      <4> QED BY <3>4, <4>2 DEF IsRun, n
    <3> HIDE DEF Early
    <3>9. ShowsFrom(r, u[j + 1][r.steps[i].t], j + 1, r.steps[i].t) BY <3>6, <3>7, <3>8 DEF Q
    <3>10. u[i] = StepAnd(r, i, u[j + 1]) BY <1>1, <3>1, <3>2
    <3>11. PICK rest : rest = u[j + 1] OBVIOUS
    <3>12. ASSUME NEW t \in 0..r.t, Early(i, t), NEW start \in Nat PROVE Shows(r, u[i][t][start], i, t, start)
      <4>1. t <= r.steps[i].t BY <1>0, <3>1, <3>12 DEF Early
      <4>0. i \in 1..Len(r.steps) BY <3>1 DEF n
      <4>2. Shows(r, StepAnd(r, i, rest)[t][start], i, t, start)
        BY <3>2, <3>9, <3>11, <4>0, <4>1, StepAndShows
      <4> QED BY <3>10, <3>11, <4>2
    <3> QED BY <3>12 DEF Q, ShowsFrom
  <2> QED BY <2>1, <2>2
<1>4. Q(1)
  <2> HIDE DEF P, Q, n
  <2>1. Nat \subseteq P BY <1>2, <1>3, NatSetInduction
  <2>2. n \in P /\ 1 \in 1..(n + 1) /\ 1 >= n + 1 - n BY <1>0, <2>1
  <2> QED BY <2>2 DEF P
<1>5. Early(1, 0) /\ 0 \in 0..r.t /\ 0 \in Nat
  <2>1. n >= 1 => r.steps[1].t \in 0..r.t BY <1>0 DEF IsRun, n
  <2> QED BY <1>0, <2>1
<1>6. Shows(r, u[1][0][0], 1, 0, 0)
  <2> HIDE DEF Early
  <2> QED BY <1>4, <1>5 DEF ShowsFrom
<1> QED BY <1>6 DEF Beats, u

-----------------------------------------------------------------------------
(* Positions on the timeline.                                              *)

\* The beats in a row: each has a length and begins where the one before ends.
Row(q) ==
  /\ q \in Seq(BeatRecs) /\ Len(q) \in Nat /\ Total(q) \in Nat
  /\ \A b \in 1..Len(q) : /\ q[b] \in BeatRecs /\ EndOf(q[b]) \in Nat /\ EndOf(q[b]) = q[b].start + q[b].d
                          /\ q[b].start < EndOf(q[b]) /\ EndOf(q[b]) <= Total(q)
                          /\ q[b].kind = "batch" => q[b].d > Eps
  /\ \A b, c \in 1..Len(q) : b < c => EndOf(q[b]) <= q[c].start
  /\ \A b \in 2..Len(q) : q[b].start = EndOf(q[b - 1])
  /\ Len(q) > 0 => q[1].start = 0 /\ Total(q) = EndOf(q[Len(q)])

LEMMA ShownInARow ==
  ASSUME NEW r, NEW q, Shows(r, q, 1, 0, 0)
  PROVE  Row(q)
<1>0. q \in Seq(BeatRecs) /\ Len(q) \in Nat BY LenProperties DEF Shows
<1> DEFINE n == Len(q)
<1>1. \A b \in 1..n : q[b] \in BeatRecs /\ q[b].d > 0 /\ (q[b].kind = "batch" => q[b].d > Eps)
  BY DEF Shows, GoodBeat
<1>2. ASSUME NEW b \in 1..n
      PROVE  /\ EndOf(q[b]) \in Nat /\ EndOf(q[b]) = q[b].start + q[b].d
             /\ q[b].start < EndOf(q[b]) /\ q[b].start \in Nat
  <2>1. q[b].start \in Nat /\ q[b].d \in Nat /\ q[b].d > 0 BY <1>1 DEF BeatRecs
  <2> QED BY <2>1 DEF EndOf
<1>3. \A b \in 2..n : q[b].start = EndOf(q[b - 1]) BY DEF Shows
<1>4. \A b, c \in 1..n : b < c => EndOf(q[b]) <= q[c].start
  <2> DEFINE P == {m \in Nat : \A b, c \in 1..n : b < c /\ c <= m => EndOf(q[b]) <= q[c].start}
  <2>1. 0 \in P BY <1>0
  <2>2. ASSUME NEW m \in Nat, m \in P PROVE m + 1 \in P
    <3> SUFFICES ASSUME NEW b \in 1..n, NEW c \in 1..n, b < c, c <= m + 1 PROVE EndOf(q[b]) <= q[c].start
      OBVIOUS
    <3>1. c \in 2..n /\ c - 1 \in 1..n /\ c - 1 <= m BY <1>0
    <3>2. q[c].start = EndOf(q[c - 1]) BY <1>3, <3>1
    <3>3. EndOf(q[c - 1]) \in Nat /\ EndOf(q[b]) \in Nat BY <1>2, <3>1
    <3>4. CASE b = c - 1 BY <3>2, <3>3, <3>4
    <3>5. CASE b # c - 1
      <4>1. b < c - 1 BY <1>0, <3>5
      <4>2. EndOf(q[b]) <= q[c - 1].start BY <2>2, <3>1, <4>1
      <4>3. q[c - 1].start < EndOf(q[c - 1]) /\ q[c - 1].start \in Nat BY <1>2, <3>1
      <4> QED BY <3>2, <3>3, <4>2, <4>3
    <3> QED BY <3>4, <3>5
  <2> HIDE DEF P
  <2>3. Nat \subseteq P BY <2>1, <2>2, NatSetInduction
  <2>4. n \in P BY <1>0, <2>3
  <2> QED BY <1>0, <2>4 DEF P
<1>5. n > 0 => q[1].start = 0 BY DEF Shows
<1>6. CASE n = 0
  <2>1. Total(q) = 0
    <3>1. q = <<>> BY <1>0, <1>6, EmptySeq
    <3> QED BY <3>1 DEF Total
  <2> QED BY <1>0, <1>6, <2>1 DEF Row
<1>7. CASE n # 0
  <2>1. n \in 1..n BY <1>0, <1>7
  <2>2. q # <<>> BY <1>7, EmptySeq
  <2>3. Total(q) = EndOf(q[n]) BY <2>2 DEF Total
  <2>4. Total(q) \in Nat BY <1>2, <2>1, <2>3
  <2>5. ASSUME NEW b \in 1..n PROVE EndOf(q[b]) <= Total(q)
    <3>1. CASE b = n BY <2>3, <2>4, <3>1
    <3>2. CASE b # n
      <4>1. EndOf(q[b]) <= q[n].start BY <1>0, <1>4, <2>1, <3>2
      <4> QED BY <1>2, <2>1, <2>3, <4>1
    <3> QED BY <3>1, <3>2
  <2> HIDE DEF n
  <2> QED BY <1>0, <1>1, <1>2, <1>3, <1>4, <1>5, <2>3, <2>4, <2>5 DEF Row, n
<1> QED BY <1>6, <1>7

\* The search of frameAt, at one of its steps.
LEMMA SearchSteps ==
  ASSUME NEW q, Row(q), NEW x \in Nat, NEW u, u = Search(q, x)
  PROVE  \A lo, hi \in 1..Len(q) :
           u[lo][hi] = IF lo >= hi THEN lo
                       ELSE IF q[(lo + hi + 1) \div 2].start <= x THEN u[(lo + hi + 1) \div 2][hi]
                       ELSE u[lo][(lo + hi + 1) \div 2 - 1]
<1> DEFINE n == Len(q)
           mid(lo, hi) == (lo + hi + 1) \div 2
           Val(f, lo, hi) == IF lo >= hi THEN lo
                             ELSE IF q[mid(lo, hi)].start <= x THEN f[mid(lo, hi)][hi] ELSE f[lo][mid(lo, hi) - 1]
           C(lo, hi) == {m \in lo..hi : m = lo \/ q[m].start <= x}
           g(lo, hi) == IF lo >= hi THEN lo ELSE LargestOf(C(lo, hi))
           f == [lo \in 1..n |-> [hi \in 1..n |-> g(lo, hi)]]
<1>0. n \in Nat BY DEF Row
<1>1. \A b, c \in 1..n : b < c => q[b].start \in Nat /\ q[c].start \in Nat /\ q[b].start < q[c].start
  <2> TAKE b, c \in 1..n
  <2>1. q[b].start \in Nat /\ q[c].start \in Nat BY DEF Row, BeatRecs
  <2>2. EndOf(q[b]) \in Nat /\ q[b].start < EndOf(q[b]) BY DEF Row
  <2>3. b < c => EndOf(q[b]) <= q[c].start BY DEF Row
  <2> QED BY <2>1, <2>2, <2>3
<1> HIDE DEF n
<1>2. ASSUME NEW lo \in 1..n, NEW hi \in 1..n, lo < hi
      PROVE  mid(lo, hi) \in (lo + 1)..hi
  BY <1>0, <1>2
<1>3. ASSUME NEW lo \in 1..n, NEW hi \in 1..n, lo <= hi
      PROVE  g(lo, hi) \in C(lo, hi) /\ \A m \in C(lo, hi) : g(lo, hi) >= m
  <2>1. lo \in C(lo, hi) /\ C(lo, hi) \in SUBSET Nat /\ \A m \in C(lo, hi) : m <= hi BY <1>0, <1>3
  <2> HIDE DEF C
  <2>2. LargestOf(C(lo, hi)) \in C(lo, hi) /\ \A m \in C(lo, hi) : LargestOf(C(lo, hi)) >= m
    <3>1. hi \in Nat BY <1>0
    <3> QED BY <2>1, <3>1, LargestIs
  <2>3. CASE lo >= hi
    <3>1. lo = hi BY <1>0, <1>3, <2>3
    <3>2. \A m \in C(lo, hi) : lo >= m BY <1>0, <2>1, <3>1
    <3> QED BY <2>1, <2>3, <3>2
  <2>4. CASE ~(lo >= hi) BY <2>2, <2>4
  <2> QED BY <2>3, <2>4
<1> HIDE DEF mid
<1>4. ASSUME NEW lo \in 1..n, NEW hi \in 1..n, lo < hi, NEW m, m = mid(lo, hi)
      PROVE  g(lo, hi) = IF q[m].start <= x THEN g(m, hi) ELSE g(lo, m - 1)
  <2>1. m \in (lo + 1)..hi BY <1>2, <1>4
  <2>2. m \in 1..n /\ m - 1 \in 1..n /\ m <= hi /\ lo <= m - 1 /\ lo <= hi BY <1>0, <1>4, <2>1
  <2>3. g(lo, hi) \in C(lo, hi) /\ \A y \in C(lo, hi) : g(lo, hi) >= y BY <1>3, <2>2
  <2> HIDE DEF g
  <2>4. CASE q[m].start <= x
    <3>1. g(m, hi) \in C(m, hi) /\ \A y \in C(m, hi) : g(m, hi) >= y
      <4> USE DEF g
      <4> QED BY <1>3, <2>2
    <3>2. m \in C(lo, hi) BY <1>0, <2>1, <2>2, <2>4
    <3>3. g(lo, hi) >= m /\ g(lo, hi) \in C(m, hi) BY <1>0, <2>1, <2>2, <2>3, <3>2
    <3>4. g(m, hi) \in C(lo, hi) BY <1>0, <2>1, <2>2, <2>4, <3>1
    <3>5. g(m, hi) >= g(lo, hi) /\ g(lo, hi) >= g(m, hi) BY <2>3, <3>1, <3>3, <3>4
    <3>6. g(m, hi) \in Nat /\ g(lo, hi) \in Nat BY <1>0, <2>2, <3>3, <3>4
    <3> QED BY <2>4, <3>5, <3>6
  <2>5. CASE ~(q[m].start <= x)
    <3>1. g(lo, m - 1) \in C(lo, m - 1) /\ \A y \in C(lo, m - 1) : g(lo, m - 1) >= y
      <4> USE DEF g
      <4> QED BY <1>3, <2>2
    <3>2. ASSUME NEW y \in C(lo, hi) PROVE y \in C(lo, m - 1)
      <4>1. y \in lo..hi /\ y \in 1..n /\ (y = lo \/ q[y].start <= x) BY <1>0, <3>2
      <4>2. y # m BY <1>0, <2>1, <2>5, <4>1
      <4>3. ~(m < y)
        <5>1. ASSUME m < y PROVE FALSE
          <6>1. q[m].start < q[y].start /\ q[y].start \in Nat /\ q[m].start \in Nat BY <1>1, <2>2, <4>1, <5>1
          <6>2. y # lo BY <1>0, <2>1, <5>1
          <6> QED BY <2>5, <4>1, <6>1, <6>2
        <5> QED BY <5>1
      <4> QED BY <1>0, <2>1, <4>1, <4>2, <4>3
    <3>3. \A y \in C(lo, m - 1) : y \in C(lo, hi) BY <1>0, <2>1
    <3>4. g(lo, m - 1) >= g(lo, hi) /\ g(lo, hi) >= g(lo, m - 1) BY <2>3, <3>1, <3>2, <3>3
    <3>5. g(lo, m - 1) \in Nat /\ g(lo, hi) \in Nat BY <1>0, <2>3, <3>1
    <3> QED BY <2>5, <3>4, <3>5
  <2> QED BY <2>4, <2>5
<1>5. \A lo, hi \in 1..n : f[lo][hi] = g(lo, hi) OBVIOUS
<1>6. ASSUME NEW lo \in 1..n, NEW hi \in 1..n PROVE f[lo][hi] = Val(f, lo, hi)
  <2>1. CASE lo >= hi
    <3>1. g(lo, hi) = lo BY <2>1
    <3> QED BY <1>5, <2>1, <3>1
  <2>2. CASE ~(lo >= hi)
    <3>1. lo < hi BY <1>0, <2>2
    <3>2. PICK m : m = mid(lo, hi) OBVIOUS
    <3>3. m \in 1..n /\ m - 1 \in 1..n
      <4>1. m \in (lo + 1)..hi BY <1>2, <3>1, <3>2
      <4> QED BY <1>0, <4>1
    <3>4. f[m][hi] = g(m, hi) /\ f[lo][m - 1] = g(lo, m - 1) /\ f[lo][hi] = g(lo, hi) BY <1>5, <3>3
    <3> HIDE DEF f, g, C
    <3>5. g(lo, hi) = IF q[m].start <= x THEN g(m, hi) ELSE g(lo, m - 1) BY <1>4, <3>1, <3>2
    <3> QED BY <2>2, <3>2, <3>4, <3>5
  <2> QED BY <2>1, <2>2
<1>7. f = [lo \in 1..n |-> [hi \in 1..n |-> Val(f, lo, hi)]]
  <2>1. ASSUME NEW lo \in 1..n PROVE f[lo] = [hi \in 1..n |-> Val(f, lo, hi)]
    <3>1. f[lo] = [hi \in 1..n |-> f[lo][hi]] OBVIOUS
    <3> HIDE DEF f, Val
    <3> QED BY <1>6, <3>1
  <2>2. f = [lo \in 1..n |-> f[lo]] OBVIOUS
  <2> HIDE DEF f, Val
  <2> QED BY <2>1, <2>2
<1>8. \E h : h = [lo \in 1..n |-> [hi \in 1..n |-> Val(h, lo, hi)]]
  <2> HIDE DEF f, Val
  <2> QED BY <1>7
<1>9. u = [lo \in 1..n |-> [hi \in 1..n |-> Val(u, lo, hi)]] BY <1>8 DEF Search, mid, n
<1> HIDE DEF Val
<1>10. \A lo, hi \in 1..n : u[lo][hi] = Val(u, lo, hi)
  <2> TAKE lo, hi \in 1..n
  <2>1. u[lo] = [y \in 1..n |-> Val(u, lo, y)] BY <1>9
  <2> QED BY <2>1
<1> QED BY <1>10 DEF Val, mid, n

\* The search finds the last beat that has begun.
LEMMA SearchIs ==
  ASSUME NEW q, Row(q), Len(q) > 0, NEW x \in Nat, NEW b, b = Search(q, x)[1][Len(q)]
  PROVE  b \in 1..Len(q) /\ q[b].start <= x /\ (b < Len(q) => x < q[b + 1].start)
<1> DEFINE n == Len(q)
           u == Search(q, x)
           mid(lo, hi) == (lo + hi + 1) \div 2
           Found(c) == c \in 1..n /\ q[c].start <= x /\ (c < n => x < q[c + 1].start)
           Between(lo, hi) == q[lo].start <= x /\ (hi < n => x < q[hi + 1].start)
           P == {m \in Nat : \A lo, hi \in 1..n : lo <= hi /\ hi - lo <= m /\ Between(lo, hi) => Found(u[lo][hi])}
<1>0. n \in Nat /\ n > 0 /\ q[1].start = 0 /\ \A c \in 1..n : q[c].start \in Nat BY DEF Row, BeatRecs
<1>1. \A lo, hi \in 1..n :
        u[lo][hi] = IF lo >= hi THEN lo
                    ELSE IF q[mid(lo, hi)].start <= x THEN u[mid(lo, hi)][hi] ELSE u[lo][mid(lo, hi) - 1]
  BY SearchSteps
<1> HIDE DEF n, u
<1>2. 0 \in P
  <2> HIDE DEF Found, Between
  <2> SUFFICES ASSUME NEW lo \in 1..n, NEW hi \in 1..n, lo <= hi, hi - lo <= 0, Between(lo, hi)
               PROVE  Found(u[lo][hi])
    OBVIOUS
  <2> USE DEF Found, Between
  <2>1. lo = hi BY <1>0
  <2>2. u[lo][hi] = lo BY <1>0, <1>1, <2>1
  <2> QED BY <2>1, <2>2
<1>3. ASSUME NEW m \in Nat, m \in P PROVE m + 1 \in P
  <2> HIDE DEF Found, Between
  <2> SUFFICES ASSUME NEW lo \in 1..n, NEW hi \in 1..n, lo <= hi, hi - lo <= m + 1, Between(lo, hi)
               PROVE  Found(u[lo][hi])
    OBVIOUS
  <2> USE DEF Found, Between
  <2>1. CASE lo = hi
    <3>1. u[lo][hi] = lo BY <1>0, <1>1, <2>1
    <3> QED BY <2>1, <3>1
  <2>2. CASE lo # hi
    <3>1. PICK k : k = mid(lo, hi) OBVIOUS
    <3>2. k \in (lo + 1)..hi
      <4>1. lo \in Nat /\ hi \in Nat /\ lo < hi BY <1>0, <2>2
      <4> HIDE DEF P, Between, Found
      <4> QED BY <3>1, <4>1
    <3>3. ~(lo >= hi) BY <1>0, <2>2
    <3>4. u[lo][hi] = IF q[k].start <= x THEN u[k][hi] ELSE u[lo][k - 1] BY <1>1, <3>1, <3>3
    <3>5. k \in 1..n /\ k - 1 \in 1..n /\ k <= hi /\ lo <= k - 1 /\ hi - k <= m /\ (k - 1) - lo <= m
      BY <1>0, <3>2
    <3> HIDE DEF mid
    <3>6. CASE q[k].start <= x
      <4>1. Between(k, hi) BY <3>6
      <4>2. Found(u[k][hi]) BY <1>3, <3>5, <4>1
      <4> QED BY <3>4, <3>6, <4>2
    <3>7. CASE ~(q[k].start <= x)
      <4>1. q[k].start \in Nat BY <1>0, <3>5
      <4>2. k \in Nat /\ (k - 1) + 1 = k
        <5> HIDE DEF P, Between, Found
        <5> QED BY <1>0, <3>5
      <4>3. x < q[k].start BY <3>7, <4>1
      <4>4. Between(lo, k - 1) BY <4>1, <4>2, <4>3
      <4>5. Found(u[lo][k - 1]) BY <1>3, <3>5, <4>4
      <4> QED BY <3>4, <3>7, <4>5
    <3> QED BY <3>6, <3>7
  <2> QED BY <2>1, <2>2
<1>4. n \in P
  <2> HIDE DEF P
  <2>1. Nat \subseteq P BY <1>2, <1>3, NatSetInduction
  <2> QED BY <1>0, <2>1
<1>5. Between(1, n) BY <1>0
<1>6. 1 \in 1..n /\ n \in 1..n /\ 1 <= n /\ n - 1 <= n BY <1>0
<1>7. Found(u[1][n]) BY <1>4, <1>5, <1>6
<1> QED BY <1>7 DEF u, n

\* The beat that frameAt finds holds the position.
LEMMA FrameIs ==
  ASSUME NEW q, Row(q), NEW x \in Nat, x < Total(q), NEW b, b = FrameIndex(q, x)
  PROVE  b \in 1..Len(q) /\ q[b].start <= x /\ x < EndOf(q[b])
<1>1. Total(q) \in Nat /\ Len(q) \in Nat BY DEF Row
<1>2. Len(q) > 0
  <2>1. q # <<>> BY <1>1 DEF Total
  <2>2. q \in Seq(BeatRecs) BY DEF Row
  <2> QED BY <1>1, <2>1, <2>2, EmptySeq
<1>3. b = Search(q, x)[1][Len(q)] BY <1>1 DEF FrameIndex
<1>4. b \in 1..Len(q) /\ q[b].start <= x /\ (b < Len(q) => x < q[b + 1].start) BY <1>2, <1>3, SearchIs
<1>5. CASE b = Len(q)
  <2>1. Total(q) = EndOf(q[b]) BY <1>2, <1>5 DEF Row
  <2> QED BY <1>4, <2>1
<1>6. CASE b # Len(q)
  <2>1. b + 1 \in 2..Len(q) /\ (b + 1) - 1 = b /\ b < Len(q) BY <1>1, <1>4, <1>6
  <2>2. q[b + 1].start = EndOf(q[b]) BY <2>1 DEF Row
  <2> QED BY <1>4, <2>1, <2>2
<1> QED BY <1>5, <1>6

-----------------------------------------------------------------------------
(* What the beats of a run are.                                            *)

Batch(q, b) == b \in 1..Len(q) /\ q[b].kind = "batch"

LEMMA BatchOf ==
  ASSUME NEW r, NEW q, Shows(r, q, 1, 0, 0), NEW b, Batch(q, b)
  PROVE  /\ BatchFacts(r, q[b].first, q[b].last) /\ q[b].t0 = r.steps[q[b].first].t
         /\ (q[b].stop <=> q[b].last \in r.stops)
         /\ q[b].first \in Nat /\ q[b].last \in Nat
BY DEF Batch, Shows, GoodBeat, BeatRecs

\* A step is in one batch.
LEMMA BatchOfStep ==
  ASSUME NEW r, NEW q, Shows(r, q, 1, 0, 0), NEW b, Batch(q, b), NEW c, Batch(q, c),
         NEW i, i \in q[b].first..q[b].last, i \in q[c].first..q[c].last
  PROVE  b = c
<1>0. q[b].first \in Nat /\ q[b].last \in Nat /\ q[c].first \in Nat /\ q[c].last \in Nat BY BatchOf
<1>1. /\ b \in 1..Len(q) /\ c \in 1..Len(q) /\ i \in Int
      /\ q[b].first \in Nat /\ q[b].last \in Nat /\ q[c].first \in Nat /\ q[c].last \in Nat
  BY <1>0 DEF Batch
<1>2. ~(b < c)
  <2>1. b < c => q[b].last < q[c].first BY <1>1 DEF Shows, Batch
  <2> QED BY <1>1, <2>1
<1>3. ~(c < b)
  <2>1. c < b => q[c].last < q[b].first BY <1>1 DEF Shows, Batch
  <2> QED BY <1>1, <2>1
<1> QED BY <1>1, <1>2, <1>3

LEMMA WholeRunShown ==
  ASSUME IsRun(run), Shows(run, beats, 1, 0, 0), Row(beats)
  PROVE  WholeRun
<1> DEFINE n == Len(beats)
           batches == {b \in 1..n : beats[b].kind = "batch"}
<1>1. n \in Nat /\ Len(run.steps) \in Nat /\ run.t \in Nat BY DEF Row, IsRun
<1>2. \A b : b \in batches <=> Batch(beats, b) BY DEF Batch
<1>3. ASSUME NEW i \in 1..Len(run.steps)
      PROVE  Cardinality({b \in batches : i \in beats[b].first..beats[b].last}) = 1
  <2>1. PICK b \in 1..n : beats[b].kind = "batch" /\ i \in beats[b].first..beats[b].last BY DEF Shows
  <2>2. ASSUME NEW c \in batches, i \in beats[c].first..beats[c].last PROVE c = b
    <3>1. Batch(beats, b) /\ Batch(beats, c) BY <2>1 DEF Batch
    <3> QED BY <2>1, <2>2, <3>1, BatchOfStep
  <2>3. {c \in batches : i \in beats[c].first..beats[c].last} = {b} BY <2>1, <2>2
  <2> QED BY <2>3, FS_Singleton
<1>4. ASSUME NEW b \in batches, NEW i \in beats[b].first..beats[b].last
      PROVE  i \in 1..Len(run.steps) /\ run.steps[i].t = beats[b].t0
  <2>1. Batch(beats, b) BY <1>2
  <2>2. BatchFacts(run, beats[b].first, beats[b].last) /\ beats[b].t0 = run.steps[beats[b].first].t
    BY <2>1, BatchOf
  <2> HIDE DEF batches
  <2> QED BY <1>1, <2>2 DEF BatchFacts
<1>5. \A b \in 2..n : beats[b].start = EndOf(beats[b - 1]) /\ beats[b].t0 = beats[b - 1].t1 BY DEF Shows
<1>6. \A b, c \in batches : b < c => beats[b].last < beats[c].first BY DEF Shows
<1>7. run.t > 0 => n > 0 /\ beats[1].t0 = 0 /\ beats[n].t1 = run.t
  <2> SUFFICES ASSUME run.t > 0 PROVE n > 0 /\ beats[1].t0 = 0 /\ beats[n].t1 = run.t OBVIOUS
  <2>1. n # 0 BY <1>1 DEF Shows
  <2>2. n > 0 BY <1>1, <2>1
  <2> QED BY <2>2 DEF Shows
<1> QED BY <1>3, <1>4, <1>5, <1>6, <1>7 DEF WholeRun

LEMMA MovedOnce ==
  ASSUME Shows(run, beats, 1, 0, 0)
  PROVE  MovesOnce
<1> SUFFICES ASSUME NEW b \in 1..Len(beats), beats[b].kind = "batch"
             PROVE  LET first == beats[b].first
                        last == beats[b].last
                    IN  /\ \A i, j \in first..last : i # j => Tokens(run.steps[i]) \cap Tokens(run.steps[j]) = {}
                        /\ last < Len(run.steps) /\ run.steps[last + 1].t = beats[b].t0 /\ ~beats[b].stop =>
                             \E i \in first..last : Tokens(run.steps[i]) \cap Tokens(run.steps[last + 1]) # {}
  BY DEF MovesOnce
<1>1. PICK first : first = beats[b].first OBVIOUS
<1>2. PICK last : last = beats[b].last OBVIOUS
<1>3. Batch(beats, b) BY DEF Batch
<1>4. /\ BatchFacts(run, first, last) /\ beats[b].t0 = run.steps[first].t
      /\ (beats[b].stop <=> last \in run.stops)
  BY <1>1, <1>2, <1>3, BatchOf
<1>5. \A i, j \in first..last : i # j => Tokens(run.steps[i]) \cap Tokens(run.steps[j]) = {}
  BY <1>4 DEF BatchFacts
<1>6. ASSUME last < Len(run.steps), run.steps[last + 1].t = beats[b].t0, ~beats[b].stop
      PROVE  \E i \in first..last : Tokens(run.steps[i]) \cap Tokens(run.steps[last + 1]) # {}
  <2>1. run.steps[last + 1].t = run.steps[first].t /\ last \notin run.stops BY <1>4, <1>6
  <2> QED BY <1>4, <1>6, <2>1 DEF BatchFacts
<1> QED BY <1>1, <1>2, <1>5, <1>6

LEMMA StopsShown ==
  ASSUME Shows(run, beats, 1, 0, 0)
  PROVE  StopsLandOnEnds
<1>1. ASSUME NEW b \in 1..Len(beats), beats[b].stop
      PROVE  beats[b].last \in run.stops \cap 1..Len(run.steps)
  <2>1. beats[b].kind = "batch"
    <3>1. GoodBeat(run, beats[b]) BY DEF Shows
    <3>2. beats[b].kind \in {"time", "batch"} BY <3>1 DEF GoodBeat, BeatRecs
    <3> QED BY <1>1, <3>1, <3>2 DEF GoodBeat
  <2>2. Batch(beats, b) BY <2>1 DEF Batch
  <2>3. BatchFacts(run, beats[b].first, beats[b].last) /\ beats[b].last \in run.stops BY <1>1, <2>2, BatchOf
  <2>4. beats[b].first \in Nat BY <2>2, BatchOf
  <2> QED BY <2>3, <2>4 DEF BatchFacts
<1>2. ASSUME NEW k \in run.stops \cap 1..Len(run.steps)
      PROVE  \E b \in 1..Len(beats) : beats[b].stop /\ k = beats[b].last
  <2>1. PICK b \in 1..Len(beats) : beats[b].kind = "batch" /\ k \in beats[b].first..beats[b].last BY DEF Shows
  <2>2. Batch(beats, b) BY <2>1 DEF Batch
  <2>3. /\ BatchFacts(run, beats[b].first, beats[b].last) /\ (beats[b].stop <=> beats[b].last \in run.stops)
        /\ beats[b].first \in Nat /\ beats[b].last \in Nat
    BY <2>2, BatchOf
  <2>4. k \notin beats[b].first..(beats[b].last - 1) BY <2>3 DEF BatchFacts
  <2>5. k = beats[b].last BY <2>1, <2>3, <2>4
  <2> QED BY <2>3, <2>5
<1> QED BY <1>1, <1>2 DEF StopsLandOnEnds

LEMMA FrameFound ==
  ASSUME Row(beats), p \in Nat
  PROVE  FrameHolds
BY FrameIs DEF FrameHolds

-----------------------------------------------------------------------------
(* The ends of batches, and the functions that look positions up.          *)

\* Batches are longer than Eps, and so their ends are further apart.
LEMMA EndsApart ==
  ASSUME NEW q, Row(q), NEW b \in 1..Len(q), NEW c, Batch(q, c)
  PROVE  /\ EndOf(q[b]) \in Nat /\ EndOf(q[c]) \in Nat /\ Eps \in Nat /\ Eps < EndOf(q[c])
         /\ b < c => EndOf(q[b]) + Eps < EndOf(q[c])
<1>1. /\ c \in 1..Len(q) /\ q[c].kind = "batch" /\ q[c].d > Eps /\ EndOf(q[c]) = q[c].start + q[c].d
      /\ EndOf(q[c]) \in Nat /\ EndOf(q[b]) \in Nat
  BY DEF Row, Batch
<1>2. q[c].d \in Nat /\ q[c].start \in Nat BY <1>1 DEF Row, BeatRecs
<1>3. Eps \in Nat BY TimelineAssumption
<1>4. b < c => EndOf(q[b]) <= q[c].start BY <1>1 DEF Row
<1> QED BY <1>1, <1>2, <1>3, <1>4

LEMMA EndIs ==
  ASSUME NEW q, NEW e
  PROVE  e \in Ends(q) <=> \E b : Batch(q, b) /\ e = EndOf(q[b])
BY DEF Ends, Batch

LEMMA EndsAreNumbers ==
  ASSUME NEW q, Row(q)
  PROVE  /\ Ends(q) \in SUBSET Nat /\ \A e \in Ends(q) : Eps < e /\ e <= Total(q)
         /\ \A e, f \in Ends(q) : f < e => f + Eps < e
<1>1. ASSUME NEW e \in Ends(q) PROVE e \in Nat /\ Eps < e /\ e <= Total(q)
  <2>1. PICK b : Batch(q, b) /\ e = EndOf(q[b]) BY EndIs
  <2>2. b \in 1..Len(q) BY <2>1 DEF Batch
  <2>3. Eps < EndOf(q[b]) /\ EndOf(q[b]) \in Nat BY <2>1, <2>2, EndsApart
  <2> QED BY <2>1, <2>2, <2>3 DEF Row
<1>2. ASSUME NEW e \in Ends(q), NEW f \in Ends(q), f < e PROVE f + Eps < e
  <2>1. PICK b : Batch(q, b) /\ e = EndOf(q[b]) BY EndIs
  <2>2. PICK c : Batch(q, c) /\ f = EndOf(q[c]) BY EndIs
  <2>3. b \in 1..Len(q) /\ c \in 1..Len(q) /\ Len(q) \in Nat BY <2>1, <2>2 DEF Batch, Row
  <2>4. e \in Nat /\ f \in Nat /\ Eps \in Nat BY <1>1, TimelineAssumption
  <2>5. b < c => e + Eps < f BY <2>1, <2>2, <2>3, EndsApart
  <2>6. c < b => f + Eps < e BY <2>1, <2>2, <2>3, EndsApart
  <2>7. b # c BY <1>2, <2>1, <2>2, <2>4
  <2>8. c < b BY <1>2, <2>3, <2>4, <2>5, <2>7
  <2> QED BY <2>6, <2>8
<1> QED BY <1>1, <1>2

\* Step leads on, and after Step back it leads here again.
LEMMA NextIs ==
  ASSUME NEW q, Row(q), NEW x \in Nat
  PROVE  /\ NextStop(q, x) \in Nat /\ NextStop(q, x) <= Total(q)
         /\ \/ NextStop(q, x) = Total(q)
            \/ NextStop(q, x) \in Ends(q) /\ NextStop(q, x) > x + Eps
         /\ \A e \in Ends(q) : e > x + Eps => /\ NextStop(q, x) \in Ends(q) /\ NextStop(q, x) > x + Eps
                                              /\ NextStop(q, x) <= e
<1> DEFINE later == {e \in Ends(q) : e > x + Eps}
<1>1. Ends(q) \in SUBSET Nat /\ (\A e \in Ends(q) : e <= Total(q)) /\ Total(q) \in Nat BY EndsAreNumbers DEF Row
<1>2. NextStop(q, x) = IF later = {} THEN Total(q) ELSE SmallestOf(later) BY DEF NextStop
<1>3. CASE later = {} BY <1>1, <1>2, <1>3
<1>4. CASE later # {}
  <2>1. later \in SUBSET Nat BY <1>1
  <2>2. SmallestOf(later) \in later /\ \A e \in later : SmallestOf(later) <= e BY <1>4, <2>1, SmallestIs
  <2> QED BY <1>1, <1>2, <1>4, <2>2
<1> QED BY <1>3, <1>4

LEMMA PrevIs ==
  ASSUME NEW q, Row(q), NEW e \in Nat, Eps < e
  PROVE  /\ PrevStop(q, e) \in Nat /\ PrevStop(q, e) + Eps < e
         /\ \A f \in Ends(q) : f + Eps < e => f <= PrevStop(q, e)
<1> DEFINE S == {0} \cup {f \in Ends(q) : f < e - Eps}
<1>1. Ends(q) \in SUBSET Nat /\ Eps \in Nat BY EndsAreNumbers, TimelineAssumption
<1>2. S \in SUBSET Nat /\ S # {} /\ \A f \in S : f <= e BY <1>1
<1>3. LargestOf(S) \in S /\ \A f \in S : LargestOf(S) >= f BY <1>2, LargestIs
<1>4. PrevStop(q, e) = LargestOf(S) BY DEF PrevStop
<1>5. ASSUME NEW f \in S PROVE f \in Nat /\ f + Eps < e BY <1>1
<1>6. ASSUME NEW f \in Ends(q), f + Eps < e PROVE f \in S BY <1>1, <1>6
<1> HIDE DEF S
<1>7. \A f \in S : f <= LargestOf(S) BY <1>2, <1>3
<1> QED BY <1>3, <1>4, <1>5, <1>6, <1>7

LEMMA StepUndoesStepBack ==
  ASSUME NEW q, Row(q), NEW e \in Ends(q)
  PROVE  NextStop(q, PrevStop(q, e)) = e
<1>1. /\ Ends(q) \in SUBSET Nat /\ Eps < e /\ e \in Nat /\ Eps \in Nat
      /\ \A f \in Ends(q) : f < e => f + Eps < e
  BY EndsAreNumbers, TimelineAssumption
<1>2. PICK v \in Nat : v = PrevStop(q, e) /\ v + Eps < e /\ \A f \in Ends(q) : f + Eps < e => f <= v
  BY <1>1, PrevIs
<1>3. PICK w : w = NextStop(q, v) OBVIOUS
<1>4. w \in Ends(q) /\ w > v + Eps /\ w <= e
  <2>1. e > v + Eps BY <1>1, <1>2
  <2> QED BY <1>3, <2>1, NextIs
<1>5. w \in Nat BY <1>1, <1>4
<1>6. ~(w < e) BY <1>1, <1>2, <1>4, <1>5
<1> QED BY <1>1, <1>2, <1>3, <1>4, <1>5, <1>6

\* The step at the end of a batch is its last, and before it an earlier one.
LEMMA StepAtEnd ==
  ASSUME NEW r, NEW q, Shows(r, q, 1, 0, 0), Row(q), NEW b, Batch(q, b)
  PROVE  StepAt(q, EndOf(q[b])) = q[b].last
<1> DEFINE e == EndOf(q[b])
           done == {c \in 1..Len(q) : q[c].start <= e /\ q[c].kind = "batch" /\ EndOf(q[c]) <= e + Eps}
<1>0. b \in 1..Len(q) /\ q[b].kind = "batch" /\ Len(q) \in Nat BY DEF Batch, Row
<1>1. e \in Nat /\ Eps \in Nat /\ q[b].start <= e /\ q[b].start \in Nat
  <2>1. q[b].start \in Nat BY <1>0 DEF Row, BeatRecs
  <2>2. e \in Nat /\ q[b].start < e BY <1>0 DEF Row
  <2> QED BY <2>1, <2>2, TimelineAssumption
<1>2. b \in done BY <1>0, <1>1
<1>3. ASSUME NEW c \in done PROVE c <= b
  <2>1. c \in 1..Len(q) /\ Batch(q, c) /\ EndOf(q[c]) <= e + Eps BY DEF Batch
  <2>2. EndOf(q[c]) \in Nat /\ (b < c => e + Eps < EndOf(q[c])) BY <1>0, <2>1, EndsApart
  <2> QED BY <1>0, <1>1, <2>1, <2>2
<1>4. done \in SUBSET Nat /\ b \in Nat BY <1>0
<1>5. LargestOf(done) \in done /\ \A c \in done : LargestOf(done) >= c BY <1>2, <1>3, <1>4, LargestIs
<1>6. LargestOf(done) = b BY <1>2, <1>3, <1>4, <1>5
<1>7. StepAt(q, e) = IF done = {} THEN 0 ELSE q[LargestOf(done)].last BY DEF StepAt
<1> QED BY <1>2, <1>6, <1>7

LEMMA StepBefore ==
  ASSUME NEW r, NEW q, Shows(r, q, 1, 0, 0), Row(q), NEW b, Batch(q, b), NEW x \in Nat, x + Eps < EndOf(q[b])
  PROVE  StepAt(q, x) < q[b].last
<1> DEFINE done == {c \in 1..Len(q) : q[c].start <= x /\ q[c].kind = "batch" /\ EndOf(q[c]) <= x + Eps}
<1>0. b \in 1..Len(q) /\ q[b].kind = "batch" /\ Len(q) \in Nat BY DEF Batch, Row
<1>1. q[b].first \in Nat /\ q[b].last \in Nat /\ q[b].first > 0 /\ q[b].first <= q[b].last
  <2>1. BatchFacts(r, q[b].first, q[b].last) /\ q[b].first \in Nat /\ q[b].last \in Nat BY BatchOf
  <2> QED BY <2>1 DEF BatchFacts
<1>2. StepAt(q, x) = IF done = {} THEN 0 ELSE q[LargestOf(done)].last BY DEF StepAt
<1>3. CASE done = {} BY <1>1, <1>2, <1>3
<1>4. CASE done # {}
  <2>1. done \in SUBSET Nat /\ \A c \in done : c <= Len(q) BY <1>0
  <2>2. PICK c : c = LargestOf(done) OBVIOUS
  <2>3. c \in done BY <1>0, <1>4, <2>1, <2>2, LargestIs
  <2>4. c \in 1..Len(q) /\ Batch(q, c) /\ EndOf(q[c]) <= x + Eps BY <2>3 DEF Batch
  <2>5. EndOf(q[c]) \in Nat /\ EndOf(q[b]) \in Nat /\ Eps \in Nat /\ (b < c => EndOf(q[b]) + Eps < EndOf(q[c]))
    BY <1>0, <2>4, EndsApart
  <2>6. c # b BY <2>4, <2>5
  <2>7. ~(b < c) BY <2>4, <2>5
  <2>8. c < b BY <1>0, <2>4, <2>6, <2>7
  <2>9. q[c].last < q[b].first BY <1>0, <2>4, <2>8 DEF Shows, Batch
  <2>10. q[c].last \in Nat BY <2>4, BatchOf
  <2>11. q[c].last < q[b].last BY <1>1, <2>9, <2>10
  <2> HIDE DEF done
  <2> QED BY <1>2, <1>4, <2>2, <2>11
<1> QED BY <1>3, <1>4

LEMMA PositionOfLast ==
  ASSUME NEW r, NEW q, Shows(r, q, 1, 0, 0), NEW b, Batch(q, b)
  PROVE  PositionOfStep(q, q[b].last) = EndOf(q[b])
<1> DEFINE i == q[b].last
           holds == {c \in 1..Len(q) : q[c].kind = "batch" /\ q[c].first <= i /\ i <= q[c].last}
<1>1. BatchFacts(r, q[b].first, q[b].last) /\ q[b].first \in Nat /\ q[b].last \in Nat BY BatchOf
<1>2. b \in 1..Len(q) /\ q[b].kind = "batch" /\ q[b].first <= i /\ i <= i BY <1>1 DEF Batch, BatchFacts
<1>3. ASSUME NEW c \in holds PROVE c = b
  <2>1. Batch(q, c) BY DEF Batch
  <2>2. q[c].first \in Nat /\ q[c].last \in Nat BY <2>1, BatchOf
  <2>3. i \in q[c].first..q[c].last /\ i \in q[b].first..q[b].last BY <1>1, <1>2, <2>2
  <2> QED BY <2>1, <2>3, BatchOfStep
<1>4. holds \in SUBSET Nat /\ b \in holds BY <1>2
<1>5. SmallestOf(holds) = b BY <1>3, <1>4, SmallestIs
<1>6. PositionOfStep(q, i) = IF holds = {} THEN 0 ELSE EndOf(q[SmallestOf(holds)]) BY DEF PositionOfStep
<1> QED BY <1>4, <1>5, <1>6

-----------------------------------------------------------------------------
(* The clock.                                                              *)

LEMMA Scaled ==
  ASSUME NEW a \in Nat, NEW c \in Nat, NEW s \in Nat, s > 0
  PROVE  a * s \in Nat /\ (a < c => a * s < c * s)
<1>1. a * s \in Nat /\ c * s \in Nat OBVIOUS
<1>2. ASSUME a < c PROVE a * s < c * s
  <2>1. PICK x \in Nat : c = a + x /\ x > 0
    <3>1. c - a \in Nat /\ c - a > 0 /\ c = a + (c - a) BY <1>2
    <3> QED BY <3>1
  <2>2. c * s = a * s + x * s BY <2>1
  <2>3. x * s \in Nat /\ x * s > 0 BY <2>1
  <2> QED BY <1>1, <2>2, <2>3
<1> QED BY <1>1, <1>2

LEMMA Unscaled ==
  ASSUME NEW a \in Nat, NEW s \in Nat, s > 0
  PROVE  (a * s) \div s = a
OBVIOUS

LEMMA OneFrame ==
  ASSUME NEW q, Row(q), NEW x \in Nat, NEW b \in 1..Len(q), q[b].start <= x, x < EndOf(q[b])
  PROVE  x < Total(q) /\ FrameIndex(q, x) = b
<1>1. Len(q) \in Nat /\ Total(q) \in Nat /\ EndOf(q[b]) \in Nat /\ EndOf(q[b]) <= Total(q) /\ q[b].start \in Nat
  BY DEF Row, BeatRecs
<1>2. x < Total(q) BY <1>1
<1>3. PICK c : c = FrameIndex(q, x) OBVIOUS
<1>4. c \in 1..Len(q) /\ q[c].start <= x /\ x < EndOf(q[c]) BY <1>2, <1>3, FrameIs
<1>5. q[c].start \in Nat /\ EndOf(q[c]) \in Nat BY <1>4 DEF Row, BeatRecs
<1>6. (b < c => EndOf(q[b]) <= q[c].start) /\ (c < b => EndOf(q[c]) <= q[b].start) BY <1>4 DEF Row
<1>7. ~(b < c) /\ ~(c < b) BY <1>1, <1>4, <1>5, <1>6
<1>8. c = b BY <1>1, <1>4, <1>7
<1> QED BY <1>2, <1>3, <1>8

\* The clock reads t at the position of t.
LEMMA ClockReads ==
  ASSUME NEW r, NEW q, Shows(r, q, 1, 0, 0), Row(q), NEW t \in Nat, PositionOf(q, t) # -1
  PROVE  ClockAt(q, PositionOf(q, t)) = t
<1> DEFINE over == {b \in 1..Len(q) : q[b].kind = "time" /\ q[b].t0 <= t /\ t <= q[b].t1}
<1>1. /\ PositionOf(q, t) = IF over = {} THEN -1
                            ELSE q[SmallestOf(over)].start + (t - q[SmallestOf(over)].t0) * Slow
  BY DEF PositionOf
<1>2. over # {} /\ over \in SUBSET Nat BY <1>1
<1>3. PICK b : b = SmallestOf(over) OBVIOUS
<1>4. b \in over BY <1>2, <1>3, SmallestIs
<1>5. PICK beat : beat = q[b] OBVIOUS
<1>6. /\ b \in 1..Len(q) /\ beat.kind = "time" /\ beat.t0 <= t /\ t <= beat.t1
  BY <1>4, <1>5
<1> HIDE DEF over
<1>7. /\ Len(q) \in Nat /\ beat.t0 \in Nat /\ beat.t1 \in Nat /\ beat.start \in Nat
  BY <1>5, <1>6 DEF Row, BeatRecs
<1>8. /\ EndOf(beat) = beat.start + beat.d /\ EndOf(beat) \in Nat /\ EndOf(beat) <= Total(q) /\ Total(q) \in Nat
  BY <1>5, <1>6 DEF Row
<1>9. beat.d = (beat.t1 - beat.t0) * Slow
  <2>1. GoodBeat(r, beat) BY <1>5, <1>6 DEF Shows
  <2> QED BY <1>6, <2>1 DEF GoodBeat
<1>10. Slow \in Nat /\ Slow > 0 BY TimelineAssumption
<1>11. PICK a \in Nat : a = t - beat.t0 BY <1>6, <1>7
<1>12. PICK c \in Nat : c = beat.t1 - beat.t0 BY <1>6, <1>7
<1>13. PICK x \in Nat : x = beat.start + a * Slow /\ x = PositionOf(q, t)
  <2>1. a * Slow \in Nat BY <1>10, Scaled
  <2>2. PositionOf(q, t) = beat.start + a * Slow BY <1>1, <1>2, <1>3, <1>5, <1>11
  <2> QED BY <1>7, <2>1, <2>2
<1>14. a * Slow \in Nat /\ c * Slow \in Nat /\ (a < c => a * Slow < c * Slow) BY <1>10, Scaled
<1>15. EndOf(beat) = beat.start + c * Slow BY <1>8, <1>9, <1>12
<1>16. /\ x < Total(q) => LET f == q[FrameIndex(q, x)]
                          IN  ClockAt(q, x) = IF f.kind = "time" THEN f.t0 + (x - f.start) \div Slow ELSE f.t0
       /\ x >= Total(q) => ClockAt(q, x) = q[Len(q)].t1
  <2>1. x < Total(q) => ~(x >= Total(q)) BY <1>8
  <2>2. x >= Total(q) => FrameIndex(q, x) = Len(q) BY DEF FrameIndex
  <2> QED BY <2>1, <2>2 DEF ClockAt
<1>17. CASE t < beat.t1
  <2>1. a < c BY <1>6, <1>7, <1>11, <1>12, <1>17
  <2>2. beat.start <= x /\ x < EndOf(beat) BY <1>7, <1>13, <1>14, <1>15, <2>1
  <2>3. x < Total(q) /\ FrameIndex(q, x) = b BY <1>5, <1>6, <2>2, OneFrame
  <2>4. ClockAt(q, x) = beat.t0 + (x - beat.start) \div Slow BY <1>5, <1>6, <1>16, <2>3
  <2>5. x - beat.start = a * Slow BY <1>7, <1>13, <1>14
  <2>6. (a * Slow) \div Slow = a BY <1>10, Unscaled
  <2>7. beat.t0 + a = t BY <1>7, <1>11
  <2>8. ClockAt(q, x) = t BY <2>4, <2>5, <2>6, <2>7
  <2> QED BY <1>13, <2>8
<1>18. CASE ~(t < beat.t1)
  <2>1. t = beat.t1 BY <1>6, <1>7, <1>18
  <2>2. x = EndOf(beat) BY <1>7, <1>11, <1>12, <1>13, <1>15, <2>1
  <2>3. CASE b = Len(q)
    <3>1. Total(q) = EndOf(beat) BY <1>5, <1>6, <1>7, <2>3 DEF Row
    <3>2. x >= Total(q) BY <1>8, <2>2, <3>1
    <3>3. ClockAt(q, x) = t BY <1>5, <1>16, <2>1, <2>3, <3>2
    <3> QED BY <1>13, <3>3
  <2>4. CASE b # Len(q)
    <3>1. b + 1 \in 2..Len(q) /\ b + 1 \in 1..Len(q) /\ (b + 1) - 1 = b BY <1>6, <1>7, <2>4
    <3>2. PICK g : g = q[b + 1] OBVIOUS
    <3>3. g.start = x /\ g.t0 = t BY <1>5, <2>1, <2>2, <3>1, <3>2 DEF Shows
    <3>4. g.start < EndOf(g) BY <3>1, <3>2 DEF Row
    <3>5. q[b + 1].start <= x /\ x < EndOf(q[b + 1]) BY <3>2, <3>3, <3>4
    <3>6. x < Total(q) /\ FrameIndex(q, x) = b + 1 BY <3>1, <3>5, OneFrame
    <3>7. ClockAt(q, x) = IF g.kind = "time" THEN t + (x - x) \div Slow ELSE t BY <1>16, <3>2, <3>3, <3>6
    <3>8. (x - x) \div Slow = 0
      <4>1. x - x = 0 /\ 0 * Slow = 0 BY <1>10
      <4>2. (0 * Slow) \div Slow = 0 BY <1>10, Unscaled
      <4> QED BY <4>1, <4>2
    <3>9. ClockAt(q, x) = t BY <3>7, <3>8
    <3> QED BY <1>13, <3>9
  <2> QED BY <2>3, <2>4
<1> QED BY <1>17, <1>18

LEMMA LookupsAgree ==
  ASSUME IsRun(run), Shows(run, beats, 1, 0, 0), Row(beats), p \in Nat
  PROVE  StepsAgree
<1>1. NextStop(beats, p) > p \/ AtEnd
  <2>1. \/ NextStop(beats, p) = Total(beats)
        \/ NextStop(beats, p) \in Ends(beats) /\ NextStop(beats, p) > p + Eps
    BY NextIs
  <2>2. Total(beats) \in Nat /\ Eps \in Nat /\ Eps > 0 BY TimelineAssumption DEF Row
  <2>3. Ends(beats) \in SUBSET Nat BY EndsAreNumbers
  <2> QED BY <2>1, <2>2, <2>3 DEF AtEnd
<1>2. ASSUME NEW e \in Ends(beats)
      PROVE  /\ NextStop(beats, PrevStop(beats, e)) = e
             /\ StepAt(beats, e) > StepAt(beats, PrevStop(beats, e))
             /\ PositionOfStep(beats, StepAt(beats, e)) = e
  <2>1. PICK b : Batch(beats, b) /\ e = EndOf(beats[b]) BY EndIs
  <2>2. StepAt(beats, e) = beats[b].last BY <2>1, StepAtEnd
  <2>3. e \in Nat /\ Eps < e BY EndsAreNumbers
  <2>4. PrevStop(beats, e) \in Nat /\ PrevStop(beats, e) + Eps < e BY <2>3, PrevIs
  <2>5. StepAt(beats, PrevStop(beats, e)) < beats[b].last BY <2>1, <2>4, StepBefore
  <2>6. NextStop(beats, PrevStop(beats, e)) = e BY StepUndoesStepBack
  <2>7. PositionOfStep(beats, beats[b].last) = e BY <2>1, PositionOfLast
  <2> QED BY <2>2, <2>5, <2>6, <2>7
<1>3. \A t \in 0..run.t : PositionOf(beats, t) # -1 => ClockAt(beats, PositionOf(beats, t)) = t
  <2>1. \A t \in 0..run.t : t \in Nat BY DEF IsRun
  <2> QED BY <2>1, ClockReads
<1> QED BY <1>1, <1>2, <1>3 DEF StepsAgree

-----------------------------------------------------------------------------
(* The player.                                                             *)

\* The inductive invariant: the player has a run that is one, and numbers.
PlayerIInv == run \in Runs /\ news \in Nat /\ PlayerTypeOK /\ PlayingMoves

LEMMA RunShown ==
  ASSUME run \in Runs, beats = Beats(run)
  PROVE  IsRun(run) /\ Shows(run, beats, 1, 0, 0) /\ Row(beats)
<1>1. IsRun(run) BY PlayerAssumption
<1>2. Shows(run, beats, 1, 0, 0) BY <1>1, BeatsShow
<1> QED BY <1>1, <1>2, ShownInARow

\* The positions that a click or a frame may choose.
LEMMA StopsAreNumbers ==
  ASSUME Row(beats)
  PROVE  StopEnds(beats) \in SUBSET Nat /\ (\A e \in StopEnds(beats) : e <= Total(beats)) /\ Total(beats) \in Nat
<1>1. \A b \in 1..Len(beats) : EndOf(beats[b]) \in Nat /\ EndOf(beats[b]) <= Total(beats) BY DEF Row
<1>2. \A e \in StopEnds(beats) : \E b \in 1..Len(beats) : e = EndOf(beats[b]) BY DEF StopEnds
<1>3. \A e \in StopEnds(beats) : e \in Nat /\ e <= Total(beats) BY <1>1, <1>2
<1> QED BY <1>3 DEF Row

LEMMA StepPositions ==
  ASSUME Row(beats), NEW i \in Nat
  PROVE  PositionOfStep(beats, i) \in Nat
<1> DEFINE holds == {b \in 1..Len(beats) : beats[b].kind = "batch" /\ beats[b].first <= i /\ i <= beats[b].last}
<1>1. PositionOfStep(beats, i) = IF holds = {} THEN 0 ELSE EndOf(beats[SmallestOf(holds)]) BY DEF PositionOfStep
<1>2. CASE holds = {} BY <1>1, <1>2
<1>3. CASE holds # {}
  <2>1. holds \in SUBSET Nat BY DEF Row
  <2>2. SmallestOf(holds) \in holds BY <1>3, <2>1, SmallestIs
  <2>3. SmallestOf(holds) \in 1..Len(beats) BY <2>2
  <2>4. EndOf(beats[SmallestOf(holds)]) \in Nat BY <2>3 DEF Row
  <2> QED BY <1>1, <1>3, <2>4
<1> QED BY <1>2, <1>3

LEMMA PrevPosition ==
  ASSUME Row(beats), p \in Nat
  PROVE  PrevStop(beats, p) \in Nat
<1> DEFINE S == {0} \cup {f \in Ends(beats) : f < p - Eps}
<1>1. Ends(beats) \in SUBSET Nat /\ Eps \in Nat BY EndsAreNumbers, TimelineAssumption
<1>2. S \in SUBSET Nat /\ S # {} /\ \A f \in S : f <= p BY <1>1
<1>3. LargestOf(S) \in S BY <1>2, LargestIs
<1> QED BY <1>2, <1>3 DEF PrevStop

LEMMA Left ==
  ASSUME NEW position, NEW pause \in BOOLEAN, Leave(position, pause)
  PROVE  due' = position /\ pausing' = pause /\ pausing' \in BOOLEAN /\ ticking' \in BOOLEAN /\ (ticking' <=> ~pausing')
BY DEF Leave

\* What a frame leaves to the next render, from p to next.
LEMMA FrameLeaves ==
  ASSUME Row(beats), p \in Nat, NEW next \in Nat, p <= next, Move(next)
  PROVE  /\ due' \in Nat /\ (ticking' <=> ~pausing') /\ pausing' \in BOOLEAN /\ ticking' \in BOOLEAN
         /\ p <= Total(beats) => p <= due' /\ due' <= Total(beats)
<1> DEFINE crossed == Crossed(p, next)
<1>1. /\ StopEnds(beats) \in SUBSET Nat /\ Total(beats) \in Nat /\ Eps \in Nat
      /\ \A e \in StopEnds(beats) : e <= Total(beats)
  BY StopsAreNumbers, TimelineAssumption
<1>2. crossed \in SUBSET Nat /\ \A e \in crossed : e > p + Eps /\ e <= Total(beats) BY <1>1 DEF Crossed
<1>3. \/ crossed # {} /\ Leave(SmallestOf(crossed), TRUE)
      \/ crossed = {} /\ next >= Total(beats) /\ Leave(Total(beats), TRUE)
      \/ crossed = {} /\ ~(next >= Total(beats)) /\ Leave(next, FALSE)
  BY DEF Move
<1> HIDE DEF crossed
<1>7. (ticking' <=> ~pausing') /\ pausing' \in BOOLEAN /\ ticking' \in BOOLEAN BY <1>3, Left
<1>4. CASE crossed # {} /\ Leave(SmallestOf(crossed), TRUE)
  <2>1. SmallestOf(crossed) \in crossed BY <1>2, <1>4, SmallestIs
  <2>2. \A e \in crossed : e \in Nat /\ p <= e /\ e <= Total(beats)
    <3> TAKE e \in crossed
    <3>1. e \in Nat /\ e > p + Eps /\ e <= Total(beats) BY <1>2
    <3> QED BY <1>1, <3>1
  <2>3. due' = SmallestOf(crossed) BY <1>4, Left
  <2> QED BY <1>7, <2>1, <2>2, <2>3
<1>5. CASE crossed = {} /\ next >= Total(beats) /\ Leave(Total(beats), TRUE)
  <2>1. due' = Total(beats) BY <1>5, Left
  <2> QED BY <1>1, <1>7, <2>1
<1>6. CASE crossed = {} /\ ~(next >= Total(beats)) /\ Leave(next, FALSE)
  <2>1. due' = next BY <1>6, Left
  <2> QED BY <1>1, <1>6, <1>7, <2>1
<1> QED BY <1>3, <1>4, <1>5, <1>6

\* A frame: it moves nothing yet, or it leaves a position.
LEMMA FrameIsKept ==
  ASSUME PlayerIInv, Row(beats), NEW time \in Advances, TickBy(time)
  PROVE  /\ due' \in Nat \cup {None} /\ held' \in 0..(Jump - 1) /\ fresh' = FALSE
         /\ pausing' \in BOOLEAN /\ ticking' \in BOOLEAN
         /\ ticking' \/ pausing'
         /\ due' # due /\ p <= Total(beats) => p <= due' /\ due' <= Total(beats)
<1>1. /\ p \in Nat /\ due \in Nat \cup {None} /\ held \in 0..(Jump - 1) /\ Jump \in Nat /\ Jump > 0
      /\ pausing \in BOOLEAN /\ ticking
  BY PlayerAssumption DEF PlayerIInv, PlayerTypeOK, TickBy
<1>2. PICK advance \in Nat : advance = IF fresh THEN 0 ELSE time
  <2>1. time \in Nat BY PlayerAssumption
  <2> QED BY <2>1
<1>3. /\ fresh' = FALSE
      /\ IF reduce /\ held + advance < Jump
         THEN held' = held + advance /\ UNCHANGED <<due, pausing, ticking>>
         ELSE held' = 0 /\ Move(IF reduce THEN NextStop(beats, p) ELSE p + advance)
  BY <1>2 DEF TickBy
<1>4. CASE reduce /\ held + advance < Jump
  <2>1. held' = held + advance /\ due' = due /\ pausing' = pausing /\ ticking' = ticking BY <1>3, <1>4
  <2>2. held + advance \in 0..(Jump - 1) BY <1>1, <1>4
  <2>3. ticking' = TRUE
    <3>1. ticking \in BOOLEAN BY DEF PlayerIInv, PlayerTypeOK
    <3> QED BY <1>1, <2>1, <3>1
  <2> QED BY <1>1, <1>3, <2>1, <2>2, <2>3
<1>5. CASE ~(reduce /\ held + advance < Jump)
  <2>1. PICK next : next = IF reduce THEN NextStop(beats, p) ELSE p + advance OBVIOUS
  <2>2. held' = 0 /\ Move(next) BY <1>3, <1>5, <2>1
  <2>3. CASE p <= Total(beats) \/ ~reduce
    <3>1. next \in Nat /\ p <= next
      <4>1. CASE reduce
        <5>1. next = NextStop(beats, p) BY <2>1, <4>1
        <5>0. /\ NextStop(beats, p) \in Nat
              /\ \/ NextStop(beats, p) = Total(beats)
                 \/ NextStop(beats, p) \in Ends(beats) /\ NextStop(beats, p) > p + Eps
          BY <1>1, NextIs
        <5>2. next \in Nat /\ (next = Total(beats) \/ next > p + Eps) BY <5>0, <5>1
        <5>3. Eps \in Nat /\ Total(beats) \in Nat BY TimelineAssumption DEF Row
        <5> QED BY <1>1, <2>3, <4>1, <5>2, <5>3
      <4>2. CASE ~reduce BY <1>1, <2>1, <4>2
      <4> QED BY <4>1, <4>2
    <3>2. /\ due' \in Nat /\ (ticking' <=> ~pausing') /\ pausing' \in BOOLEAN /\ ticking' \in BOOLEAN
          /\ p <= Total(beats) => p <= due' /\ due' <= Total(beats)
      BY <1>1, <2>2, <3>1, FrameLeaves
    <3> QED BY <1>1, <1>3, <2>2, <3>2
  <2>4. CASE ~(p <= Total(beats)) /\ reduce
    <3>1. next \in Nat BY <1>1, <2>1, <2>4, NextIs
    <3>2. Crossed(p, next) \in SUBSET Nat BY StopsAreNumbers DEF Crossed
    <3>3. Crossed(p, next) # {} => SmallestOf(Crossed(p, next)) \in Nat BY <3>2, SmallestIs
    <3>4. Total(beats) \in Nat BY DEF Row
    <3>5. \E position \in Nat, pause \in BOOLEAN : Leave(position, pause) BY <2>2, <3>1, <3>3, <3>4 DEF Move
    <3>6. due' \in Nat /\ pausing' \in BOOLEAN /\ ticking' \in BOOLEAN /\ (ticking' \/ pausing') BY <3>5, Left
    <3> QED BY <1>1, <1>3, <2>2, <2>4, <3>6
  <2> QED BY <2>3, <2>4
<1> QED BY <1>4, <1>5

\* A click, once it has said what plays.
LEMMA PlaysIsKept ==
  ASSUME PlayerIInv, NEW start \in BOOLEAN, NEW restarted \in BOOLEAN, Plays(start, restarted)
  PROVE  /\ {playing', pausing', ticking', fresh'} \subseteq BOOLEAN /\ held' \in 0..(Jump - 1)
         /\ playing' = start
         /\ ~start \/ (start <=> ~playing) \/ restarted \/ ~pausing \/ raced => (playing' => ticking' \/ raced)
<1>1. /\ playing \in BOOLEAN /\ ticking \in BOOLEAN /\ fresh \in BOOLEAN /\ held \in 0..(Jump - 1)
      /\ pausing \in BOOLEAN /\ raced \in BOOLEAN /\ Jump \in Nat /\ Jump > 0
      /\ playing => ticking \/ pausing \/ raced
  BY PlayerAssumption DEF PlayerIInv, PlayerTypeOK, PlayingMoves
<1>2. /\ playing' = start /\ pausing' = FALSE
      /\ ticking' = IF start = playing /\ ~restarted THEN ticking ELSE start
      /\ held' = IF start = playing /\ ~restarted THEN held ELSE 0
      /\ fresh' = IF start = playing /\ ~restarted THEN fresh ELSE start
  BY DEF Plays
<1>3. 0 \in 0..(Jump - 1) BY <1>1
<1>4. CASE start = playing /\ ~restarted BY <1>1, <1>2, <1>4
<1>5. CASE ~(start = playing /\ ~restarted) BY <1>1, <1>2, <1>3, <1>5
<1> QED BY <1>4, <1>5

\* The invariant, one variable at a time.
LEMMA PlayerParts ==
  PlayerIInv <=> /\ run \in Runs /\ news \in Nat /\ beats = Beats(run)
                 /\ p \in Nat /\ due \in Nat \cup {None} /\ held \in 0..(Jump - 1)
                 /\ playing \in BOOLEAN /\ reduce \in BOOLEAN /\ pausing \in BOOLEAN
                 /\ ticking \in BOOLEAN /\ fresh \in BOOLEAN /\ raced \in BOOLEAN
                 /\ playing => ticking \/ pausing \/ raced
BY DEF PlayerIInv, PlayerTypeOK, PlayingMoves

LEMMA ShownIsNumber ==
  ASSUME PlayerIInv
  PROVE  Shown \in Nat
BY DEF PlayerIInv, PlayerTypeOK, Shown

LEMMA GoToIsNumber ==
  ASSUME PlayerIInv, Row(beats), NEW target \in Nat, GoTo(target)
  PROVE  p' \in Nat /\ due' = None /\ Plays(FALSE, FALSE) /\ UNCHANGED <<run, beats, reduce, news, raced>>
<1>1. {target, Total(beats)} \in SUBSET Nat /\ {target, Total(beats)} # {} BY DEF Row
<1>2. SmallestOf({target, Total(beats)}) \in {target, Total(beats)} BY <1>1, SmallestIs
<1>3. p' \in Nat BY <1>1, <1>2 DEF GoTo
<1> QED BY <1>3 DEF GoTo

\* A click on the transport goes to a position that is a number.
Goes == \E target \in Nat : GoTo(target)
LEMMA ClicksGo ==
  ASSUME PlayerIInv, Row(beats), Scrub \/ SelectStep \/ StepForward \/ StepBack
  PROVE  Goes
<1>0. p \in Nat /\ Total(beats) \in Nat BY DEF PlayerIInv, PlayerTypeOK, Row
<1>1. CASE Scrub BY <1>0, <1>1 DEF Scrub, Goes
<1>2. CASE SelectStep
  <2>1. PICK i \in 1..Len(run.steps) : GoTo(PositionOfStep(beats, i)) BY <1>2 DEF SelectStep
  <2>2. PositionOfStep(beats, i) \in Nat BY StepPositions
  <2> QED BY <2>1, <2>2 DEF Goes
<1>3. CASE StepForward
  <2>1. NextStop(beats, p) \in Nat BY <1>0, NextIs
  <2> QED BY <1>3, <2>1 DEF StepForward, Goes
<1>4. CASE StepBack
  <2>1. PrevStop(beats, p) \in Nat BY <1>0, PrevPosition
  <2> QED BY <1>4, <2>1 DEF StepBack, Goes
<1> QED BY <1>1, <1>2, <1>3, <1>4

\* The clicks that say what plays, and where.
LEMMA SaidIsKept ==
  ASSUME PlayerIInv, NEW start \in BOOLEAN, NEW restarted \in BOOLEAN, Plays(start, restarted),
         ~start \/ (start <=> ~playing) \/ restarted \/ ~pausing \/ raced',
         run' \in Runs, news' \in Nat, beats' = Beats(run'), p' \in Nat, due' \in Nat \cup {None},
         reduce' \in BOOLEAN, raced' \in BOOLEAN, raced => raced'
  PROVE  PlayerIInv'
<1>1. /\ {playing', pausing', ticking', fresh'} \subseteq BOOLEAN /\ held' \in 0..(Jump - 1) /\ playing' = start
      /\ ~start \/ (start <=> ~playing) \/ restarted \/ ~pausing \/ raced => (playing' => ticking' \/ raced)
  BY PlaysIsKept
<1>2. playing' => ticking' \/ raced' BY <1>1
<1>3. playing' \in BOOLEAN /\ pausing' \in BOOLEAN /\ ticking' \in BOOLEAN /\ fresh' \in BOOLEAN BY <1>1
<1>4. PlayerTypeOK' BY <1>1, <1>3 DEF PlayerTypeOK
<1>5. PlayingMoves' BY <1>2 DEF PlayingMoves
<1> QED BY <1>4, <1>5 DEF PlayerIInv

LEMMA PlayerStarts == Init => PlayerIInv
<1> SUFFICES ASSUME Init PROVE PlayerIInv OBVIOUS
<1>1. Jump \in Nat /\ Jump > 0 /\ Autoplay \in BOOLEAN BY PlayerAssumption
<1>2. /\ run \in Runs /\ beats = Beats(run) /\ p = 0 /\ due = None /\ held = 0 /\ news = 0 BY DEF Init
<1>3. playing \in BOOLEAN /\ ticking = playing /\ fresh = playing /\ pausing = FALSE /\ raced = FALSE /\ reduce \in BOOLEAN
  BY DEF Init
<1>4. 0 \in Nat /\ 0 \in 0..(Jump - 1) BY <1>1
<1> QED BY <1>2, <1>3, <1>4 DEF PlayerIInv, PlayerTypeOK, PlayingMoves

LEMMA PlayerSteps == PlayerIInv /\ [Next]_vars => PlayerIInv'
<1> SUFFICES ASSUME PlayerIInv, [Next]_vars PROVE PlayerIInv' OBVIOUS
<1>0. /\ run \in Runs /\ news \in Nat /\ beats = Beats(run)
      /\ p \in Nat /\ due \in Nat \cup {None} /\ held \in 0..(Jump - 1)
      /\ playing \in BOOLEAN /\ reduce \in BOOLEAN /\ pausing \in BOOLEAN
      /\ ticking \in BOOLEAN /\ fresh \in BOOLEAN /\ raced \in BOOLEAN
      /\ playing => ticking \/ pausing \/ raced
  BY DEF PlayerIInv, PlayerTypeOK, PlayingMoves
<1>00. Row(beats) BY <1>0, RunShown
<1>01. Shown \in Nat BY ShownIsNumber
<1>1. CASE Tick
  <2>1. PICK time \in Advances : TickBy(time) BY <1>1 DEF Tick
  <2>2. /\ due' \in Nat \cup {None} /\ held' \in 0..(Jump - 1) /\ fresh' = FALSE
        /\ pausing' \in BOOLEAN /\ ticking' \in BOOLEAN /\ (ticking' \/ pausing')
    BY <1>00, <2>1, FrameIsKept
  <2>3. UNCHANGED <<run, beats, p, playing, reduce, news, raced>> BY <2>1 DEF TickBy, history
  <2> QED BY <1>0, <2>2, <2>3 DEF PlayerIInv, PlayerTypeOK, PlayingMoves
<1>2. CASE Render
  <2>1. /\ p' = Shown /\ due' = None /\ pausing' = FALSE /\ playing' = (playing /\ ~pausing)
        /\ UNCHANGED <<run, beats, reduce, ticking, held, fresh, news, raced>>
    BY <1>2 DEF Render, history
  <2>2. playing' \in BOOLEAN /\ (playing' => ticking' \/ raced') BY <1>0, <2>1
  <2> QED BY <1>0, <1>01, <2>1, <2>2 DEF PlayerIInv, PlayerTypeOK, PlayingMoves
<1>3. CASE Toggle
  <2>1. /\ p' = IF ~playing /\ AtEnd THEN 0 ELSE Shown
        /\ due' = None /\ Plays(~playing, FALSE) /\ UNCHANGED <<run, beats, reduce, news, raced>>
    BY <1>3 DEF Toggle
  <2>2. p' \in Nat BY <1>01, <2>1
  <2>3. (~playing) \in BOOLEAN OBVIOUS
  <2> QED BY <1>0, <2>1, <2>2, <2>3, SaidIsKept
<1>4. CASE Scrub \/ SelectStep \/ StepForward \/ StepBack
  <2>1. PICK target \in Nat : GoTo(target) BY <1>00, <1>4, ClicksGo DEF Goes
  <2>2. p' \in Nat /\ due' = None /\ Plays(FALSE, FALSE) /\ UNCHANGED <<run, beats, reduce, news, raced>>
    BY <1>00, <2>1, GoToIsNumber
  <2> QED BY <1>0, <2>2, SaidIsKept
<1>5. CASE Restart
  <2>1. /\ news' = news + 1 /\ p' = 0 /\ due' = None /\ Plays(~reduce, FALSE) /\ raced' = (raced \/ pausing)
        /\ UNCHANGED <<run, beats, reduce>>
    BY <1>5 DEF Restart
  <2>2. raced' \in BOOLEAN /\ (~reduce) \in BOOLEAN BY <2>1
  <2>4. (raced => raced') /\ (~pausing \/ raced') BY <2>1
  <2>3. news' \in Nat /\ p' \in Nat BY <1>0, <2>1
  <2> QED BY <1>0, <2>1, <2>2, <2>3, <2>4, SaidIsKept
<1>6. CASE NewRun
  <2>1. /\ news' = news + 1 /\ run' \in Runs /\ beats' = Beats(run') /\ p' = Shown /\ due' = 0
        /\ UNCHANGED <<reduce, raced>>
    BY <1>6 DEF NewRun
  <2>2. PICK wanted \in {TRUE, Autoplay} : Plays(wanted /\ ~reduce, TRUE) BY <1>6 DEF NewRun
  <2>3. (wanted /\ ~reduce) \in BOOLEAN OBVIOUS
  <2>4. news' \in Nat /\ due' \in Nat BY <1>0, <2>1
  <2> QED BY <1>0, <1>01, <2>1, <2>2, <2>3, <2>4, SaidIsKept
<1>7. CASE Prefer
  <2>1. /\ news' = news + 1 /\ reduce' = ~reduce /\ p' = Shown /\ due' = None /\ Plays(playing /\ ~pausing, TRUE)
        /\ UNCHANGED <<run, beats, raced>>
    BY <1>7 DEF Prefer
  <2>2. (playing /\ ~pausing) \in BOOLEAN /\ reduce' \in BOOLEAN BY <2>1
  <2>3. news' \in Nat BY <1>0, <2>1
  <2> QED BY <1>0, <1>01, <2>1, <2>2, <2>3, SaidIsKept
<1>8. CASE SetSpeed
  <2>1. /\ news' = news + 1 /\ p' = Shown /\ due' = None /\ Plays(playing /\ ~pausing, TRUE)
        /\ UNCHANGED <<run, beats, reduce, raced>>
    BY <1>8 DEF SetSpeed
  <2>2. (playing /\ ~pausing) \in BOOLEAN OBVIOUS
  <2>3. news' \in Nat BY <1>0, <2>1
  <2> QED BY <1>0, <1>01, <2>1, <2>2, <2>3, SaidIsKept
<1>9. CASE UNCHANGED vars BY <1>0, <1>9 DEF vars, history, PlayerIInv, PlayerTypeOK, PlayingMoves
<1> QED BY <1>1, <1>2, <1>3, <1>4, <1>5, <1>6, <1>7, <1>8, <1>9 DEF Next, Clicks

\* The variables keep their types, and a player whose button says Pause moves,
\* whatever the runs, the frames and the clicks (Player.tsx).
THEOREM PlayerIsKept == Spec => []PlayerInv
<1>1. PlayerIInv => PlayerInv BY DEF PlayerIInv, PlayerInv
<1> QED BY <1>1, PlayerStarts, PlayerSteps, PTL DEF Spec

\* The timeline of a run is the run: each step is in one batch, in order, cut at
\* the stops; and the functions that look a position up agree (timeline.ts).
THEOREM TimelineIsRight == Spec => []TimelineRight
<1>1. PlayerIInv => TimelineRight
  <2> SUFFICES ASSUME PlayerIInv PROVE TimelineRight OBVIOUS
  <2>1. run \in Runs /\ beats = Beats(run) /\ p \in Nat BY DEF PlayerIInv, PlayerTypeOK
  <2>2. IsRun(run) /\ Shows(run, beats, 1, 0, 0) /\ Row(beats) BY <2>1, RunShown
  <2>3. WholeRun BY <2>2, WholeRunShown
  <2>4. MovesOnce BY <2>2, MovedOnce
  <2>5. StopsLandOnEnds BY <2>2, StopsShown
  <2>6. FrameHolds BY <2>1, <2>2, FrameFound
  <2>7. StepsAgree BY <2>1, <2>2, LookupsAgree
  <2> QED BY <2>3, <2>4, <2>5, <2>6, <2>7 DEF TimelineRight
<1> QED BY <1>1, PlayerStarts, PlayerSteps, PTL DEF Spec

\* A frame moves playback neither back nor past the end, whatever was clicked
\* since it was asked for (Player.tsx, tick).
THEOREM PlaybackGoesOn == Spec => NeverBack
<1> DEFINE On == ticking /\ due' # due /\ history' = history /\ p <= Total(beats) =>
                   due' = None \/ (p <= due' /\ due' <= Total(beats))
<1>1. PlayerIInv /\ [Next]_vars => [On]_vars
  <2> SUFFICES ASSUME PlayerIInv, Next, due' # due, history' = history, p <= Total(beats)
               PROVE  due' = None \/ (p <= due' /\ due' <= Total(beats))
    OBVIOUS
  <2>1. run \in Runs /\ beats = Beats(run) /\ p \in Nat /\ news \in Nat BY DEF PlayerIInv, PlayerTypeOK
  <2>2. Row(beats) BY <2>1, RunShown
  <2>3. CASE Tick
    <3>1. PICK time \in Advances : TickBy(time) BY <2>3 DEF Tick
    <3>2. due' # due /\ p <= Total(beats) => p <= due' /\ due' <= Total(beats) BY <2>2, <3>1, FrameIsKept
    <3> QED BY <3>2
  <2>4. CASE Render BY <2>4 DEF Render
  <2>5. CASE Toggle BY <2>5 DEF Toggle
  <2>6. CASE Scrub \/ SelectStep \/ StepForward \/ StepBack
    BY <2>6 DEF Scrub, SelectStep, StepForward, StepBack, GoTo
  <2>7. CASE Restart BY <2>7 DEF Restart
  <2>8. CASE NewRun
    <3>1. news' = news + 1 BY <2>8 DEF NewRun
    <3>2. news' = news BY DEF history
    <3> QED BY <2>1, <3>1, <3>2
  <2>9. CASE Prefer BY <2>9 DEF Prefer
  <2>10. CASE SetSpeed BY <2>10 DEF SetSpeed
  <2> QED BY <2>3, <2>4, <2>5, <2>6, <2>7, <2>8, <2>9, <2>10 DEF Next, Clicks
<1>2. Spec => [][On]_vars
  <2> HIDE DEF On
  <2> QED BY <1>1, PlayerStarts, PlayerSteps, PTL DEF Spec
<1> QED BY <1>2 DEF NeverBack
-----------------------------------------------------------------------------
\* A function on 0..n that begins with base and goes on by step, and that there
\* is one: this is how a recursive function on an interval is shown to exist.
Continues(f, n, base, step) == f[0] = base /\ \A i \in 1..n : f[i] = step[<<i, f[i - 1]>>]
HasValues(n, S, base, step) == \E f \in [0..n -> S] : Continues(f, n, base, step)

LEMMA IntervalRecursion ==
  ASSUME NEW n \in Nat, NEW S, NEW base \in S, NEW step \in [(1..n) \X S -> S]
  PROVE  HasValues(n, S, base, step)
<1> USE DEF HasValues, Continues
<1> DEFINE Good(m, f) == f[0] = base /\ \A i \in 1..m : f[i] = step[<<i, f[i - 1]>>]
           P == {m \in Nat : m <= n => \E f \in [0..m -> S] : Good(m, f)}
<1>1. 0 \in P
  <2>1. [i \in 0..0 |-> base] \in [0..0 -> S] /\ Good(0, [i \in 0..0 |-> base])
    OBVIOUS
  <2> QED BY <2>1
<1>2. ASSUME NEW m \in Nat, m \in P
      PROVE  m + 1 \in P
  <2> SUFFICES ASSUME m + 1 <= n PROVE \E f \in [0..m + 1 -> S] : Good(m + 1, f)
    OBVIOUS
  <2>1. PICK f \in [0..m -> S] : Good(m, f)
    BY <1>2
  <2> DEFINE g == [i \in 0..m + 1 |-> IF i = m + 1 THEN step[<<m + 1, f[m]>>] ELSE f[i]]
  <2>2. f[m] \in S /\ m + 1 \in 1..n
    OBVIOUS
  <2>3. <<m + 1, f[m]>> \in (1..n) \X S
    BY <2>2
  <2>4. step[<<m + 1, f[m]>>] \in S
    BY <2>3
  <2>5. g \in [0..m + 1 -> S] /\ g[0] = base
    BY <2>1, <2>4
  <2>6. ASSUME NEW i \in 1..m + 1
        PROVE  g[i] = step[<<i, g[i - 1]>>]
    <3>1. CASE i = m + 1
      <4>1. i - 1 = m /\ m \in 0..m + 1 /\ m # m + 1 /\ i \in 0..m + 1
        BY <3>1
      <4>2. g[m] = f[m]
        BY <4>1
      <4>3. g[i] = step[<<m + 1, f[m]>>]
        BY <3>1, <4>1
      <4> QED BY <3>1, <4>1, <4>2, <4>3
    <3>2. CASE i \in 1..m
      BY <3>2, <2>1
    <3> QED BY <3>1, <3>2
  <2> HIDE DEF g
  <2> QED BY <2>5, <2>6
<1>3. Nat \subseteq P
  <2> HIDE DEF P
  <2> QED BY <1>1, <1>2, NatSetInduction
<1> QED BY <1>3

-----------------------------------------------------------------------------
(* The stops.                                                              *)

\* Cardinality is the same in the modules of an instance.
LEMMA EndCount == ASSUME NEW S PROVE Reading!Cardinality(S) = Cardinality(S)
  BY DEF Reading!Cardinality, Cardinality

\* The matches from one index to another.
Hits(events, when, i, j) == {k \in i..j : Reading!Matches(events[k], when)}

LEMMA HitsMore ==
  ASSUME NEW events, NEW when, NEW i \in Nat, NEW j \in Nat
  PROVE  /\ IsFiniteSet(Hits(events, when, i, j)) /\ Cardinality(Hits(events, when, i, j)) \in Nat
         /\ j + 1 >= i =>
              Cardinality(Hits(events, when, i, j + 1)) =
                IF Reading!Matches(events[j + 1], when) THEN Cardinality(Hits(events, when, i, j)) + 1
                ELSE Cardinality(Hits(events, when, i, j))
<1> DEFINE H == Hits(events, when, i, j)
           K == Hits(events, when, i, j + 1)
<1>1. IsFiniteSet(H)
  <2>1. IsFiniteSet(i..j) BY FS_Interval
  <2>2. H \in SUBSET (i..j) BY DEF Hits
  <2> QED BY <2>1, <2>2, FS_Subset
<1>2. Cardinality(H) \in Nat BY <1>1, FS_CardinalityType
<1>3. ASSUME j + 1 >= i, Reading!Matches(events[j + 1], when) PROVE K = H \cup {j + 1} /\ j + 1 \notin H
  BY <1>3 DEF Hits
<1>4. ASSUME j + 1 >= i, ~Reading!Matches(events[j + 1], when) PROVE K = H BY <1>4 DEF Hits
<1> HIDE DEF H, K
<1>5. ASSUME j + 1 >= i, Reading!Matches(events[j + 1], when) PROVE Cardinality(K) = Cardinality(H) + 1
  BY <1>1, <1>3, <1>5, FS_AddElement
<1> QED BY <1>1, <1>2, <1>4, <1>5 DEF H, K

LEMMA NoHits ==
  ASSUME NEW events, NEW when, NEW i \in Nat, NEW j \in Nat, j < i
  PROVE  Cardinality(Hits(events, when, i, j)) = 0
<1>1. Hits(events, when, i, j) = {} BY DEF Hits
<1> QED BY <1>1, FS_EmptySet

\* The nth match, if there are as many.
LEMMA NthIs ==
  ASSUME NEW events, Len(events) \in Nat, NEW from \in Nat \ {0}, NEW when, when.nth \in Nat \ {0},
         NEW r, r = Reading!NthMatch(events, from, when)
  PROVE  /\ r = 0 => Cardinality(Hits(events, when, from, Len(events))) < when.nth
         /\ r # 0 => /\ r \in from..Len(events) /\ Reading!Matches(events[r], when)
                     /\ Cardinality(Hits(events, when, from, r)) = when.nth
<1> DEFINE n == Len(events)
           hits == Hits(events, when, from, n)
           upto(i) == Hits(events, when, from, i)
           nth == {i \in hits : Cardinality({j \in hits : j <= i}) = when.nth}
<1> DEFINE counted == {i \in hits : Reading!Cardinality({j \in hits : j <= i}) = when.nth}
<1>0. counted = nth BY EndCount
<1>9. r = IF counted = {} THEN 0 ELSE CHOOSE i \in counted : TRUE BY Zenon DEF Reading!NthMatch, Hits
<1>1. r = IF nth = {} THEN 0 ELSE CHOOSE i \in nth : TRUE
  <2> HIDE DEF nth, counted
  <2> QED BY <1>0, <1>9
<1>2. ASSUME NEW i \in from..n PROVE {j \in hits : j <= i} = upto(i) BY DEF Hits
<1>3. hits \subseteq from..n BY DEF Hits
<1>4. CASE nth # {}
  <2>1. r \in nth
    <3> HIDE DEF nth
    <3> QED BY <1>1, <1>4
  <2>2. r \in from..n /\ r # 0 BY <1>3, <2>1
  <2>3. Reading!Matches(events[r], when) BY <2>1 DEF Hits
  <2>4. Cardinality(upto(r)) = when.nth BY <1>2, <2>1, <2>2
  <2> QED BY <2>2, <2>3, <2>4
<1>5. CASE nth = {}
  <2>1. r = 0 BY <1>1, <1>5
  <2>2. ASSUME Cardinality(hits) >= when.nth PROVE FALSE
    <3> DEFINE S == {i \in 0..n : Cardinality(upto(i)) >= when.nth}
    <3>1. n \in S BY <2>2
    <3>2. S \in SUBSET Nat OBVIOUS
    <3> HIDE DEF S
    <3>3. PICK x \in S : \A y \in S : x <= y BY <3>1, <3>2, LeastNumber
    <3>4. x \in 0..n /\ Cardinality(upto(x)) >= when.nth BY <3>3 DEF S
    <3>5. x >= from
      <4>1. x < from => Cardinality(upto(x)) = 0 BY <3>4, NoHits
      <4> QED BY <3>4, <4>1
    <3>6. x - 1 \in 0..n /\ x - 1 \in Nat /\ (x - 1) + 1 = x BY <3>4, <3>5
    <3>7. Cardinality(upto(x - 1)) < when.nth
      <4>1. x - 1 \notin S BY <3>3, <3>6
      <4>2. Cardinality(upto(x - 1)) \in Nat BY <3>6, HitsMore
      <4> QED BY <3>6, <4>1, <4>2 DEF S
    <3>8. Cardinality(upto(x - 1)) \in Nat
          /\ Cardinality(upto((x - 1) + 1)) = IF Reading!Matches(events[(x - 1) + 1], when)
                                              THEN Cardinality(upto(x - 1)) + 1 ELSE Cardinality(upto(x - 1))
      BY <3>5, <3>6, HitsMore
    <3>9. Reading!Matches(events[x], when) /\ Cardinality(upto(x)) = when.nth
      BY <3>4, <3>6, <3>7, <3>8
    <3>10. x \in from..n BY <3>4, <3>5
    <3>11. x \in hits BY <3>9, <3>10 DEF Hits
    <3>12. x \in nth BY <1>2, <3>9, <3>10, <3>11
    <3> QED BY <1>5, <3>12
  <2>3. Cardinality(hits) \in Nat BY HitsMore
  <2> QED BY <2>1, <2>2, <2>3
<1> QED BY <1>4, <1>5

\* The last stop that was found among the first k, and what StopsInOrder says of
\* one stop.
Found(out, k) == {out[j] : j \in 1..k} \ {0}
LastOf(S) == IF S = {} THEN 0 ELSE CHOOSE i \in S : \A j \in S : j <= i
LastFound(out, k) == LastOf(Found(out, k))
StopFits(q, out, k) ==
  LET last == LastFound(out, k - 1)
      upto == IF out[k] = 0 THEN Len(q.events) ELSE out[k]
      hits == Hits(q.events, q.stops[k], last + 1, upto)
  IN  IF out[k] = 0 THEN Cardinality(hits) < q.stops[k].nth
      ELSE out[k] > last /\ out[k] \in hits /\ Cardinality(hits) = q.stops[k].nth

States(n) == [out : Seq(0..n), from : 1..(n + 1)]

LEMMA ResolvedSteps ==
  ASSUME NEW q, AreStops(q), NEW u, u = Reading!Resolved(q)
  PROVE  /\ u \in [0..Len(q.stops) -> States(Len(q.events))]
         /\ u[0] = [out |-> <<>>, from |-> 1]
         /\ \A k \in 1..Len(q.stops) : u[k] = Reading!ResolveNext(q, u[k - 1], q.stops[k])
<1> DEFINE S == States(Len(q.events))
           n == Len(q.stops)
           base == [out |-> <<>>, from |-> 1]
           step == [x \in (1..n) \X S |-> Reading!ResolveNext(q, x[2], q.stops[x[1]])]
<1>1. n \in Nat /\ Len(q.events) \in Nat BY DEF AreStops
<1>2. base \in S BY <1>1, EmptySeq DEF States
<1>3. ASSUME NEW k \in 1..n, NEW s \in S PROVE Reading!ResolveNext(q, s, q.stops[k]) \in S
  <2> DEFINE f == Reading!NthMatch(q.events, s.from, q.stops[k])
  <2>1. s.out \in Seq(0..Len(q.events)) /\ s.from \in 1..(Len(q.events) + 1) BY DEF States
  <2>2. q.stops[k].nth \in Nat \ {0} BY DEF AreStops
  <2>3. f = 0 \/ f \in s.from..Len(q.events) BY <1>1, <2>1, <2>2, NthIs
  <2>4. Reading!ResolveNext(q, s, q.stops[k]) =
          [out |-> Append(s.out, f), from |-> IF f = 0 THEN s.from ELSE f + 1]
    BY DEF Reading!ResolveNext, Reading!From
  <2> HIDE DEF f
  <2>5. f \in 0..Len(q.events) BY <1>1, <2>1, <2>3
  <2>6. Append(s.out, f) \in Seq(0..Len(q.events)) BY <2>1, <2>5, AppendProperties
  <2>7. (IF f = 0 THEN s.from ELSE f + 1) \in 1..(Len(q.events) + 1) BY <1>1, <2>1, <2>3, <2>5
  <2> QED BY <2>4, <2>6, <2>7 DEF States
<1>4. step \in [(1..n) \X S -> S]
  <2> HIDE DEF S, n
  <2>1. \A x \in (1..n) \X S : x[1] \in 1..n /\ x[2] \in S OBVIOUS
  <2> QED BY <1>3, <2>1
<1>5. \A k \in 1..n, s \in S : step[<<k, s>>] = Reading!ResolveNext(q, s, q.stops[k])
  <2> HIDE DEF S, n
  <2> QED OBVIOUS
<1> HIDE DEF S, n, base, step
<1>6. PICK f \in [0..n -> S] : f[0] = base /\ \A k \in 1..n : f[k] = step[<<k, f[k - 1]>>]
  <2>1. HasValues(n, S, base, step) BY <1>1, <1>2, <1>4, IntervalRecursion
  <2> QED BY <2>1 DEF HasValues, Continues
<1>7. f = [k \in 0..n |-> IF k = 0 THEN base ELSE Reading!ResolveNext(q, f[k - 1], q.stops[k])]
  <2>1. ASSUME NEW k \in 0..n PROVE f[k] = IF k = 0 THEN base ELSE Reading!ResolveNext(q, f[k - 1], q.stops[k])
    <3>1. k # 0 => k \in 1..n /\ k - 1 \in 0..n BY <1>1
    <3> QED BY <1>5, <1>6, <3>1
  <2> QED BY <1>6, <2>1
<1>8. u = [k \in 0..n |-> IF k = 0 THEN base ELSE Reading!ResolveNext(q, u[k - 1], q.stops[k])]
  BY <1>7 DEF Reading!Resolved, n, base
<1>9. u[0] = base BY <1>1, <1>8
<1>10. \A k \in 1..n : u[k] = Reading!ResolveNext(q, u[k - 1], q.stops[k]) BY <1>1, <1>8
<1>11. \A k \in 0..n : u[k] \in S
  <2> DEFINE P == {k \in Nat : k <= n => u[k] \in S}
  <2>1. 0 \in P BY <1>2, <1>9
  <2>2. ASSUME NEW k \in Nat, k \in P PROVE k + 1 \in P
    <3> SUFFICES ASSUME k + 1 <= n PROVE u[k + 1] \in S OBVIOUS
    <3>1. k + 1 \in 1..n /\ (k + 1) - 1 = k /\ u[k] \in S BY <1>1, <2>2
    <3>2. u[k + 1] = Reading!ResolveNext(q, u[k], q.stops[k + 1]) BY <1>10, <3>1
    <3> QED BY <1>3, <3>1, <3>2
  <2>3. Nat \subseteq P
    <3> HIDE DEF P
    <3> QED BY <2>1, <2>2, NatSetInduction
  <2> QED BY <1>1, <2>3
<1> QED BY <1>8, <1>9, <1>10, <1>11 DEF S, n, base

\* What is known after k stops.
StopsSoFar(q, k, s) ==
  /\ s \in States(Len(q.events)) /\ Len(s.out) = k
  /\ s.from = LastFound(s.out, k) + 1
  /\ \A j \in 1..k : StopFits(q, s.out, j)

LEMMA StopsGoOn ==
  ASSUME NEW q, AreStops(q), NEW k \in Nat, k + 1 <= Len(q.stops), NEW s, StopsSoFar(q, k, s)
  PROVE  StopsSoFar(q, k + 1, Reading!ResolveNext(q, s, q.stops[k + 1]))
<1>1. PICK n \in Nat : n = Len(q.events) BY DEF AreStops
<1>2. PICK f : f = Reading!NthMatch(q.events, s.from, q.stops[k + 1]) OBVIOUS
<1>3. PICK z : z = Reading!ResolveNext(q, s, q.stops[k + 1]) OBVIOUS
<1>4. z = [out |-> Append(s.out, f), from |-> IF f = 0 THEN s.from ELSE f + 1]
  BY <1>2, <1>3 DEF Reading!ResolveNext, Reading!From
<1>5. s.out \in Seq(0..n) /\ s.from \in 1..(n + 1) /\ Len(s.out) = k BY <1>1 DEF StopsSoFar, States
<1>6. PICK last : last = LastFound(s.out, k) OBVIOUS
<1>7. s.from = last + 1 BY <1>6 DEF StopsSoFar
<1>8. q.stops[k + 1].nth \in Nat \ {0} BY DEF AreStops
<1>9. /\ f = 0 => Cardinality(Hits(q.events, q.stops[k + 1], s.from, n)) < q.stops[k + 1].nth
      /\ f # 0 => /\ f \in s.from..n /\ Reading!Matches(q.events[f], q.stops[k + 1])
                  /\ Cardinality(Hits(q.events, q.stops[k + 1], s.from, f)) = q.stops[k + 1].nth
  <2>1. s.from \in Nat \ {0} /\ Len(q.events) \in Nat BY <1>1, <1>5
  <2> QED BY <1>1, <1>2, <1>8, <2>1, NthIs
<1>10. f \in 0..n BY <1>5, <1>9
<1>11. /\ z.out \in Seq(0..n) /\ Len(z.out) = k + 1 /\ z.out[k + 1] = f
       /\ \A j \in 1..k : z.out[j] = s.out[j]
  BY <1>4, <1>5, <1>10, AppendProperties
<1>12. ASSUME NEW j \in 0..k PROVE Found(z.out, j) = Found(s.out, j)
  <2>1. \A i \in 1..j : z.out[i] = s.out[i] BY <1>11
  <2> QED BY <2>1 DEF Found
<1>13. ASSUME NEW j \in 0..k PROVE LastFound(z.out, j) = LastFound(s.out, j)
  <2>1. Found(z.out, j) = Found(s.out, j) BY <1>12
  <2> QED BY <2>1 DEF LastFound
<1>14. \A j \in 1..k : s.out[j] \in 0..n BY <1>5, ElementOfSeq
<1>21. \A i \in Found(s.out, k) : i \in Nat /\ i <= n BY <1>14 DEF Found
<1>15. last \in 0..n /\ \A i \in Found(s.out, k) : i <= last
  <2> DEFINE F == Found(s.out, k)
  <2>1. F \in SUBSET Nat /\ \A i \in F : i <= n BY <1>21
  <2>2. last = IF F = {} THEN 0 ELSE CHOOSE i \in F : \A j \in F : j <= i BY <1>6 DEF LastFound, LastOf
  <2> HIDE DEF F
  <2>3. CASE F = {} BY <2>2, <2>3 DEF F
  <2>4. CASE F # {}
    <3>1. \E i \in F : \A j \in F : j <= i
      <4>1. PICK x \in F : \A y \in F : x >= y BY <2>1, <2>4, GreatestNumber
      <4>2. \A y \in F : y <= x BY <2>1, <4>1
      <4> QED BY <4>2
    <3>2. last \in F /\ \A j \in F : j <= last BY <2>2, <2>4, <3>1
    <3>3. last \in 0..n BY <2>1, <3>2
    <3> QED BY <3>2, <3>3 DEF F
  <2> QED BY <2>3, <2>4
<1>16. z.from = LastFound(z.out, k + 1) + 1
  <2> DEFINE F == Found(s.out, k)
             K == Found(z.out, k + 1)
  <2>1. K = (F \cup {f}) \ {0}
    <3>1. {z.out[j] : j \in 1..(k + 1)} = {s.out[j] : j \in 1..k} \cup {f}
      <4>1. \A j \in 1..(k + 1) : j \in 1..k \/ j = k + 1 OBVIOUS
      <4>2. k + 1 \in 1..(k + 1) /\ 1..k \subseteq 1..(k + 1) OBVIOUS
      <4> QED BY <1>11, <4>1, <4>2
    <3> QED BY <3>1 DEF Found
  <2>2. CASE f = 0
    <3>0. 0 \notin F BY DEF Found
    <3>1. Found(z.out, k + 1) = Found(s.out, k)
      <4> HIDE DEF F, K
      <4>2. \A i : i \in K <=> i \in F BY <2>1, <2>2, <3>0
      <4>1. K = F BY <4>2
      <4> QED BY <4>1 DEF F, K
    <3>2. LastFound(z.out, k + 1) = LastFound(s.out, k) BY <3>1 DEF LastFound
    <3> QED BY <1>4, <1>6, <1>7, <2>2, <3>2
  <2>3. CASE f # 0
    <3>1. f \in K /\ \A i \in K : i <= f
      <4>1. f >= last /\ f \in Nat /\ last \in Nat BY <1>5, <1>7, <1>9, <1>10, <1>15, <2>3
      <4> HIDE DEF K
      <4>2. \A i \in F : i \in Nat /\ i <= f BY <1>15, <1>21, <4>1
      <4> QED BY <2>1, <2>3, <4>1, <4>2
    <3>2. \A i \in K : (\A j \in K : j <= i) => i = f
      <4> HIDE DEF K
      <4>1. \A i \in K : i \in Nat BY <1>10, <1>21, <2>1
      <4> QED BY <3>1, <4>1
    <3>3. LastFound(z.out, k + 1) = CHOOSE i \in K : \A j \in K : j <= i BY <3>1 DEF LastFound, LastOf
    <3>4. LastFound(z.out, k + 1) = f
      <4> HIDE DEF K
      <4> QED BY <3>1, <3>2, <3>3
    <3> QED BY <1>4, <2>3, <3>4
  <2> QED BY <2>2, <2>3
<1>17. StopFits(q, z.out, k + 1)
  <2>1. LastFound(z.out, (k + 1) - 1) = last BY <1>6, <1>13
  <2>2. CASE f = 0 BY <1>1, <1>7, <1>9, <1>11, <2>1, <2>2 DEF StopFits
  <2>3. CASE f # 0
    <3>1. f \in Hits(q.events, q.stops[k + 1], last + 1, f) BY <1>5, <1>7, <1>9, <1>10, <1>15, <2>3 DEF Hits
    <3>2. f > last BY <1>5, <1>7, <1>9, <1>10, <1>15, <2>3
    <3> QED BY <1>7, <1>9, <1>11, <2>1, <2>3, <3>1, <3>2 DEF StopFits
  <2> QED BY <2>2, <2>3
<1>18. ASSUME NEW j \in 1..k PROVE StopFits(q, z.out, j)
  <2>1. StopFits(q, s.out, j) BY DEF StopsSoFar
  <2>2. LastFound(z.out, j - 1) = LastFound(s.out, j - 1) /\ z.out[j] = s.out[j] BY <1>11, <1>13
  <2> QED BY <2>1, <2>2 DEF StopFits
<1>19. z \in States(n)
  <2>1. z.from \in 1..(n + 1) BY <1>4, <1>5, <1>10
  <2> QED BY <1>4, <1>11, <2>1 DEF States
<1>20. \A j \in 1..(k + 1) : StopFits(q, z.out, j)
  <2>1. \A j \in 1..(k + 1) : j \in 1..k \/ j = k + 1 OBVIOUS
  <2> QED BY <1>17, <1>18, <2>1
<1> QED BY <1>1, <1>3, <1>11, <1>16, <1>19, <1>20 DEF StopsSoFar

LEMMA StopsAre ==
  ASSUME NEW q, AreStops(q), NEW out, out = Reading!ResolveStops(q)
  PROVE  Len(out) = Len(q.stops) /\ \A k \in 1..Len(q.stops) : StopFits(q, out, k)
<1>1. PICK n \in Nat : n = Len(q.stops) BY DEF AreStops
<1>2. PICK u : u = Reading!Resolved(q) OBVIOUS
<1>3. /\ u[0] = [out |-> <<>>, from |-> 1] /\ u[0] \in States(Len(q.events))
      /\ \A k \in 1..n : u[k] = Reading!ResolveNext(q, u[k - 1], q.stops[k])
  BY <1>1, <1>2, ResolvedSteps
<1> DEFINE P == {k \in Nat : k <= n => StopsSoFar(q, k, u[k])}
<1>4. 0 \in P
  <2>1. Found(u[0].out, 0) = {} BY DEF Found
  <2>2. LastFound(u[0].out, 0) = 0 BY <2>1 DEF LastFound, LastOf
  <2>3. Len(u[0].out) = 0 BY <1>3, EmptySeq
  <2> QED BY <1>3, <2>2, <2>3 DEF StopsSoFar
<1>5. ASSUME NEW k \in Nat, k \in P PROVE k + 1 \in P
  <2> SUFFICES ASSUME k + 1 <= n PROVE StopsSoFar(q, k + 1, u[k + 1]) OBVIOUS
  <2>1. k + 1 \in 1..n /\ (k + 1) - 1 = k /\ StopsSoFar(q, k, u[k]) BY <1>1, <1>5
  <2>2. u[k + 1] = Reading!ResolveNext(q, u[k], q.stops[k + 1]) BY <1>3, <2>1
  <2> QED BY <1>1, <2>1, <2>2, StopsGoOn
<1>6. Nat \subseteq P
  <2> HIDE DEF P
  <2> QED BY <1>4, <1>5, NatSetInduction
<1>7. StopsSoFar(q, n, u[n]) BY <1>1, <1>6
<1>8. out = u[n].out BY <1>1, <1>2 DEF Reading!ResolveStops
<1> QED BY <1>1, <1>7, <1>8 DEF StopsSoFar

-----------------------------------------------------------------------------
(* The lines of the code.                                                  *)

\* The nearest of some lines: the first from the line before on, and if there is
\* none the first.
Nearest(C, line, r) ==
  /\ r = 0 <=> C = {}
  /\ C # {} => /\ r \in C
               /\ r < line => \A n \in C : n < line
               /\ r >= line => \A n \in C : n >= line => r <= n

LEMMA NearestIs ==
  ASSUME NEW C \in SUBSET Nat, 0 \notin C, NEW line \in Nat, NEW r, r = Reading!InOrder(C, line)
  PROVE  Nearest(C, line, r)
<1> DEFINE after == {n \in C : line = 0 \/ n >= line}
           from == IF after # {} THEN after ELSE C
<1>1. CASE C = {}
  <2>1. r = 0 BY <1>1 DEF Reading!InOrder
  <2> QED BY <1>1, <2>1 DEF Nearest
<1>2. CASE C # {}
  <2>1. from \in SUBSET Nat /\ from # {} /\ from \subseteq C BY <1>2
  <2>2. r = CHOOSE n \in from : \A k \in from : n <= k BY <1>2 DEF Reading!InOrder
  <2>3. \E n \in from : \A k \in from : n <= k
    <3> HIDE DEF from
    <3> QED BY <2>1, LeastNumber
  <2>4. r \in from /\ \A k \in from : r <= k
    <3> HIDE DEF from
    <3> QED BY <2>2, <2>3
  <2>5. r \in C /\ r # 0 /\ r \in Nat BY <2>1, <2>4
  <2>6. ASSUME r < line PROVE \A n \in C : n < line
    <3>1. r \notin after BY <2>5, <2>6
    <3>2. after = {} BY <2>4, <3>1
    <3> QED BY <3>2
  <2>7. ASSUME r >= line, NEW n \in C, n >= line PROVE r <= n
    <3>1. n \in after BY <2>7
    <3> QED BY <2>4, <3>1
  <2> QED BY <1>2, <2>5, <2>6, <2>7 DEF Nearest
<1> QED BY <1>1, <1>2

Having(q, needle, pool) == {n \in pool : needle \in q.code[n]}

LEMMA FindIs ==
  ASSUME NEW q, IsLine(q), NEW needle, NEW pool \in SUBSET (1..Len(q.code))
  PROVE  Nearest(Having(q, needle, pool), q.line, Reading!Find(q, needle, pool))
<1>0. \A n \in pool : n \in Nat /\ n # 0 BY DEF IsLine
<1>1. Having(q, needle, pool) \in SUBSET Nat /\ 0 \notin Having(q, needle, pool) /\ q.line \in Nat
  BY <1>0 DEF IsLine, Having
<1>2. Reading!Find(q, needle, pool) = Reading!InOrder(Having(q, needle, pool), q.line)
  BY DEF Reading!Find, Having
<1> DEFINE C == Having(q, needle, pool)
           f == Reading!Find(q, needle, pool)
<1>3. C \in SUBSET Nat /\ 0 \notin C /\ q.line \in Nat /\ f = Reading!InOrder(C, q.line) BY <1>1, <1>2
<1> HIDE DEF C, f
<1>4. Nearest(C, q.line, f) BY <1>3, NearestIs
<1> QED BY <1>4 DEF C, f

\* What LineGoesDown says of an answer.
GoesDown(q, r) ==
  LET wanted  == IF q.at # None THEN {q.at} ELSE Reading!ToSet(q.needles)
      fits(n) == q.code[n] \cap wanted # {}
      own     == {n \in Reading!Owned(q) : fits(n)}
  IN  IF r = 0 THEN own = {} /\ (q.at = None \/ \A n \in 1..Len(q.code) : ~fits(n))
      ELSE /\ fits(r) /\ (own # {} => r \in own)
           /\ r < q.line =>
                \E needle \in q.code[r] \cap wanted :
                  \A n \in Reading!Owned(q) : n >= q.line => needle \notin q.code[n]
           /\ r >= q.line =>
                \E needle \in q.code[r] \cap wanted :
                  \A n \in Reading!Owned(q) : q.line <= n /\ n < r => needle \notin q.code[n]

\* A needle that is found, and what that says.
LEMMA FoundGoesDown ==
  ASSUME NEW q, IsLine(q), NEW needle, needle \in (IF q.at # None THEN {q.at} ELSE Reading!ToSet(q.needles)),
         NEW r, r = Reading!Find(q, needle, Reading!Owned(q)), r # 0
  PROVE  GoesDown(q, r)
<1> DEFINE pool == Reading!Owned(q)
           wanted == IF q.at # None THEN {q.at} ELSE Reading!ToSet(q.needles)
<1>1. pool \in SUBSET (1..Len(q.code)) BY DEF Reading!Owned, IsLine
<1>2. Nearest(Having(q, needle, pool), q.line, r) BY <1>1, FindIs
<1>3. /\ r \in Having(q, needle, pool)
      /\ r < q.line => \A n \in Having(q, needle, pool) : n < q.line
      /\ r >= q.line => \A n \in Having(q, needle, pool) : n >= q.line => r <= n
  BY <1>2 DEF Nearest
<1>4. q.line \in Nat /\ \A n \in pool : n \in Nat BY <1>1 DEF IsLine
<1>5. r \in pool /\ needle \in q.code[r] \cap wanted BY <1>3 DEF Having
<1> HIDE DEF pool, wanted
<1>6. ASSUME r < q.line, NEW n \in pool, n >= q.line PROVE needle \notin q.code[n]
  BY <1>3, <1>4, <1>6 DEF Having
<1>7. ASSUME r >= q.line, NEW n \in pool, q.line <= n, n < r PROVE needle \notin q.code[n]
  <2>1. n \in Nat /\ r \in Nat BY <1>4, <1>5
  <2>2. n \notin Having(q, needle, pool) BY <1>3, <1>4, <1>7, <2>1
  <2> QED BY <1>7, <2>2 DEF Having
<1>8. \A n : q.code[n] \cap wanted # {} <=> \E x \in q.code[n] : x \in wanted OBVIOUS
<1> QED BY <1>5, <1>6, <1>7, <1>8 DEF GoesDown, pool, wanted

LEMMA LineIs ==
  ASSUME NEW q, IsLine(q)
  PROVE  GoesDown(q, Reading!LineFor(q))
<1> SUFFICES ASSUME NEW r, r = Reading!LineFor(q) PROVE GoesDown(q, r) OBVIOUS
<1> DEFINE pool == Reading!Owned(q)
           all == 1..Len(q.code)
<1>1. pool \in SUBSET all BY DEF Reading!Owned, IsLine
<1>2. CASE q.at # None
  <2> DEFINE own == Reading!Find(q, q.at, pool)
             any == Reading!Find(q, q.at, all)
  <2>1. r = IF own # 0 THEN own ELSE any BY <1>2 DEF Reading!LineFor
  <2>2. CASE own # 0 BY <1>2, <2>1, <2>2, FoundGoesDown
  <2>3. CASE own = 0
    <3>1. Nearest(Having(q, q.at, pool), q.line, own) BY <1>1, FindIs
    <3>2. Having(q, q.at, pool) = {} BY <2>3, <3>1 DEF Nearest
    <3>3. Nearest(Having(q, q.at, all), q.line, any) BY FindIs
    <3>4. any = 0 => Having(q, q.at, all) = {} BY <3>3 DEF Nearest
    <3>5. any # 0 => any \in Having(q, q.at, all) BY <3>3 DEF Nearest
    <3>6. \A n \in pool : q.at \notin q.code[n] BY <3>2 DEF Having
    <3>7. any = 0 => \A n \in all : q.at \notin q.code[n] BY <3>4 DEF Having
    <3>8. any # 0 => q.at \in q.code[any] BY <3>5 DEF Having
    <3>9. r = any BY <2>1, <2>3
    <3> HIDE DEF any, own, pool, all
    <3>10. {n \in pool : q.code[n] \cap {q.at} # {}} = {} BY <3>6
    <3>11. any = 0 => \A n \in all : ~(q.code[n] \cap {q.at} # {}) BY <3>7
    <3>12. any # 0 => q.code[any] \cap {q.at} = {q.at} BY <3>8
    <3> QED BY <1>2, <3>6, <3>9, <3>10, <3>11, <3>12 DEF GoesDown, pool, all
  <2> QED BY <2>2, <2>3
<1>3. CASE q.at = None
  <2> DEFINE found == {k \in 1..Len(q.needles) : Reading!Find(q, q.needles[k], pool) # 0}
             first == CHOOSE k \in found : \A j \in found : k <= j
  <2>1. r = IF found = {} THEN 0 ELSE Reading!Find(q, q.needles[first], pool) BY <1>3 DEF Reading!LineFor
  <2>2. CASE found # {}
    <3>1. found \in SUBSET Nat BY DEF IsLine
    <3>2. first \in found
      <4> HIDE DEF found
      <4> QED BY <2>2, <3>1, LeastNumber
    <3>3. first \in 1..Len(q.needles) /\ Reading!Find(q, q.needles[first], pool) # 0 BY <3>2
    <3>4. q.needles[first] \in Reading!ToSet(q.needles) BY <3>3 DEF IsLine, Reading!ToSet
    <3> HIDE DEF first, found
    <3> QED BY <1>3, <2>1, <2>2, <3>3, <3>4, FoundGoesDown
  <2>3. CASE found = {}
    <3>1. ASSUME NEW n \in pool, q.code[n] \cap Reading!ToSet(q.needles) # {} PROVE FALSE
      <4>1. PICK k \in 1..Len(q.needles) : q.needles[k] \in q.code[n] BY <3>1 DEF IsLine, Reading!ToSet
      <4>2. n \in Having(q, q.needles[k], pool) BY <4>1 DEF Having
      <4>3. Reading!Find(q, q.needles[k], pool) # 0 BY <1>1, <4>2, FindIs DEF Nearest
      <4> QED BY <2>3, <4>1, <4>3
    <3>2. r = 0 BY <2>1, <2>3
    <3> HIDE DEF found, first
    <3> QED BY <1>3, <3>1, <3>2 DEF GoesDown, pool
  <2> QED BY <2>2, <2>3
<1> QED BY <1>2, <1>3

-----------------------------------------------------------------------------
(* The ring of a deadlock.                                                 *)

LEMMA NextOnIs ==
  ASSUME NEW q, IsRing(q), NEW g \in DOMAIN q.waitMu
  PROVE  /\ Reading!NextOn(q, g) \in DOMAIN q.waitMu \cup {None}
         /\ Reading!NextOn(q, g) # None => \E k \in 1..Len(q.live) : q.live[k] = g
<1>1. CASE q.waitMu[g] = None BY <1>1 DEF Reading!NextOn
<1>2. CASE q.waitMu[g] # None
  <2>1. q.waitMu[g] \in DOMAIN q.holder BY <1>2 DEF IsRing
  <2>2. q.holder[q.waitMu[g]] = None \/ q.holder[q.waitMu[g]] \in DOMAIN q.waitMu BY <2>1 DEF IsRing
  <2>3. \E k \in DOMAIN q.live : q.live[k] = g BY <1>2 DEF IsRing
  <2>4. DOMAIN q.live = 1..Len(q.live) BY DEF IsRing
  <2> QED BY <1>2, <2>2, <2>3, <2>4 DEF Reading!NextOn
<1> QED BY <1>1, <1>2

LEMMA ManyIs ==
  ASSUME NEW q, IsRing(q)
  PROVE  Reading!HowMany(q) = Cardinality(DOMAIN q.waitMu) /\ Reading!HowMany(q) \in Nat
BY EndCount, FS_CardinalityType DEF IsRing, Reading!HowMany

\* Whom a goroutine waits for, step by step.
IsChain(q, g, w, n) ==
  /\ w \in [0..n -> DOMAIN q.waitMu \cup {None}] /\ w[0] = g
  /\ \A k \in 1..n : w[k] = IF w[k - 1] = None THEN None ELSE Reading!NextOn(q, w[k - 1])

LEMMA WaitsAre ==
  ASSUME NEW q, IsRing(q), NEW g \in DOMAIN q.waitMu, NEW w, w = Reading!Waits(q, g)
  PROVE  IsChain(q, g, w, Reading!HowMany(q))
<1> DEFINE S == DOMAIN q.waitMu \cup {None}
           n == Reading!HowMany(q)
           step == [x \in (1..n) \X S |-> IF x[2] = None THEN None ELSE Reading!NextOn(q, x[2])]
<1>1. n \in Nat BY ManyIs
<1>2. g \in S OBVIOUS
<1>3. ASSUME NEW s \in S PROVE (IF s = None THEN None ELSE Reading!NextOn(q, s)) \in S BY NextOnIs
<1>4. step \in [(1..n) \X S -> S]
  <2> HIDE DEF S, n
  <2>1. \A x \in (1..n) \X S : x[2] \in S OBVIOUS
  <2> QED BY <1>3, <2>1
<1>5. \A k \in 1..n, s \in S : step[<<k, s>>] = IF s = None THEN None ELSE Reading!NextOn(q, s)
  <2> HIDE DEF S, n
  <2> QED OBVIOUS
<1> HIDE DEF S, n, step
<1>6. PICK f \in [0..n -> S] : f[0] = g /\ \A k \in 1..n : f[k] = step[<<k, f[k - 1]>>]
  <2>1. HasValues(n, S, g, step) BY <1>1, <1>2, <1>4, IntervalRecursion
  <2> QED BY <2>1 DEF HasValues, Continues
<1>7. f = [k \in 0..n |-> IF k = 0 THEN g ELSE IF f[k - 1] = None THEN None ELSE Reading!NextOn(q, f[k - 1])]
  <2>1. ASSUME NEW k \in 0..n
        PROVE  f[k] = IF k = 0 THEN g ELSE IF f[k - 1] = None THEN None ELSE Reading!NextOn(q, f[k - 1])
    <3>1. k # 0 => k \in 1..n /\ k - 1 \in 0..n BY <1>1
    <3> QED BY <1>5, <1>6, <3>1
  <2> QED BY <1>6, <2>1
<1>8. w = [k \in 0..n |-> IF k = 0 THEN g ELSE IF w[k - 1] = None THEN None ELSE Reading!NextOn(q, w[k - 1])]
  BY <1>7 DEF Reading!Waits, n
<1>9. w[0] = g BY <1>1, <1>8
<1>10. ASSUME NEW k \in 1..n PROVE w[k] = IF w[k - 1] = None THEN None ELSE Reading!NextOn(q, w[k - 1])
  <2> DEFINE b == [j \in 0..n |-> IF j = 0 THEN g ELSE IF w[j - 1] = None THEN None ELSE Reading!NextOn(q, w[j - 1])]
  <2>1. k \in 0..n /\ k # 0 BY <1>1
  <2>2. b[k] = IF w[k - 1] = None THEN None ELSE Reading!NextOn(q, w[k - 1]) BY <2>1
  <2>3. w = b BY <1>8
  <2> HIDE DEF b
  <2> QED BY <2>2, <2>3
<1>11. \A k \in 0..n : w[k] \in S
  <2> DEFINE P == {k \in Nat : k <= n => w[k] \in S}
  <2>1. 0 \in P BY <1>2, <1>9
  <2>2. ASSUME NEW k \in Nat, k \in P PROVE k + 1 \in P
    <3> SUFFICES ASSUME k + 1 <= n PROVE w[k + 1] \in S OBVIOUS
    <3>1. k + 1 \in 1..n /\ (k + 1) - 1 = k /\ w[k] \in S BY <1>1, <2>2
    <3>2. w[k + 1] = IF w[k] = None THEN None ELSE Reading!NextOn(q, w[k]) BY <1>10, <3>1
    <3> QED BY <1>3, <3>1, <3>2
  <2>3. Nat \subseteq P
    <3> HIDE DEF P
    <3> QED BY <2>1, <2>2, NatSetInduction
  <2> QED BY <1>1, <2>3
<1> QED BY <1>8, <1>9, <1>10, <1>11 DEF IsChain, S, n

\* The first place where the chain ends or comes back to itself.
Turns(w, k) == w[k] = None \/ \E j \in 0..(k - 1) : w[k] = w[j]
IsTurn(w, m, n) == m \in 1..n /\ Turns(w, m) /\ \A k \in 1..(m - 1) : ~Turns(w, k)

LEMMA ChainTurns ==
  ASSUME NEW q, IsRing(q), NEW g \in DOMAIN q.waitMu, NEW w, IsChain(q, g, w, Reading!HowMany(q))
  PROVE  \E m : IsTurn(w, m, Reading!HowMany(q))
<1>1. PICK n \in Nat : n = Reading!HowMany(q) /\ n = Cardinality(DOMAIN q.waitMu) BY ManyIs
<1> DEFINE D == DOMAIN q.waitMu
           T == {k \in 1..n : Turns(w, k)}
<1>2. IsFiniteSet(D) /\ None \notin D BY DEF IsRing
<1>3. w \in [0..n -> D \cup {None}] /\ w[0] = g BY <1>1 DEF IsChain
<1>4. T # {}
  <2> SUFFICES ASSUME T = {} PROVE FALSE OBVIOUS
  <2>1. \A k \in 1..n : ~Turns(w, k) OBVIOUS
  <2>2. \A k \in 0..n : w[k] \in D
    <3>1. \A k \in 1..n : w[k] # None BY <2>1 DEF Turns
    <3> QED BY <1>3, <3>1
  <2>3. w \in [0..n -> D] BY <1>3, <2>2
  <2>4. IsFiniteSet(0..n) /\ Cardinality(0..n) = n + 1 BY FS_Interval
  <2> HIDE DEF D, T
  <2>5. PICK x, y \in 0..n : x # y /\ w[x] = w[y]
    <3>1. Cardinality(D) < Cardinality(0..n) BY <1>1, <2>4 DEF D
    <3> QED BY <1>2, <2>3, <2>4, <3>1, FS_PigeonHole
  <2>6. CASE x < y
    <3>1. y \in 1..n /\ x \in 0..(y - 1) BY <2>6
    <3> QED BY <2>1, <2>5, <3>1 DEF Turns
  <2>7. CASE y < x
    <3>1. x \in 1..n /\ y \in 0..(x - 1) BY <2>7
    <3> QED BY <2>1, <2>5, <3>1 DEF Turns
  <2> QED BY <2>5, <2>6, <2>7
<1>5. T \in SUBSET Nat OBVIOUS
<1> HIDE DEF T
<1>6. PICK m \in T : \A k \in T : m <= k BY <1>4, <1>5, LeastNumber
<1>7. m \in 1..n /\ Turns(w, m) BY <1>6 DEF T
<1>8. ASSUME NEW k \in 1..(m - 1) PROVE ~Turns(w, k)
  <2>1. k \in 1..n /\ ~(m <= k) BY <1>7
  <2> QED BY <1>6, <2>1 DEF T
<1> QED BY <1>1, <1>7, <1>8 DEF IsTurn

\* Up to there, nobody is met twice.
MetOnce(q, w, m) ==
  /\ \A k \in 0..(m - 1) : w[k] \in DOMAIN q.waitMu /\ w[k] # None
  /\ \A k \in 0..(m - 1) : w[k + 1] = Reading!NextOn(q, w[k])
  /\ \A j, k \in 0..(m - 1) : w[j] = w[k] => j = k

LEMMA BeforeTheTurn ==
  ASSUME NEW q, IsRing(q), NEW g \in DOMAIN q.waitMu, NEW n \in Nat, NEW w, IsChain(q, g, w, n), NEW m, IsTurn(w, m, n)
  PROVE  MetOnce(q, w, m)
<1>0. w \in [0..n -> DOMAIN q.waitMu \cup {None}] /\ w[0] = g /\ None \notin DOMAIN q.waitMu BY DEF IsChain, IsRing
<1>1. m \in 1..n /\ \A k \in 1..(m - 1) : ~Turns(w, k) BY DEF IsTurn
<1>2. ASSUME NEW k \in 0..(m - 1) PROVE w[k] \in DOMAIN q.waitMu /\ w[k] # None
  <2>1. CASE k = 0 BY <1>0, <2>1
  <2>2. CASE k # 0
    <3>1. k \in 1..(m - 1) /\ k \in 0..n BY <1>1, <2>2
    <3> QED BY <1>0, <1>1, <3>1 DEF Turns
  <2> QED BY <2>1, <2>2
<1>3. ASSUME NEW k \in 0..(m - 1) PROVE w[k + 1] = Reading!NextOn(q, w[k])
  <2>1. k + 1 \in 1..n /\ (k + 1) - 1 = k BY <1>1
  <2> QED BY <1>2, <2>1 DEF IsChain
<1>4. ASSUME NEW j \in 0..(m - 1), NEW k \in 0..(m - 1), j < k PROVE w[k] # w[j]
  <2>1. k \in 1..(m - 1) /\ j \in 0..(k - 1) BY <1>1, <1>4
  <2> QED BY <1>1, <2>1 DEF Turns
<1>5. ASSUME NEW j \in 0..(m - 1), NEW k \in 0..(m - 1), w[j] = w[k] PROVE j = k
  <2>1. ~(j < k) /\ ~(k < j) BY <1>4, <1>5
  <2> QED BY <1>1, <2>1
<1> QED BY <1>2, <1>3, <1>5 DEF MetOnce

\* The chain of those that are met first, as a sequence.
Trace(w, k) == [i \in 1..k |-> w[i - 1]]
Met(w, k) == {w[i] : i \in 0..(k - 1)}

LEMMA TraceIs ==
  ASSUME NEW w, NEW k \in Nat
  PROVE  /\ Len(Trace(w, k)) = k /\ DOMAIN Trace(w, k) = 1..k
         /\ \A i \in 1..k : Trace(w, k)[i] = w[i - 1]
         /\ Reading!ToSet(Trace(w, k)) = Met(w, k)
         /\ Append(Trace(w, k), w[k]) = Trace(w, k + 1)
<1> DEFINE R == {w[i] : i \in 0..k}
<1>1. \A j \in Nat : Trace(w, j) = [i \in 1..j |-> w[i - 1]] BY DEF Trace
<1>2. Trace(w, k) \in Seq(R) /\ Len(Trace(w, k)) = k
  <2>1. \A i \in 1..k : w[i - 1] \in R OBVIOUS
  <2> HIDE DEF R
  <2>2. Trace(w, k) \in [1..k -> R] BY <2>1 DEF Trace
  <2> QED BY <2>2, IsASeq, LenProperties
<1>3. Trace(w, k + 1) \in Seq(R) /\ Len(Trace(w, k + 1)) = k + 1
  <2>1. \A i \in 1..(k + 1) : w[i - 1] \in R OBVIOUS
  <2> HIDE DEF R
  <2>2. Trace(w, k + 1) \in [1..(k + 1) -> R] BY <2>1 DEF Trace
  <2> QED BY <2>2, IsASeq, LenProperties
<1>4. w[k] \in R OBVIOUS
<1> HIDE DEF R
<1>5. Reading!ToSet(Trace(w, k)) = Met(w, k)
  <2>1. Reading!ToSet(Trace(w, k)) = {Trace(w, k)[i] : i \in 1..k} BY <1>1 DEF Reading!ToSet
  <2>2. \A i \in 1..k : Trace(w, k)[i] = w[i - 1] /\ i - 1 \in 0..(k - 1)
    <3>1. \A i \in 1..k : Trace(w, k)[i] = w[i - 1] BY DEF Trace
    <3> QED BY <3>1
  <2>3. \A i \in 0..(k - 1) : i + 1 \in 1..k /\ (i + 1) - 1 = i OBVIOUS
  <2> QED BY <2>1, <2>2, <2>3 DEF Met
<1>6. Append(Trace(w, k), w[k]) = Trace(w, k + 1)
  <2> DEFINE a == Append(Trace(w, k), w[k])
             b == Trace(w, k + 1)
  <2>1. a \in Seq(R) /\ Len(a) = k + 1 /\ a[k + 1] = w[k] /\ \A i \in 1..k : a[i] = Trace(w, k)[i]
    BY <1>2, <1>4, AppendProperties
  <2>2. \A i \in 1..(k + 1) : b[i] = w[i - 1] BY DEF Trace
  <2>3. \A i \in 1..(k + 1) : a[i] = b[i]
    <3> TAKE i \in 1..(k + 1)
    <3>1. CASE i = k + 1 BY <2>1, <2>2, <3>1
    <3>2. CASE i # k + 1
      <4>1. i \in 1..k BY <3>2
      <4> QED BY <1>1, <2>1, <2>2, <4>1
    <3> QED BY <3>1, <3>2
  <2> HIDE DEF a, b
  <2>4. b \in Seq(R) /\ Len(b) = k + 1 BY <1>3 DEF b
  <2>5. a = b BY <2>1, <2>3, <2>4, SeqEqual
  <2> QED BY <2>5 DEF a, b
<1> QED BY <1>1, <1>2, <1>5, <1>6

\* The path that the search takes is this chain.
LEMMA WalkSteps ==
  ASSUME NEW q, IsRing(q), NEW g \in DOMAIN q.waitMu, NEW u, u = Reading!Walk(q, g)
  PROVE  /\ u[0] = [path |-> <<>>, at |-> g]
         /\ \A k \in 1..Reading!HowMany(q) : u[k] = Reading!GoOn(q, u[k - 1])
<1> DEFINE D == DOMAIN q.waitMu
           S == [path : Seq(D), at : D \cup {None}]
           n == Reading!HowMany(q)
           base == [path |-> <<>>, at |-> g]
           step == [x \in (1..n) \X S |-> Reading!GoOn(q, x[2])]
<1>1. n \in Nat BY ManyIs
<1>2. base \in S BY EmptySeq
<1>3. ASSUME NEW s \in S PROVE Reading!GoOn(q, s) \in S
  <2>1. s.path \in Seq(D) /\ s.at \in D \cup {None} OBVIOUS
  <2>2. CASE s.at = None \/ s.at \in Reading!ToSet(s.path)
    <3>1. Reading!GoOn(q, s) = s BY <2>2 DEF Reading!GoOn
    <3> QED BY <3>1
  <2>3. CASE ~(s.at = None \/ s.at \in Reading!ToSet(s.path))
    <3>1. Reading!GoOn(q, s) = [path |-> Append(s.path, s.at), at |-> Reading!NextOn(q, s.at)]
      BY <2>3 DEF Reading!GoOn
    <3>2. s.at \in D BY <2>1, <2>3
    <3>3. Reading!NextOn(q, s.at) \in D \cup {None} BY <3>2, NextOnIs
    <3> HIDE DEF D
    <3>4. Append(s.path, s.at) \in Seq(D) BY <2>1, <3>2, AppendProperties
    <3> QED BY <3>1, <3>3, <3>4
  <2> QED BY <2>2, <2>3
<1>4. step \in [(1..n) \X S -> S]
  <2> HIDE DEF S, n
  <2>1. \A x \in (1..n) \X S : x[2] \in S OBVIOUS
  <2> QED BY <1>3, <2>1
<1>5. \A k \in 1..n, s \in S : step[<<k, s>>] = Reading!GoOn(q, s)
  <2> HIDE DEF S, n
  <2> QED OBVIOUS
<1> HIDE DEF S, n, base, step
<1>6. PICK f \in [0..n -> S] : f[0] = base /\ \A k \in 1..n : f[k] = step[<<k, f[k - 1]>>]
  <2>1. HasValues(n, S, base, step) BY <1>1, <1>2, <1>4, IntervalRecursion
  <2> QED BY <2>1 DEF HasValues, Continues
<1>7. f = [k \in 0..n |-> IF k = 0 THEN base ELSE Reading!GoOn(q, f[k - 1])]
  <2>1. ASSUME NEW k \in 0..n PROVE f[k] = IF k = 0 THEN base ELSE Reading!GoOn(q, f[k - 1])
    <3>1. k # 0 => k \in 1..n /\ k - 1 \in 0..n BY <1>1
    <3> QED BY <1>5, <1>6, <3>1
  <2> QED BY <1>6, <2>1
<1>8. u = [k \in 0..n |-> IF k = 0 THEN base ELSE Reading!GoOn(q, u[k - 1])]
  BY <1>7 DEF Reading!Walk, n, base
<1>9. u[0] = base BY <1>1, <1>8
<1>10. ASSUME NEW k \in 1..n PROVE u[k] = Reading!GoOn(q, u[k - 1])
  <2> DEFINE b == [j \in 0..n |-> IF j = 0 THEN base ELSE Reading!GoOn(q, u[j - 1])]
  <2>1. k \in 0..n /\ k # 0 BY <1>1
  <2>2. b[k] = Reading!GoOn(q, u[k - 1]) BY <2>1
  <2>3. u = b BY <1>8
  <2> HIDE DEF b
  <2> QED BY <2>2, <2>3
<1> QED BY <1>9, <1>10 DEF base, n

LEMMA PathIs ==
  ASSUME NEW q, IsRing(q), NEW g \in DOMAIN q.waitMu, NEW w, w = Reading!Waits(q, g),
         NEW m, IsTurn(w, m, Reading!HowMany(q))
  PROVE  Reading!Path(q, g) = [path |-> Trace(w, m), at |-> w[m]]
<1>1. PICK n \in Nat : n = Reading!HowMany(q) BY ManyIs
<1>2. PICK u : u = Reading!Walk(q, g) OBVIOUS
<1>3. u[0] = [path |-> <<>>, at |-> g] /\ \A k \in 1..n : u[k] = Reading!GoOn(q, u[k - 1])
  BY <1>1, <1>2, WalkSteps
<1>4. IsChain(q, g, w, n) BY <1>1, WaitsAre
<1>5. /\ \A k \in 0..(m - 1) : w[k] \in DOMAIN q.waitMu /\ w[k] # None
      /\ \A k \in 0..(m - 1) : w[k + 1] = Reading!NextOn(q, w[k])
      /\ \A j, k \in 0..(m - 1) : w[j] = w[k] => j = k
  <2>1. MetOnce(q, w, m) BY <1>1, <1>4, BeforeTheTurn
  <2> QED BY <2>1 DEF MetOnce
<1>6. m \in 1..n /\ Turns(w, m) BY <1>1 DEF IsTurn
<1> DEFINE Is(k) == [path |-> Trace(w, k), at |-> w[k]]
           P == {k \in Nat : k <= n => u[k] = IF k <= m THEN Is(k) ELSE Is(m)}
<1>7. 0 \in P
  <2>1. Trace(w, 0) = <<>>
    <3>1. Len(Trace(w, 0)) = 0 /\ Trace(w, 0) \in [1..0 -> {}] BY TraceIs DEF Trace
    <3> QED BY <3>1
  <2>2. w[0] = g BY <1>4 DEF IsChain
  <2> QED BY <1>3, <1>6, <2>1, <2>2
<1>8. ASSUME NEW k \in Nat, k \in P PROVE k + 1 \in P
  <2> SUFFICES ASSUME k + 1 <= n PROVE u[k + 1] = IF k + 1 <= m THEN Is(k + 1) ELSE Is(m) OBVIOUS
  <2>1. u[k + 1] = Reading!GoOn(q, u[k])
    <3>1. k + 1 \in 1..n /\ (k + 1) - 1 = k OBVIOUS
    <3> QED BY <1>3, <3>1
  <2>2. u[k] = IF k <= m THEN Is(k) ELSE Is(m) BY <1>8
  <2>3. CASE k < m
    <3>1. k \in 0..(m - 1) /\ k <= m /\ k + 1 <= m BY <1>6, <2>3
    <3>2. u[k].at = w[k] /\ u[k].path = Trace(w, k) BY <2>2, <3>1
    <3>3. Reading!ToSet(u[k].path) = Met(w, k)
      <4>1. Reading!ToSet(Trace(w, k)) = Met(w, k) BY TraceIs
      <4> QED BY <3>2, <4>1
    <3>4. w[k] \notin Met(w, k)
      <4>1. ASSUME NEW i \in 0..(k - 1), w[i] = w[k] PROVE FALSE
        <5>1. i \in 0..(m - 1) /\ i # k BY <1>6, <3>1
        <5> QED BY <1>5, <3>1, <4>1, <5>1
      <4> QED BY <4>1 DEF Met
    <3>5. Reading!GoOn(q, u[k]) = [path |-> Append(Trace(w, k), w[k]), at |-> Reading!NextOn(q, w[k])]
      BY <1>5, <3>1, <3>2, <3>3, <3>4 DEF Reading!GoOn
    <3>6. Append(Trace(w, k), w[k]) = Trace(w, k + 1) BY TraceIs
    <3>7. Reading!NextOn(q, w[k]) = w[k + 1] BY <1>5, <3>1
    <3> QED BY <2>1, <3>1, <3>5, <3>6, <3>7
  <2>4. CASE ~(k < m)
    <3>1. u[k] = Is(m) BY <1>6, <2>2, <2>4
    <3>2. u[k].at = w[m] /\ u[k].path = Trace(w, m) BY <3>1
    <3>3. Reading!ToSet(u[k].path) = Met(w, m)
      <4>1. m \in Nat BY <1>6
      <4>2. Reading!ToSet(Trace(w, m)) = Met(w, m) BY <4>1, TraceIs
      <4> QED BY <3>2, <4>2
    <3>4. u[k].at = None \/ u[k].at \in Reading!ToSet(u[k].path) BY <1>6, <3>2, <3>3 DEF Turns, Met
    <3>5. Reading!GoOn(q, u[k]) = u[k] BY <3>4 DEF Reading!GoOn
    <3>6. ~(k + 1 <= m) BY <1>6, <2>4
    <3> QED BY <2>1, <3>1, <3>5, <3>6
  <2> QED BY <2>3, <2>4
<1>9. Nat \subseteq P
  <2> HIDE DEF P
  <2> QED BY <1>7, <1>8, NatSetInduction
<1>10. u[n] = Is(m)
  <2>1. u[n] = IF n <= m THEN Is(n) ELSE Is(m) BY <1>9
  <2>2. n <= m => n = m BY <1>6
  <2> QED BY <2>1, <2>2
<1>11. Reading!Path(q, g) = u[n] BY <1>1, <1>2 DEF Reading!Path
<1> QED BY <1>10, <1>11


\* One that waits for itself over another closes a ring, and so do all in it.
InARing(q, g) ==
  g \in Reading!ToSet(q.live) /\ g \in Reading!WaitsFor(q, g) /\ Reading!NextOn(q, g) # g

LEMMA WaitsForIs ==
  ASSUME NEW q, IsRing(q), NEW g \in DOMAIN q.waitMu, NEW w, w = Reading!Waits(q, g)
  PROVE  g \in Reading!WaitsFor(q, g) <=> \E k \in 1..Reading!HowMany(q) : w[k] = g
<1>1. g # None BY DEF IsRing
<1> QED BY <1>1 DEF Reading!WaitsFor

LEMMA ClosesIs ==
  ASSUME NEW q, IsRing(q), NEW g \in DOMAIN q.waitMu, NEW w, w = Reading!Waits(q, g),
         NEW m, IsTurn(w, m, Reading!HowMany(q))
  PROVE  Reading!Closes(q, g) <=> w[m] = g /\ m > 1
<1>1. m \in Nat BY ManyIs DEF IsTurn
<1>2. Reading!Path(q, g) = [path |-> Trace(w, m), at |-> w[m]] BY PathIs
<1>3. Len(Trace(w, m)) = m BY <1>1, TraceIs
<1> QED BY <1>2, <1>3 DEF Reading!Closes

\* A chain that does not come back to its start at its turn never does.
LEMMA NeverReturns ==
  ASSUME NEW q, IsRing(q), NEW g \in DOMAIN q.waitMu, NEW n \in Nat, NEW w, IsChain(q, g, w, n),
         NEW m, IsTurn(w, m, n), w[m] # g, NEW k \in 1..n
  PROVE  w[k] # g
<1>1. /\ \A i \in 0..(m - 1) : w[i] \in DOMAIN q.waitMu /\ w[i] # None
      /\ \A i \in 0..(m - 1) : w[i + 1] = Reading!NextOn(q, w[i])
      /\ \A i, j \in 0..(m - 1) : w[i] = w[j] => i = j
  <2>1. MetOnce(q, w, m) BY BeforeTheTurn
  <2> QED BY <2>1 DEF MetOnce
<1>2. m \in 1..n /\ Turns(w, m) BY DEF IsTurn
<1>3. w[0] = g /\ g # None /\ \A i \in 1..n : w[i] = IF w[i - 1] = None THEN None ELSE Reading!NextOn(q, w[i - 1])
  BY DEF IsChain, IsRing
<1> DEFINE Off(i) == w[i] = None \/ \E j \in 1..(m - 1) : w[i] = w[j]
           P == {i \in Nat : m <= i /\ i <= n => Off(i)}
<1>4. Off(m)
  <2> SUFFICES ASSUME w[m] # None PROVE Off(m) OBVIOUS
  <2>1. PICK j \in 0..(m - 1) : w[m] = w[j] BY <1>2 DEF Turns
  <2>2. j # 0 BY <1>3, <2>1
  <2> QED BY <1>2, <2>1, <2>2
<1>5. 0 \in P BY <1>2
<1>6. ASSUME NEW i \in Nat, i \in P PROVE i + 1 \in P
  <2> SUFFICES ASSUME m <= i + 1, i + 1 <= n PROVE Off(i + 1) OBVIOUS
  <2>1. CASE i + 1 = m BY <1>4, <2>1
  <2>2. CASE i + 1 # m
    <3>1. m <= i /\ i <= n /\ i + 1 \in 1..n /\ (i + 1) - 1 = i BY <1>2, <2>2
    <3>2. Off(i) BY <1>6, <3>1
    <3>3. w[i + 1] = IF w[i] = None THEN None ELSE Reading!NextOn(q, w[i]) BY <1>3, <3>1
    <3>4. CASE w[i] = None BY <3>3, <3>4
    <3>5. CASE w[i] # None
      <4>1. PICK j \in 1..(m - 1) : w[i] = w[j] BY <3>2, <3>5
      <4>2. j \in 0..(m - 1) BY <1>2
      <4>3. w[i + 1] = w[j + 1] BY <1>1, <3>3, <3>5, <4>1, <4>2
      <4>4. CASE j + 1 = m BY <1>4, <4>3, <4>4
      <4>5. CASE j + 1 # m
        <5>1. j + 1 \in 1..(m - 1) BY <1>2, <4>5
        <5> QED BY <4>3, <5>1
      <4> QED BY <4>4, <4>5
    <3> QED BY <3>4, <3>5
  <2> QED BY <2>1, <2>2
<1>7. Nat \subseteq P
  <2> HIDE DEF P
  <2> QED BY <1>5, <1>6, NatSetInduction
<1>8. CASE k < m
  <2>1. k \in 0..(m - 1) /\ 0 \in 0..(m - 1) /\ k # 0 BY <1>2, <1>8
  <2> QED BY <1>1, <1>3, <2>1
<1>9. CASE ~(k < m)
  <2>1. Off(k)
    <3>1. k \in Nat /\ m <= k /\ k <= n BY <1>2, <1>9
    <3> QED BY <1>7, <3>1
  <2>2. ASSUME NEW j \in 1..(m - 1), w[k] = w[j] PROVE w[k] # g
    <3>1. j \in 0..(m - 1) /\ 0 \in 0..(m - 1) /\ j # 0 BY <1>2
    <3> QED BY <1>1, <1>3, <2>2, <3>1
  <2> QED BY <1>3, <2>1, <2>2
<1> QED BY <1>8, <1>9

LEMMA RingCloses ==
  ASSUME NEW q, IsRing(q), NEW g \in DOMAIN q.waitMu, InARing(q, g)
  PROVE  Reading!Closes(q, g)
<1>1. PICK n \in Nat : n = Reading!HowMany(q) BY ManyIs
<1>2. PICK w : w = Reading!Waits(q, g) OBVIOUS
<1>3. IsChain(q, g, w, n) BY <1>1, <1>2, WaitsAre
<1>4. PICK m : IsTurn(w, m, n) BY <1>1, <1>3, ChainTurns
<1>5. PICK k \in 1..n : w[k] = g BY <1>1, <1>2, WaitsForIs DEF InARing
<1>6. w[m] = g BY <1>3, <1>4, <1>5, NeverReturns
<1>7. m # 1
  <2> SUFFICES ASSUME m = 1 PROVE FALSE OBVIOUS
  <2>1. 0 \in 0..(m - 1) /\ 0 + 1 = m OBVIOUS
  <2>2. w[0 + 1] = Reading!NextOn(q, w[0]) BY <1>3, <1>4, <2>1, BeforeTheTurn DEF MetOnce
  <2>3. w[0] = g BY <1>3 DEF IsChain
  <2> QED BY <1>6, <2>1, <2>2, <2>3 DEF InARing
<1>8. m \in 1..n BY <1>4 DEF IsTurn
<1> QED BY <1>1, <1>2, <1>4, <1>6, <1>7, <1>8, ClosesIs

LEMMA AllInTheRing ==
  ASSUME NEW q, IsRing(q), NEW g \in DOMAIN q.waitMu, NEW n \in Nat, n = Reading!HowMany(q),
         NEW w, w = Reading!Waits(q, g), NEW m, IsTurn(w, m, n), w[m] = g, m > 1, NEW i \in 0..(m - 1)
  PROVE  InARing(q, w[i])
<1>0. IsChain(q, g, w, n) BY WaitsAre
<1>1. /\ \A k \in 0..(m - 1) : w[k] \in DOMAIN q.waitMu /\ w[k] # None
      /\ \A k \in 0..(m - 1) : w[k + 1] = Reading!NextOn(q, w[k])
      /\ \A j, k \in 0..(m - 1) : w[j] = w[k] => j = k
  <2>1. MetOnce(q, w, m) BY <1>0, BeforeTheTurn
  <2> QED BY <2>1 DEF MetOnce
<1>2. m \in 1..n BY DEF IsTurn
<1>3. w[0] = g /\ g # None BY <1>0 DEF IsChain, IsRing
<1>4. PICK x : x = w[i] OBVIOUS
<1>5. x \in DOMAIN q.waitMu /\ Reading!NextOn(q, x) = w[i + 1] BY <1>1, <1>4
<1>6. w[i + 1] # None /\ w[i + 1] # x
  <2>1. CASE i + 1 = m
    <3>1. 0 \in 0..(m - 1) /\ i # 0 BY <1>2, <2>1
    <3>2. w[i] # w[0] BY <1>1, <3>1
    <3> QED BY <1>3, <1>4, <2>1, <3>2
  <2>2. CASE i + 1 # m
    <3>1. i + 1 \in 0..(m - 1) /\ i + 1 # i BY <1>2, <2>2
    <3> QED BY <1>1, <1>4, <3>1
  <2> QED BY <2>1, <2>2
<1>7. x \in Reading!ToSet(q.live)
  <2>1. PICK k \in 1..Len(q.live) : q.live[k] = x BY <1>5, <1>6, NextOnIs
  <2>2. DOMAIN q.live = 1..Len(q.live) BY DEF IsRing
  <2> QED BY <2>1, <2>2 DEF Reading!ToSet
<1>8. PICK h : h = Reading!Waits(q, x) OBVIOUS
<1>9. h[0] = x /\ \A k \in 1..n : h[k] = IF h[k - 1] = None THEN None ELSE Reading!NextOn(q, h[k - 1])
  <2>1. IsChain(q, x, h, n) BY <1>5, <1>8, WaitsAre
  <2> QED BY <2>1 DEF IsChain
<1> DEFINE On(k) == IF i + k < m THEN i + k ELSE i + k - m
           P == {k \in Nat : k <= m => h[k] = w[On(k)]}
<1>10. 0 \in P BY <1>2, <1>4, <1>9
<1>11. ASSUME NEW k \in Nat, k \in P PROVE k + 1 \in P
  <2> SUFFICES ASSUME k + 1 <= m PROVE h[k + 1] = w[On(k + 1)] OBVIOUS
  <2>1. PICK o : o = On(k) OBVIOUS
  <2>2. o \in 0..(m - 1) /\ On(k + 1) = IF o + 1 = m THEN 0 ELSE o + 1 BY <1>2, <2>1
  <2>3. h[k] = w[o] BY <1>2, <1>11, <2>1
  <2>4. k + 1 \in 1..n /\ (k + 1) - 1 = k BY <1>2
  <2>5. h[k + 1] = w[o + 1] BY <1>1, <1>9, <2>2, <2>3, <2>4
  <2> HIDE DEF On
  <2> QED BY <1>3, <2>2, <2>5
<1>12. Nat \subseteq P
  <2> HIDE DEF P
  <2> QED BY <1>10, <1>11, NatSetInduction
<1>13. h[m] = x
  <2>1. m \in Nat /\ On(m) = i BY <1>2
  <2> QED BY <1>4, <1>12, <2>1
<1>14. x \in Reading!WaitsFor(q, x) BY <1>2, <1>5, <1>8, <1>13, WaitsForIs
<1> QED BY <1>4, <1>5, <1>6, <1>7, <1>14 DEF InARing

\* What a ring that is named looks like.
NamesARing(q, a) ==
  /\ a # <<>> /\ Len(a) \in Nat /\ Len(a) > 1 /\ a[Len(a)] = a[1]
  /\ \A x \in Reading!ToSet(a) : InARing(q, x)
  /\ \A i \in 1..(Len(a) - 1) : Reading!NextOn(q, a[i]) = a[i + 1]
  /\ Cardinality(Reading!ToSet(a)) = Len(a) - 1

LEMMA MetMany ==
  ASSUME NEW w, NEW m \in Nat \ {0}, \A j, k \in 0..(m - 1) : w[j] = w[k] => j = k
  PROVE  Cardinality(Met(w, m)) = m
<1> DEFINE K == 0..(m - 1)
           f == [k \in K |-> w[k]]
<1>1. IsFiniteSet(K) /\ Cardinality(K) = m
  <2>1. m - 1 \in Int /\ 0 <= m - 1 OBVIOUS
  <2> QED BY <2>1, FS_Interval
<1>2. f \in Bijection(K, Met(w, m))
  <2>1. f \in [K -> Met(w, m)] BY DEF Met
  <2>2. \A j, k \in K : f[j] = f[k] => j = k OBVIOUS
  <2>3. \A x \in Met(w, m) : \E k \in K : f[k] = x BY DEF Met
  <2> HIDE DEF f
  <2>4. DOMAIN f = K BY <2>1
  <2> HIDE DEF K
  <2>5. f \in Injection(K, Met(w, m)) BY <2>1, <2>2, <2>4 DEF Injection, IsInjective
  <2>6. f \in Surjection(K, Met(w, m)) BY <2>1, <2>3 DEF Surjection
  <2> QED BY <2>5, <2>6 DEF Bijection
<1>3. ExistsBijection(K, Met(w, m)) BY <1>2 DEF ExistsBijection
<1> HIDE DEF K
<1> QED BY <1>1, <1>3, FS_Bijection

LEMMA ClosedRing ==
  ASSUME NEW q, IsRing(q), NEW g \in DOMAIN q.waitMu, Reading!Closes(q, g)
  PROVE  NamesARing(q, Append(Reading!Path(q, g).path, g))
<1>1. PICK n \in Nat : n = Reading!HowMany(q) BY ManyIs
<1>2. PICK w : w = Reading!Waits(q, g) OBVIOUS
<1>3. IsChain(q, g, w, n) BY <1>1, <1>2, WaitsAre
<1>4. PICK m : IsTurn(w, m, n) BY <1>1, <1>3, ChainTurns
<1>5. m \in 1..n BY <1>4 DEF IsTurn
<1>6. w[m] = g /\ m > 1 BY <1>1, <1>2, <1>4, ClosesIs
<1>7. /\ \A k \in 0..(m - 1) : w[k] \in DOMAIN q.waitMu /\ w[k] # None
      /\ \A k \in 0..(m - 1) : w[k + 1] = Reading!NextOn(q, w[k])
      /\ \A j, k \in 0..(m - 1) : w[j] = w[k] => j = k
  <2>1. MetOnce(q, w, m) BY <1>3, <1>4, BeforeTheTurn
  <2> QED BY <2>1 DEF MetOnce
<1>8. Reading!Path(q, g) = [path |-> Trace(w, m), at |-> w[m]] BY <1>1, <1>2, <1>4, PathIs
<1>9. PICK a : a = Append(Reading!Path(q, g).path, g) OBVIOUS
<1>10. a = Trace(w, m + 1)
  <2>1. m \in Nat BY <1>5
  <2>2. Append(Trace(w, m), w[m]) = Trace(w, m + 1) BY <2>1, TraceIs
  <2> QED BY <1>6, <1>8, <1>9, <2>2
<1>11. Len(a) = m + 1 /\ (\A i \in 1..(m + 1) : a[i] = w[i - 1]) /\ Reading!ToSet(a) = Met(w, m + 1)
  <2>1. m + 1 \in Nat BY <1>5
  <2> QED BY <1>10, <2>1, TraceIs
<1>12. Met(w, m + 1) = Met(w, m)
  <2>1. w[m] = w[0] BY <1>3, <1>6 DEF IsChain
  <2>2. \A i \in 0..((m + 1) - 1) : i \in 0..(m - 1) \/ i = m BY <1>5
  <2>3. \A i \in 0..(m - 1) : i \in 0..((m + 1) - 1) BY <1>5
  <2>4. 0 \in 0..(m - 1) BY <1>5
  <2> QED BY <2>1, <2>2, <2>3, <2>4 DEF Met
<1>13. Cardinality(Reading!ToSet(a)) = Len(a) - 1
  <2>1. m \in Nat \ {0} BY <1>5
  <2>2. Cardinality(Met(w, m)) = m BY <1>7, <2>1, MetMany
  <2> QED BY <1>11, <1>12, <2>1, <2>2
<1>14. ASSUME NEW x \in Reading!ToSet(a) PROVE InARing(q, x)
  <2>1. PICK i \in 0..(m - 1) : x = w[i] BY <1>11, <1>12 DEF Met
  <2> QED BY <1>1, <1>2, <1>4, <1>6, <2>1, AllInTheRing
<1>15. ASSUME NEW i \in 1..(Len(a) - 1) PROVE Reading!NextOn(q, a[i]) = a[i + 1]
  <2>1. i - 1 \in 0..(m - 1) /\ (i - 1) + 1 = i /\ (i + 1) - 1 = i /\ i \in 1..(m + 1) /\ i + 1 \in 1..(m + 1)
    BY <1>5, <1>11
  <2>2. w[i] = Reading!NextOn(q, w[i - 1]) BY <1>7, <2>1
  <2> QED BY <1>11, <2>1, <2>2
<1>16. a[Len(a)] = a[1]
  <2>1. m + 1 \in 1..(m + 1) /\ 1 \in 1..(m + 1) /\ (m + 1) - 1 = m /\ 1 - 1 = 0 BY <1>5
  <2>2. w[0] = g BY <1>3 DEF IsChain
  <2> QED BY <1>6, <1>11, <2>1, <2>2
<1>17. a # <<>> /\ Len(a) \in Nat /\ Len(a) > 1 BY <1>5, <1>6, <1>11
<1>18. NamesARing(q, a) BY <1>13, <1>14, <1>15, <1>16, <1>17 DEF NamesARing
<1> QED BY <1>9, <1>18

LEMMA LockCycleIs ==
  ASSUME NEW q, IsRing(q), NEW a, a = Reading!LockCycle(q)
  PROVE  \/ a = <<>> /\ \A g : ~InARing(q, g)
         \/ NamesARing(q, a)
<1> DEFINE closing == {k \in 1..Len(q.live) : Reading!Closes(q, q.live[k])}
           first == CHOOSE k \in closing : \A j \in closing : k <= j
<1>1. Len(q.live) \in Nat /\ q.live \in [1..Len(q.live) -> DOMAIN q.waitMu] BY DEF IsRing
<1>2. a = IF closing = {} THEN <<>> ELSE Append(Reading!Path(q, q.live[first]).path, q.live[first])
  BY DEF Reading!LockCycle
<1>3. CASE closing = {}
  <2>1. ASSUME NEW g, InARing(q, g) PROVE FALSE
    <3>1. PICK k \in 1..Len(q.live) : g = q.live[k] BY <1>1, <2>1 DEF InARing, Reading!ToSet
    <3>2. g \in DOMAIN q.waitMu BY <1>1, <3>1
    <3>3. Reading!Closes(q, g) BY <2>1, <3>2, RingCloses
    <3> QED BY <1>3, <3>1, <3>3
  <2> QED BY <1>2, <1>3, <2>1
<1>4. CASE closing # {}
  <2>1. closing \in SUBSET Nat BY <1>1
  <2>2. \E k \in closing : \A j \in closing : k <= j
    <3> HIDE DEF closing
    <3> QED BY <1>4, <2>1, LeastNumber
  <2>3. first \in closing
    <3> HIDE DEF closing
    <3> QED BY <2>2
  <2>4. first \in 1..Len(q.live) /\ Reading!Closes(q, q.live[first])
    <3> HIDE DEF first
    <3> QED BY <2>3
  <2>5. PICK g : g = q.live[first] OBVIOUS
  <2> HIDE DEF first, closing
  <2>6. g \in DOMAIN q.waitMu /\ Reading!Closes(q, g) BY <1>1, <2>4, <2>5
  <2> QED BY <1>2, <1>4, <2>5, <2>6, ClosedRing
<1> QED BY <1>3, <1>4

-----------------------------------------------------------------------------
(* A question and its answer.                                              *)

\* What is claimed of an answer.
RingRight(q, a) ==
  LET on == {g \in Reading!ToSet(q.live) : g \in Reading!WaitsFor(q, g) /\ Reading!NextOn(q, g) # g}
  IN  /\ a = <<>> <=> on = {}
      /\ a # <<>> =>
           /\ a[Len(a)] = a[1] /\ Reading!ToSet(a) \subseteq on
           /\ \A i \in 1..(Len(a) - 1) : Reading!NextOn(q, a[i]) = a[i + 1]
           /\ Reading!Cardinality(Reading!ToSet(a)) = Len(a) - 1
StopsRight(q, a) ==
  \A k \in 1..Len(a) :
    LET found == {a[j] : j \in 1..(k - 1)} \ {0}
        last  == IF found = {} THEN 0 ELSE CHOOSE i \in found : \A j \in found : j <= i
        upto  == IF a[k] = 0 THEN Len(q.events) ELSE a[k]
        hits  == {i \in (last + 1)..upto : Reading!Matches(q.events[i], q.stops[k])}
    IN  IF a[k] = 0 THEN Reading!Cardinality(hits) < q.stops[k].nth
        ELSE a[k] > last /\ a[k] \in hits /\ Reading!Cardinality(hits) = q.stops[k].nth

LEMMA RingAnswer ==
  ASSUME NEW q, IsRing(q), NEW a, a = Reading!LockCycle(q)
  PROVE  RingRight(q, a)
<1> DEFINE on == {g \in Reading!ToSet(q.live) : g \in Reading!WaitsFor(q, g) /\ Reading!NextOn(q, g) # g}
<1>1. \A g : g \in on <=> InARing(q, g) BY DEF InARing
<1> HIDE DEF on
<1>2. CASE a = <<>> /\ \A g : ~InARing(q, g)
  <2>1. on = {} BY <1>1, <1>2
  <2> QED BY <1>2, <2>1 DEF RingRight, on
<1>3. CASE NamesARing(q, a)
  <2>1. a # <<>> /\ a[Len(a)] = a[1] /\ Reading!ToSet(a) \subseteq on BY <1>1, <1>3 DEF NamesARing
  <2>2. \A i \in 1..(Len(a) - 1) : Reading!NextOn(q, a[i]) = a[i + 1] BY <1>3 DEF NamesARing
  <2>3. Reading!Cardinality(Reading!ToSet(a)) = Len(a) - 1 BY <1>3, EndCount DEF NamesARing
  <2>4. on # {}
    <3>1. Reading!ToSet(a) # {}
      <4> SUFFICES ASSUME Reading!ToSet(a) = {} PROVE FALSE OBVIOUS
      <4>1. Cardinality(Reading!ToSet(a)) = 0 BY FS_EmptySet
      <4> QED BY <1>3, <4>1 DEF NamesARing
    <3> QED BY <2>1, <3>1
  <2> QED BY <2>1, <2>2, <2>3, <2>4 DEF RingRight, on
<1> QED BY <1>2, <1>3, LockCycleIs

LEMMA StopsAnswer ==
  ASSUME NEW q, AreStops(q), NEW a, a = Reading!ResolveStops(q)
  PROVE  StopsRight(q, a)
<1> SUFFICES ASSUME NEW k \in 1..Len(a)
    PROVE LET found == {a[j] : j \in 1..(k - 1)} \ {0}
              last  == IF found = {} THEN 0 ELSE CHOOSE i \in found : \A j \in found : j <= i
              upto  == IF a[k] = 0 THEN Len(q.events) ELSE a[k]
              hits  == {i \in (last + 1)..upto : Reading!Matches(q.events[i], q.stops[k])}
          IN  IF a[k] = 0 THEN Reading!Cardinality(hits) < q.stops[k].nth
              ELSE a[k] > last /\ a[k] \in hits /\ Reading!Cardinality(hits) = q.stops[k].nth
  BY DEF StopsRight
<1>1. StopFits(q, a, k) BY StopsAre
<1> QED BY <1>1, EndCount DEF StopFits, LastFound, LastOf, Found, Hits

\* A question is of those that are asked, and an answer is what its search says.
EndIInv ==
  /\ question \in Questions
  /\ answer # None =>
       \/ question.kind = "ring" /\ answer = Reading!LockCycle(question)
       \/ question.kind = "stops" /\ answer = Reading!ResolveStops(question)
       \/ question.kind = "line" /\ answer = Reading!LineFor(question)

LEMMA EndingStarts == Reading!Init => EndIInv
BY DEF Reading!Init, EndIInv

LEMMA EndingStep == EndIInv /\ [Reading!Next]_<<question, answer>> => EndIInv'
<1> SUFFICES ASSUME EndIInv, [Reading!Next]_<<question, answer>> PROVE EndIInv' OBVIOUS
<1>1. CASE UNCHANGED <<question, answer>> BY <1>1 DEF EndIInv
<1>2. CASE Reading!Ring /\ UNCHANGED question BY <1>2 DEF EndIInv, Reading!Ring
<1>3. CASE Reading!Stops /\ UNCHANGED question BY <1>3 DEF EndIInv, Reading!Stops
<1>4. CASE Reading!Line /\ UNCHANGED question BY <1>4 DEF EndIInv, Reading!Line
<1> QED BY <1>1, <1>2, <1>3, <1>4 DEF Reading!Next

LEMMA EndingHolds == EndIInv => EndingInv
<1> SUFFICES ASSUME EndIInv PROVE EndingInv OBVIOUS
<1>1. Reading!RingIsTheDeadlock
  <2> SUFFICES ASSUME answer # None, question.kind = "ring" PROVE RingRight(question, answer)
    BY DEF Reading!RingIsTheDeadlock, Reading!Answered, RingRight
  <2>1. answer = Reading!LockCycle(question) BY DEF EndIInv
  <2>2. IsRing(question) BY QuestionsAssumption DEF EndIInv
  <2> QED BY <2>1, <2>2, RingAnswer
<1>2. Reading!StopsInOrder
  <2> SUFFICES ASSUME answer # None, question.kind = "stops" PROVE StopsRight(question, answer)
    BY DEF Reading!StopsInOrder, Reading!Answered, StopsRight
  <2>1. answer = Reading!ResolveStops(question) BY DEF EndIInv
  <2>2. AreStops(question) BY QuestionsAssumption DEF EndIInv
  <2> QED BY <2>1, <2>2, StopsAnswer
<1>3. Reading!LineGoesDown
  <2> SUFFICES ASSUME answer # None, question.kind = "line" PROVE GoesDown(question, answer)
    BY DEF Reading!LineGoesDown, Reading!Answered, GoesDown
  <2>1. answer = Reading!LineFor(question) BY DEF EndIInv
  <2>2. IsLine(question) BY QuestionsAssumption DEF EndIInv
  <2> QED BY <2>1, <2>2, LineIs
<1> QED BY <1>1, <1>2, <1>3 DEF EndingInv, Reading!EndingInv

\* Each search over a finished run finds what it looks for: the ring that a deadlock
\* names is one and is named when there is one, the stops come in order, each at the
\* event it asks for, and the gutter mark goes down the code (sim.ts, Sim.lockCycle,
\* resolveStops, Sim.lineFor), for every question.
THEOREM EndingsAreRead == Reading!Spec => []EndingInv
<1>1. Reading!Spec => []EndIInv BY EndingStarts, EndingStep, PTL DEF Reading!Spec, Reading!vars
<1> QED BY <1>1, EndingHolds, PTL
=============================================================================
