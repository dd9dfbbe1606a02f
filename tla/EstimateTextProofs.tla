------------------------- MODULE EstimateTextProofs --------------------------
(***************************************************************************)
(* Proofs about the text and the table of an estimate (EstimateText), for  *)
(* any lines, texts, edits and changes of the view.                        *)
(***************************************************************************)
EXTENDS EstimateText, SequenceTheorems, FiniteSetTheorems, WellFoundedInduction, TLAPS

-----------------------------------------------------------------------------
(* Types.                                                                  *)

LineRecord ==
  [id : Nat, text : LineTexts, calc : {"none", "queued", "done"}, of : Results, orig : BOOLEAN]
Proper(x, top) == x \in LineRecord /\ x.id <= top /\ (x.of # None <=> x.calc = "done")
Listed(lines, top) ==
  /\ lines \in Seq(LineRecord) /\ Len(lines) <= MaxLines
  /\ \A k \in 1..Len(lines) : Proper(lines[k], top)
PutRecord ==
  [lines : Seq(LineRecord), at : {"sent", "stored"}, own : BOOLEAN, start : BOOLEAN]
CountRecord == [edits : Nat, switches : Nat, fresh : Nat]
SwitchRecord ==
  [at : {"shown", "detail", "read", "cancel", "cancelled"}, parsed : Seq(LineRecord), saved : Seq(LineRecord)]
ReportRecord == [at : {"none", "asked", "answered"}, lines : Seq(LineRecord)]
Injective(lines) == \A j, k \in 1..Len(lines) : lines[j].id = lines[k].id => j = k

TypeInv ==
  /\ counts \in CountRecord /\ MaxLines <= counts.fresh
  /\ Listed(rows, counts.fresh) /\ Listed(cache, counts.fresh) /\ Listed(stored, counts.fresh)
  /\ \A k \in 1..Len(stored) : stored[k].calc # "queued"
  /\ Injective(stored)
  /\ draft \in Seq(LineTexts) /\ Len(draft) <= MaxLines
  /\ mode \in {"text", "table"}
  /\ switch \in SwitchRecord
  /\ Listed(switch.parsed, counts.fresh) /\ Listed(switch.saved, counts.fresh)
  /\ saves \in [ready : Nat, waiting : Nat, start : BOOLEAN]
  /\ calc \in [running : BOOLEAN, asked : BOOLEAN]
  /\ puts \in Seq(PutRecord) /\ \A i \in 1..Len(puts) : Listed(puts[i].lines, counts.fresh)
  /\ report \in ReportRecord /\ Listed(report.lines, counts.fresh)

-----------------------------------------------------------------------------
(* Numbers and lists.                                                      *)

\* A set of numbers that is not empty has a least one.
LEMMA LeastOf ==
  ASSUME NEW T \in SUBSET Nat, T # {}
  PROVE  Min(T) \in T /\ \A y \in T : Min(T) <= y
<1> DEFINE R == {ss \in Nat \X Nat : ss[1] < ss[2]}
<1>1. \A x, y \in Nat : <<x, y>> \in R <=> x < y
  OBVIOUS
<1>2. IsWellFoundedOn(R, Nat)
  BY NatLessThanWellFounded DEF OpToRel
<1> HIDE DEF R
<1>3. PICK x \in T : \A y \in T : ~ (<<y, x>> \in R)
  BY <1>2, WFMin
<1>4. \A y \in T : y \in Nat /\ x \in Nat /\ ~(y < x)
  BY <1>1, <1>3
<1>5. \A y \in T : x <= y
  BY <1>4
<1> QED
  BY <1>3, <1>5 DEF Min

\* A set of numbers with a bound that is not empty has a greatest one.
LEMMA GreatestOf ==
  ASSUME NEW n \in Nat, NEW T \in SUBSET (0..n), T # {}
  PROVE  Max(T) \in T /\ \A y \in T : y <= Max(T)
<1> DEFINE U == {n - x : x \in T}
<1>1. \A x \in T : x \in Nat /\ n - x \in Nat
  BY SMT
<1>2. U \in SUBSET Nat /\ U # {}
  BY <1>1
<1>3. Min(U) \in U /\ \A y \in U : Min(U) <= y
  <2> HIDE DEF U
  <2> QED
    BY <1>2, LeastOf
<1>4. PICK z \in T : Min(U) = n - z
  BY <1>3
<1>5. \A y \in T : y <= z
  <2> TAKE y \in T
  <2>1. n - z <= n - y
    BY <1>3, <1>4
  <2>2. y \in Nat /\ z \in Nat
    BY <1>1
  <2> HIDE DEF U
  <2> QED
    BY <2>1, <2>2
<1> QED
  BY <1>5 DEF Max

\* A list given place by place.
LEMMA ListOf ==
  ASSUME NEW S, NEW n \in Nat, NEW F, DOMAIN F = 1..n, F = [k \in 1..n |-> F[k]], \A k \in 1..n : F[k] \in S
  PROVE  F \in Seq(S) /\ Len(F) = n
OBVIOUS

LEMMA ListedOf ==
  ASSUME NEW top, NEW n \in Nat, n <= MaxLines, NEW F, F = [k \in 1..n |-> F[k]],
         \A k \in 1..n : Proper(F[k], top)
  PROVE  Listed(F, top) /\ Len(F) = n
<1>1. \A k \in 1..n : F[k] \in LineRecord
  BY DEF Proper
<1>2. F \in Seq(LineRecord) /\ Len(F) = n
  BY <1>1
<1> QED
  BY <1>2 DEF Listed

LEMMA ElementReplaced ==
  ASSUME NEW S, NEW s \in Seq(S), NEW i \in 1..Len(s), NEW x
  PROVE  [s EXCEPT ![i] = x][i] = x
OBVIOUS

LEMMA EmptyIs ==
  ASSUME NEW S, NEW s \in Seq(S)
  PROVE  s = <<>> <=> Len(s) = 0
BY EmptySeq

LEMMA ListedOn ==
  ASSUME NEW lines, NEW top \in Nat, NEW more \in Nat, top <= more, Listed(lines, top)
  PROVE  Listed(lines, more)
BY DEF Listed, Proper, LineRecord

LEMMA NothingListed == ASSUME NEW top PROVE Listed(<<>>, top)
<1>1. <<>> \in Seq(LineRecord) /\ Len(<<>>) = 0
  OBVIOUS
<1> QED
  BY <1>1, BoundsAssumption DEF Listed

\* What a line is.
LEMMA LineIs ==
  ASSUME NEW id \in Nat, NEW text \in LineTexts, NEW r,
         r.calc \in {"none", "queued", "done"}, r.of \in Results, r.orig \in BOOLEAN
  PROVE  /\ Line(id, text, r) \in LineRecord
         /\ Line(id, text, r).id = id /\ Line(id, text, r).text = text
         /\ Line(id, text, r).calc = r.calc /\ Line(id, text, r).of = r.of /\ Line(id, text, r).orig = r.orig
BY DEF Line, LineRecord

LEMMA NoResult ==
  Uncalculated.calc = "none" /\ Uncalculated.of = None /\ Uncalculated.of \in Results /\ Uncalculated.orig = FALSE
BY DEF Uncalculated, Results

\* The lines of a list.
LEMMA LineOf ==
  ASSUME NEW lines, NEW top \in Nat, Listed(lines, top), NEW k \in 1..Len(lines)
  PROVE  /\ lines[k] \in LineRecord /\ Proper(lines[k], top)
         /\ lines[k].id \in Nat /\ lines[k].id <= top /\ lines[k].text \in LineTexts
         /\ lines[k].calc \in {"none", "queued", "done"} /\ lines[k].of \in Results /\ lines[k].orig \in BOOLEAN
         /\ lines[k].of # None <=> lines[k].calc = "done"
BY DEF Listed, Proper, LineRecord

LEMMA ProperLine ==
  ASSUME NEW top \in Nat, NEW id \in Nat, id <= top, NEW text \in LineTexts, NEW r,
         r.calc \in {"none", "queued", "done"}, r.of \in Results, r.orig \in BOOLEAN,
         r.of # None <=> r.calc = "done"
  PROVE  Proper(Line(id, text, r), top)
BY LineIs DEF Proper

LEMMA UnansweredLine ==
  ASSUME NEW top \in Nat, NEW id \in Nat, id <= top, NEW text \in LineTexts
  PROVE  Proper(Line(id, text, Uncalculated), top) /\ Line(id, text, Uncalculated).text = text
<1>1. Uncalculated.calc \in {"none", "queued", "done"} /\ Uncalculated.of \in Results
      /\ Uncalculated.orig \in BOOLEAN /\ (Uncalculated.of # None <=> Uncalculated.calc = "done")
  BY NoResult
<1>2. Proper(Line(id, text, Uncalculated), top)
  BY <1>1, ProperLine
<1>3. Line(id, text, Uncalculated).text = text
  BY DEF Line
<1> QED
  BY <1>2, <1>3

\* The n-th of some lines is one of them or the other.
LEMMA NthIs ==
  ASSUME NEW lines, NEW places, places \subseteq 1..Len(lines), Len(lines) \in Nat, NEW n, NEW other
  PROVE  Nth(lines, places, n, other) = other \/ \E j \in places : Nth(lines, places, n, other) = lines[j]
<1> DEFINE at == {j \in places : Cardinality({i \in places : i <= j}) = n}
<1>1. at \in SUBSET Nat
  <2>1. \A j \in places : j \in Nat
    OBVIOUS
  <2> QED
    BY <2>1
<1>2. CASE at = {}
  BY <1>2 DEF Nth
<1>3. CASE at # {}
  <2>1. Min(at) \in at
    <3> HIDE DEF at
    <3> QED
      BY <1>1, <1>3, LeastOf
  <2> QED
    BY <1>3, <2>1 DEF Nth
<1> QED
  BY <1>2, <1>3

-----------------------------------------------------------------------------
(* What the operators on lists of lines return.                            *)

\* Nothing but the ids and the results of two lists differs.
SameTexts(lines, other) ==
  /\ Len(lines) = Len(other)
  /\ \A k \in 1..Len(other) : lines[k].text = other[k].text
SameIds(lines, other) ==
  /\ Len(lines) = Len(other)
  /\ \A k \in 1..Len(other) : lines[k].id = other[k].id
SameResults(lines, other) ==
  /\ Len(lines) = Len(other)
  /\ \A k \in 1..Len(other) :
       lines[k].calc = other[k].calc /\ lines[k].of = other[k].of /\ lines[k].orig = other[k].orig
WithoutResults(lines) == \A k \in 1..Len(lines) : lines[k].calc # "done"

LEMMA NoLineIs == NoLine.id = 0 /\ NoLine.calc = "none"
BY DEF NoLine, Line, Uncalculated

\* A text is parsed into lines that say what it says.
LEMMA ParsedIs ==
  ASSUME NEW top \in Nat, MaxLines <= top, NEW lines, Listed(lines, top),
         NEW text \in Seq(LineTexts), Len(text) <= MaxLines
  PROVE  /\ Listed(Parsed(lines, text), top) /\ Len(Parsed(lines, text)) = Len(text)
         /\ \A k \in 1..Len(text) : Parsed(lines, text)[k].text = text[k]
<1> DEFINE P == Parsed(lines, text)
           x(k) == Existing(lines, text, k)
           r(k) == IF x(k) # NoLine /\ x(k).text = text[k] THEN x(k) ELSE Uncalculated
<1>1. Len(text) \in Nat /\ Len(lines) \in Nat
  BY DEF Listed
<1>2. ASSUME NEW k \in 1..Len(text)
      PROVE  x(k) = NoLine \/ \E j \in 1..Len(lines) : x(k) = lines[j]
  <2> DEFINE same == {j \in 1..Len(lines) : lines[j].text = text[k]}
             sameCode == {j \in 1..Len(lines) : lines[j].text.code = text[k].code}
  <2>1. CASE same # {}
    <3>1. same \in SUBSET Nat
      BY <1>1
    <3>2. Min(same) \in same
      <4> HIDE DEF same
      <4> QED
        BY <2>1, <3>1, LeastOf
    <3> QED
      BY <2>1, <3>2 DEF Existing
  <2>2. CASE same = {}
    <3>1. x(k) = Nth(lines, sameCode, Occurrence(text, k, CodeOf), NoLine)
      BY <2>2 DEF Existing
    <3>2. sameCode \subseteq 1..Len(lines)
      OBVIOUS
    <3> HIDE DEF sameCode, x
    <3> DEFINE n == Occurrence(text, k, CodeOf)
    <3> HIDE DEF n
    <3>3. Nth(lines, sameCode, n, NoLine) = NoLine \/ \E j \in sameCode : Nth(lines, sameCode, n, NoLine) = lines[j]
      BY <1>1, <3>2, NthIs
    <3>4. x(k) = Nth(lines, sameCode, n, NoLine)
      BY <3>1 DEF n
    <3> QED
      BY <3>2, <3>3, <3>4
  <2> QED
    BY <2>1, <2>2
<1>3. P = [k \in 1..Len(text) |-> Line(IF x(k) = NoLine THEN k ELSE x(k).id, text[k], r(k))]
  BY DEF Parsed
<1>4. ASSUME NEW k \in 1..Len(text) PROVE Proper(P[k], top) /\ P[k].text = text[k]
  <2>1. P[k] = Line(IF x(k) = NoLine THEN k ELSE x(k).id, text[k], r(k))
    BY <1>3
  <2>2. text[k] \in LineTexts /\ k \in Nat /\ k <= top
    BY <1>1, BoundsAssumption
  <2>3. CASE x(k) = NoLine
    <3>1. P[k] = Line(k, text[k], Uncalculated)
      BY <2>1, <2>3
    <3> HIDE DEF P, x
    <3> QED
      BY <2>2, <3>1, UnansweredLine
  <2>4. CASE x(k) # NoLine
    <3>1. PICK j \in 1..Len(lines) : x(k) = lines[j]
      BY <1>2, <2>4
    <3> HIDE DEF x
    <3>2. /\ lines[j].id \in Nat /\ lines[j].id <= top
          /\ lines[j].calc \in {"none", "queued", "done"} /\ lines[j].of \in Results /\ lines[j].orig \in BOOLEAN
          /\ lines[j].of # None <=> lines[j].calc = "done"
      BY LineOf
    <3>3. P[k] = Line(lines[j].id, text[k], lines[j]) \/ P[k] = Line(lines[j].id, text[k], Uncalculated)
      BY <2>1, <2>4, <3>1
    <3> HIDE DEF P
    <3>4. CASE P[k] = Line(lines[j].id, text[k], lines[j])
      BY <2>2, <3>2, <3>4, LineIs, ProperLine
    <3>5. CASE P[k] = Line(lines[j].id, text[k], Uncalculated)
      BY <2>2, <3>2, <3>5, UnansweredLine
    <3> QED
      BY <3>3, <3>4, <3>5
  <2> QED
    BY <2>3, <2>4
<1>5. P = [k \in 1..Len(text) |-> P[k]]
  BY <1>3
<1> HIDE DEF P
<1>6. Listed(P, top) /\ Len(P) = Len(text)
  BY <1>1, <1>4, <1>5, ListedOf
<1> QED
  BY <1>4, <1>6 DEF P

LEMMA CounterpartIs ==
  ASSUME NEW saved, NEW top \in Nat, Listed(saved, top), NEW lines, NEW k, NEW n
  PROVE  \/ Counterpart(lines, saved, k, n) = NoLine
         \/ \E j \in 1..Len(saved) : Counterpart(lines, saved, k, n) = saved[j]
<1> DEFINE places == Alike(saved, lines[k])
           other == IF k \in 1..Len(saved) THEN saved[k] ELSE NoLine
<1>1. places \subseteq 1..Len(saved) /\ Len(saved) \in Nat
  BY DEF Alike, Listed
<1>2. Counterpart(lines, saved, k, n) = Nth(saved, places, n, other)
  BY DEF Counterpart
<1>3. other = NoLine \/ \E j \in 1..Len(saved) : other = saved[j]
  OBVIOUS
<1> HIDE DEF places, other
<1>4. Nth(saved, places, n, other) = other \/ \E j \in places : Nth(saved, places, n, other) = saved[j]
  BY <1>1, NthIs
<1> QED
  BY <1>1, <1>2, <1>3, <1>4

\* The ids change, and nothing else.
LEMMA SyncedIs ==
  ASSUME NEW top \in Nat, NEW lines, Listed(lines, top), NEW saved, Listed(saved, top)
  PROVE  /\ Listed(SyncedIds(lines, saved), top)
         /\ SameTexts(SyncedIds(lines, saved), lines) /\ SameResults(SyncedIds(lines, saved), lines)
<1> DEFINE S == SyncedIds(lines, saved)
           c(k) == Counterpart(lines, saved, k, Occurrence(lines, k, SyncKey))
<1>1. Len(lines) \in Nat /\ Len(lines) <= MaxLines
  BY DEF Listed
<1>2. S = [k \in 1..Len(lines) |-> IF c(k) = NoLine THEN lines[k] ELSE [lines[k] EXCEPT !.id = c(k).id]]
  BY DEF SyncedIds
<1>3. ASSUME NEW k \in 1..Len(lines)
      PROVE  /\ Proper(S[k], top) /\ S[k].text = lines[k].text
             /\ S[k].calc = lines[k].calc /\ S[k].of = lines[k].of /\ S[k].orig = lines[k].orig
  <2>1. S[k] = IF c(k) = NoLine THEN lines[k] ELSE [lines[k] EXCEPT !.id = c(k).id]
    BY <1>2
  <2>2. lines[k] \in LineRecord /\ Proper(lines[k], top)
    BY LineOf
  <2>3. CASE c(k) = NoLine
    BY <2>1, <2>2, <2>3
  <2>4. CASE c(k) # NoLine
    <3> DEFINE n == Occurrence(lines, k, SyncKey)
    <3> HIDE DEF n
    <3>1. c(k) = Counterpart(lines, saved, k, n)
      BY DEF n
    <3> HIDE DEF c
    <3>2. PICK j \in 1..Len(saved) : c(k) = saved[j]
      BY <2>4, <3>1, CounterpartIs
    <3>3. saved[j].id \in Nat /\ saved[j].id <= top
      BY LineOf
    <3>4. S[k] = [lines[k] EXCEPT !.id = saved[j].id]
      BY <2>1, <2>4, <3>2
    <3> HIDE DEF S
    <3> QED
      BY <2>2, <3>3, <3>4 DEF Proper, LineRecord
  <2> QED
    BY <2>3, <2>4
<1>4. S = [k \in 1..Len(lines) |-> S[k]]
  BY <1>2
<1> HIDE DEF S
<1>5. Listed(S, top) /\ Len(S) = Len(lines)
  BY <1>1, <1>3, <1>4, ListedOf
<1> QED
  BY <1>3, <1>5 DEF S, SameTexts, SameResults

\* The results of saved lines are taken, and no others.
LEMMA MergedIs ==
  ASSUME NEW top \in Nat, NEW lines, Listed(lines, top), NEW saved, Listed(saved, top)
  PROVE  /\ Listed(Merged(lines, saved), top) /\ SameTexts(Merged(lines, saved), lines)
         /\ \A k \in 1..Len(lines) : Merged(lines, saved)[k].calc \in {"none", "done"}
         /\ WithoutResults(saved) => WithoutResults(Merged(lines, saved))
<1> DEFINE M == Merged(lines, saved)
           named(k) == Named(saved, lines[k].id)
           n(k) == Cardinality(Nameless(lines, k, saved))
           s(k) == IF named(k) # {} THEN saved[Max(named(k))] ELSE Counterpart(lines, saved, k, n(k))
<1>1. Len(lines) \in Nat /\ Len(lines) <= MaxLines /\ Len(saved) \in Nat
  BY DEF Listed
<1>2. M = [k \in 1..Len(lines) |->
             IF s(k).calc = "done" THEN Line(s(k).id, lines[k].text, [s(k) EXCEPT !.orig = TRUE])
             ELSE Line(lines[k].id, lines[k].text, Uncalculated)]
  BY DEF Merged
<1>3. ASSUME NEW k \in 1..Len(lines) PROVE s(k) = NoLine \/ \E j \in 1..Len(saved) : s(k) = saved[j]
  <2>1. CASE named(k) # {}
    <3>1. named(k) \in SUBSET (0..Len(saved)) /\ named(k) \subseteq 1..Len(saved)
      BY <1>1 DEF Named
    <3>2. Max(named(k)) \in named(k)
      <4> HIDE DEF named
      <4> QED
        BY <1>1, <2>1, <3>1, GreatestOf
    <3> QED
      BY <2>1, <3>1, <3>2
  <2>2. CASE named(k) = {}
    <3> HIDE DEF n
    <3> QED
      BY <2>2, CounterpartIs
  <2> QED
    BY <2>1, <2>2
<1>4. ASSUME NEW k \in 1..Len(lines)
      PROVE  /\ Proper(M[k], top) /\ M[k].text = lines[k].text
             /\ M[k].calc \in {"none", "done"} /\ (WithoutResults(saved) => M[k].calc # "done")
  <2>1. M[k] = IF s(k).calc = "done" THEN Line(s(k).id, lines[k].text, [s(k) EXCEPT !.orig = TRUE])
               ELSE Line(lines[k].id, lines[k].text, Uncalculated)
    BY <1>2
  <2>2. lines[k].id \in Nat /\ lines[k].id <= top /\ lines[k].text \in LineTexts
    BY LineOf
  <2> HIDE DEF M, s
  <2>3. CASE s(k).calc = "done"
    <3>1. PICK j \in 1..Len(saved) : s(k) = saved[j]
      BY <1>3, <2>3, NoLineIs
    <3>2. /\ saved[j] \in LineRecord /\ saved[j].id \in Nat /\ saved[j].id <= top
          /\ saved[j].calc = "done" /\ saved[j].of \in Results
          /\ saved[j].of # None <=> saved[j].calc = "done"
      BY <2>3, <3>1, LineOf
    <3> DEFINE result == [saved[j] EXCEPT !.orig = TRUE]
    <3>3. /\ result.calc = "done" /\ result.of = saved[j].of /\ result.orig = TRUE
      BY <3>2 DEF LineRecord
    <3>4. M[k] = Line(saved[j].id, lines[k].text, result)
      BY <2>1, <2>3, <3>1
    <3> HIDE DEF result
    <3>5. result.of \in Results /\ (result.of # None <=> result.calc = "done")
          /\ result.calc \in {"none", "queued", "done"} /\ result.orig \in BOOLEAN
      BY <3>2, <3>3
    <3>6. Proper(Line(saved[j].id, lines[k].text, result), top)
      BY <2>2, <3>2, <3>5, ProperLine
    <3>7. /\ Line(saved[j].id, lines[k].text, result).text = lines[k].text
          /\ Line(saved[j].id, lines[k].text, result).calc = result.calc
      BY <2>2, <3>2, <3>5, LineIs
    <3>8. ~WithoutResults(saved)
      BY <3>2 DEF WithoutResults
    <3> QED
      BY <3>3, <3>4, <3>6, <3>7, <3>8
  <2>4. CASE s(k).calc # "done"
    <3>1. M[k] = Line(lines[k].id, lines[k].text, Uncalculated)
      BY <2>1, <2>4
    <3>2. Proper(M[k], top)
      BY <2>2, <3>1, UnansweredLine
    <3>3. M[k].text = lines[k].text /\ M[k].calc = "none"
      BY <3>1 DEF Line, Uncalculated
    <3> QED
      BY <3>2, <3>3
  <2> QED
    BY <2>3, <2>4
<1>5. M = [k \in 1..Len(lines) |-> M[k]]
  BY <1>2
<1> HIDE DEF M
<1>6. Listed(M, top) /\ Len(M) = Len(lines)
  BY <1>1, <1>4, <1>5, ListedOf
<1> QED
  BY <1>4, <1>6 DEF M, SameTexts, WithoutResults
LEMMA ClearedIs ==
  ASSUME NEW top \in Nat, NEW lines, Listed(lines, top)
  PROVE  /\ Listed(Cleared(lines), top)
         /\ SameTexts(Cleared(lines), lines) /\ SameIds(Cleared(lines), lines)
         /\ \A k \in 1..Len(lines) : /\ Cleared(lines)[k].calc = "none" /\ Cleared(lines)[k].of = None
                                     /\ Cleared(lines)[k].orig = FALSE
<1> DEFINE C == Cleared(lines)
<1>1. Len(lines) \in Nat /\ Len(lines) <= MaxLines
  BY DEF Listed
<1>2. C = [k \in 1..Len(lines) |-> Line(lines[k].id, lines[k].text, Uncalculated)]
  BY DEF Cleared
<1>3. ASSUME NEW k \in 1..Len(lines)
      PROVE  /\ Proper(C[k], top) /\ C[k].text = lines[k].text /\ C[k].id = lines[k].id
             /\ C[k].calc = "none" /\ C[k].of = None /\ C[k].orig = FALSE
  <2>1. C[k] = Line(lines[k].id, lines[k].text, Uncalculated)
    BY <1>2
  <2>2. lines[k].id \in Nat /\ lines[k].id <= top /\ lines[k].text \in LineTexts
    BY LineOf
  <2> HIDE DEF C
  <2>3. Proper(C[k], top)
    BY <2>1, <2>2, UnansweredLine
  <2> QED
    BY <2>1, <2>3 DEF Line, Uncalculated
<1>4. C = [k \in 1..Len(lines) |-> C[k]]
  BY <1>2
<1> HIDE DEF C
<1>5. Listed(C, top) /\ Len(C) = Len(lines)
  BY <1>1, <1>3, <1>4, ListedOf
<1> QED
  BY <1>3, <1>5 DEF C, SameTexts, SameIds

LEMMA QueuedIs ==
  ASSUME NEW top \in Nat, NEW lines, Listed(lines, top)
  PROVE  /\ Listed(Queued(lines), top)
         /\ SameTexts(Queued(lines), lines) /\ SameIds(Queued(lines), lines)
         /\ \A k \in 1..Len(lines) : Queued(lines)[k].of = lines[k].of
<1> DEFINE C == Queued(lines)
           r == [Uncalculated EXCEPT !.calc = "queued"]
<1>1. Len(lines) \in Nat /\ Len(lines) <= MaxLines
  BY DEF Listed
<1>2. C = [k \in 1..Len(lines) |-> IF lines[k].calc = "done" THEN lines[k] ELSE Line(lines[k].id, lines[k].text, r)]
  BY DEF Queued
<1>3. /\ r.calc = "queued" /\ r.of = None /\ r.orig = FALSE
      /\ r.of \in Results
  BY DEF Uncalculated, Results
<1>4. ASSUME NEW k \in 1..Len(lines)
      PROVE  /\ Proper(C[k], top) /\ C[k].text = lines[k].text /\ C[k].id = lines[k].id
             /\ C[k].of = lines[k].of
  <2>1. C[k] = IF lines[k].calc = "done" THEN lines[k] ELSE Line(lines[k].id, lines[k].text, r)
    BY <1>2
  <2>2. /\ Proper(lines[k], top) /\ lines[k].id \in Nat /\ lines[k].id <= top /\ lines[k].text \in LineTexts
        /\ lines[k].of # None <=> lines[k].calc = "done"
    BY LineOf
  <2> HIDE DEF C, r
  <2>3. CASE lines[k].calc = "done"
    BY <2>1, <2>2, <2>3
  <2>4. CASE lines[k].calc # "done"
    <3>1. C[k] = Line(lines[k].id, lines[k].text, r)
      BY <2>1, <2>4
    <3>2. r.calc \in {"none", "queued", "done"} /\ r.orig \in BOOLEAN /\ (r.of # None <=> r.calc = "done")
      BY <1>3
    <3>3. Proper(C[k], top)
      BY <1>3, <2>2, <3>1, <3>2, ProperLine
    <3>4. C[k].text = lines[k].text /\ C[k].id = lines[k].id /\ C[k].of = None
      BY <1>3, <3>1 DEF Line
    <3> QED
      BY <2>2, <2>4, <3>3, <3>4
  <2> QED
    BY <2>3, <2>4
<1>5. C = [k \in 1..Len(lines) |-> C[k]]
  BY <1>2
<1> HIDE DEF C
<1>6. Listed(C, top) /\ Len(C) = Len(lines)
  BY <1>1, <1>4, <1>5, ListedOf
<1> QED
  BY <1>4, <1>6 DEF C, SameTexts, SameIds

\* Names and totals are written; the contents, ids and results stay.
LEMMA WrittenIs ==
  ASSUME NEW top \in Nat, NEW lines, Listed(lines, top)
  PROVE  /\ Listed(Written(lines), top) /\ Len(Written(lines)) = Len(lines)
         /\ SameIds(Written(lines), lines) /\ SameResults(Written(lines), lines)
         /\ \A k \in 1..Len(lines) : Content(Written(lines)[k].text) = Content(lines[k].text)
<1> DEFINE C == Written(lines)
<1>1. Len(lines) \in Nat /\ Len(lines) <= MaxLines
  BY DEF Listed
<1>2. C = [k \in 1..Len(lines) |-> [lines[k] EXCEPT !.text.full = @ \/ lines[k].calc = "done"]]
  BY DEF Written
<1>3. ASSUME NEW k \in 1..Len(lines)
      PROVE  /\ Proper(C[k], top) /\ Content(C[k].text) = Content(lines[k].text) /\ C[k].id = lines[k].id
             /\ C[k].calc = lines[k].calc /\ C[k].of = lines[k].of /\ C[k].orig = lines[k].orig
  <2>1. C[k] = [lines[k] EXCEPT !.text = [lines[k].text EXCEPT !.full = lines[k].text.full \/ lines[k].calc = "done"]]
    BY <1>2
  <2>2. lines[k] \in LineRecord /\ Proper(lines[k], top) /\ lines[k].text \in LineTexts
    BY LineOf
  <2> DEFINE text == [lines[k].text EXCEPT !.full = lines[k].text.full \/ lines[k].calc = "done"]
  <2>3. text \in LineTexts /\ text.code = lines[k].text.code /\ text.volume = lines[k].text.volume
    BY <2>2 DEF LineTexts
  <2>4. C[k] = [lines[k] EXCEPT !.text = text]
    BY <2>1
  <2> HIDE DEF C, text
  <2>5. C[k] \in LineRecord /\ C[k].text = text /\ C[k].id = lines[k].id /\ C[k].calc = lines[k].calc
        /\ C[k].of = lines[k].of /\ C[k].orig = lines[k].orig
    BY <2>2, <2>3, <2>4 DEF LineRecord
  <2> QED
    BY <2>2, <2>3, <2>5 DEF Proper, Content
<1>4. C = [k \in 1..Len(lines) |-> C[k]]
  BY <1>2
<1> HIDE DEF C
<1>5. Listed(C, top) /\ Len(C) = Len(lines)
  BY <1>1, <1>3, <1>4, ListedOf
<1> QED
  BY <1>3, <1>5 DEF C, SameResults, SameIds

\* A stored line has the result of the old line with its id and its content, if there is one.
LEMMA KeptIs ==
  ASSUME NEW top \in Nat, NEW lines, Listed(lines, top), NEW old, Listed(old, top)
  PROVE  /\ Listed(Kept(lines, old), top)
         /\ SameTexts(Kept(lines, old), lines) /\ SameIds(Kept(lines, old), lines)
         /\ \A k \in 1..Len(lines) :
              \/ Kept(lines, old)[k].calc = "none"
              \/ /\ Kept(lines, old)[k].calc = "done"
                 /\ \E j \in Done(old) : /\ old[j].id = lines[k].id
                                         /\ Content(old[j].text) = Content(lines[k].text)
                                         /\ Kept(lines, old)[k].of = old[j].of
<1> DEFINE C == Kept(lines, old)
           same(k) == {j \in Done(old) : old[j].id = lines[k].id /\ Content(old[j].text) = Content(lines[k].text)}
           r(k) == IF same(k) = {} THEN Uncalculated ELSE [old[Min(same(k))] EXCEPT !.orig = FALSE]
           Answer(k) == \E j \in Done(old) : /\ old[j].id = lines[k].id
                                             /\ Content(old[j].text) = Content(lines[k].text)
                                             /\ C[k].of = old[j].of
<1>1. Len(lines) \in Nat /\ Len(lines) <= MaxLines /\ Len(old) \in Nat
  BY DEF Listed
<1>2. C = [k \in 1..Len(lines) |-> Line(lines[k].id, lines[k].text, r(k))]
  BY DEF Kept
<1>3. ASSUME NEW k \in 1..Len(lines)
      PROVE  /\ Proper(C[k], top) /\ C[k].text = lines[k].text /\ C[k].id = lines[k].id
             /\ C[k].calc = "none" \/ (C[k].calc = "done" /\ Answer(k))
  <2>1. C[k] = Line(lines[k].id, lines[k].text, r(k))
    BY <1>2
  <2>2. lines[k].id \in Nat /\ lines[k].id <= top /\ lines[k].text \in LineTexts
    BY LineOf
  <2>3. CASE same(k) = {}
    <3>1. C[k] = Line(lines[k].id, lines[k].text, Uncalculated)
      BY <2>1, <2>3
    <3>2. C[k].text = lines[k].text /\ C[k].id = lines[k].id /\ C[k].calc = "none"
      BY <3>1 DEF Line, Uncalculated
    <3>3. Proper(C[k], top)
      <4> HIDE DEF C
      <4> QED
        BY <2>2, <3>1, UnansweredLine
    <3> QED
      BY <3>2, <3>3
  <2>4. CASE same(k) # {}
    <3> DEFINE j == Min(same(k))
    <3>1. same(k) \in SUBSET Nat
      BY <1>1 DEF Done
    <3>2. j \in same(k)
      <4> HIDE DEF same
      <4> QED
        BY <2>4, <3>1, LeastOf
    <3>3. C[k] = Line(lines[k].id, lines[k].text, [old[j] EXCEPT !.orig = FALSE])
      BY <2>1, <2>4
    <3>4. j \in Done(old) /\ j \in 1..Len(old) /\ old[j].calc = "done"
          /\ old[j].id = lines[k].id /\ Content(old[j].text) = Content(lines[k].text)
      BY <3>2 DEF Done
    <3> HIDE DEF j, same, r
    <3>5. /\ old[j] \in LineRecord /\ old[j].of \in Results
          /\ old[j].of # None <=> old[j].calc = "done"
      BY <3>4, LineOf
    <3> DEFINE result == [old[j] EXCEPT !.orig = FALSE]
    <3>6. result.calc = "done" /\ result.of = old[j].of /\ result.orig = FALSE
      BY <3>4, <3>5 DEF LineRecord
    <3>7. C[k] = Line(lines[k].id, lines[k].text, result)
      BY <3>3
    <3> HIDE DEF result
    <3>8. result.calc \in {"none", "queued", "done"} /\ result.of \in Results /\ result.orig \in BOOLEAN
          /\ (result.of # None <=> result.calc = "done")
      BY <3>4, <3>5, <3>6
    <3>9. C[k].text = lines[k].text /\ C[k].id = lines[k].id /\ C[k].calc = "done" /\ C[k].of = old[j].of
      BY <3>6, <3>7 DEF Line
    <3>10. Proper(C[k], top)
      <4> HIDE DEF C
      <4> QED
        BY <2>2, <3>7, <3>8, ProperLine
    <3> QED
      BY <3>4, <3>9, <3>10
  <2> QED
    BY <2>3, <2>4
<1>4. C = [k \in 1..Len(lines) |-> C[k]]
  BY <1>2
<1> HIDE DEF C
<1>5. Listed(C, top) /\ Len(C) = Len(lines)
  BY <1>1, <1>3, <1>4, ListedOf
<1> QED
  BY <1>3, <1>5 DEF C, SameTexts, SameIds
\* Every line that repeats an id gets one of its own, above all others.
LEMMA UniqueIs ==
  ASSUME NEW top \in Nat, NEW lines, Listed(lines, top)
  PROVE  /\ Cardinality(Repeating(lines)) \in Nat
         /\ Listed(Unique(lines, top), top + Cardinality(Repeating(lines)))
         /\ Injective(Unique(lines, top))
         /\ SameTexts(Unique(lines, top), lines)
         /\ Injective(lines) => SameIds(Unique(lines, top), lines)
<1> DEFINE U == Unique(lines, top)
           R == Repeating(lines)
           upTo(k) == {j \in R : j <= k}
           c(k) == Cardinality(upTo(k))
<1>1. Len(lines) \in Nat /\ Len(lines) <= MaxLines
  BY DEF Listed
<1>2. IsFiniteSet(R) /\ Cardinality(R) \in Nat
  <2>1. IsFiniteSet(1..Len(lines))
    BY <1>1, FS_Interval
  <2>2. R \subseteq 1..Len(lines)
    BY DEF Repeating
  <2> HIDE DEF R
  <2>3. IsFiniteSet(R)
    BY <2>1, <2>2, FS_Subset
  <2> QED
    BY <2>3, FS_CardinalityType
<1>3. ASSUME NEW k \in R PROVE k \in 1..Len(lines) /\ c(k) \in Nat /\ c(k) >= 1 /\ c(k) <= Cardinality(R)
  <2>1. k \in 1..Len(lines)
    BY DEF Repeating
  <2>2. upTo(k) \subseteq R /\ k \in upTo(k)
    BY <1>1, <2>1
  <2> HIDE DEF upTo, R
  <2>3. IsFiniteSet(upTo(k)) /\ c(k) <= Cardinality(R)
    BY <1>2, <2>2, FS_Subset
  <2>4. c(k) \in Nat
    BY <2>3, FS_CardinalityType
  <2>5. c(k) # 0
    BY <2>2, <2>3, FS_EmptySet
  <2> HIDE DEF c
  <2> QED
    BY <2>1, <2>3, <2>4, <2>5
<1>4. ASSUME NEW j \in R, NEW k \in R, c(j) = c(k) PROVE ~(j < k)
  <2> SUFFICES ASSUME j < k PROVE FALSE
    OBVIOUS
  <2>1. j \in 1..Len(lines) /\ k \in 1..Len(lines)
    BY <1>3
  <2>2. upTo(j) \subseteq upTo(k) /\ k \in upTo(k) /\ ~(k \in upTo(j)) /\ upTo(k) \subseteq R
    <3>1. \A i \in R : i \in Nat
      BY <1>1 DEF Repeating
    <3>2. j \in Nat /\ k \in Nat /\ k \in R
      BY <3>1
    <3> HIDE DEF R
    <3>3. \A i \in R : i <= j => i <= k
      BY <3>1, <3>2
    <3>4. k <= k /\ ~(k <= j)
      BY <3>2
    <3> QED
      BY <3>2, <3>3, <3>4
  <2> HIDE DEF upTo, R
  <2>3. IsFiniteSet(upTo(k))
    BY <1>2, <2>2, FS_Subset
  <2>4. upTo(j) = upTo(k)
    BY <1>4, <2>2, <2>3, FS_Subset
  <2> QED
    BY <2>2, <2>4
<1>5. U = [k \in 1..Len(lines) |-> IF Repeats(lines, k) THEN [lines[k] EXCEPT !.id = top + c(k)] ELSE lines[k]]
  BY DEF Unique
<1> HIDE DEF c
<1>6. ASSUME NEW k \in 1..Len(lines)
      PROVE  /\ Proper(U[k], top + Cardinality(R)) /\ U[k].text = lines[k].text
             /\ k \in R => U[k].id = top + c(k)
             /\ ~(k \in R) => U[k].id = lines[k].id
  <2>1. U[k] = IF Repeats(lines, k) THEN [lines[k] EXCEPT !.id = top + c(k)] ELSE lines[k]
    BY <1>5
  <2>2. lines[k] \in LineRecord /\ Proper(lines[k], top) /\ lines[k].id \in Nat /\ lines[k].id <= top
    BY LineOf
  <2>3. k \in R <=> Repeats(lines, k)
    BY DEF Repeating
  <2> HIDE DEF U, R
  <2>4. CASE Repeats(lines, k)
    <3>1. c(k) \in Nat /\ c(k) >= 1 /\ c(k) <= Cardinality(R)
      BY <1>3, <2>3, <2>4
    <3>2. U[k] = [lines[k] EXCEPT !.id = top + c(k)]
      BY <2>1, <2>4
    <3>3. top + c(k) \in Nat /\ top + c(k) <= top + Cardinality(R)
      BY <1>2, <3>1
    <3> DEFINE new == top + c(k)
    <3>4. new \in Nat /\ new <= top + Cardinality(R) /\ U[k] = [lines[k] EXCEPT !.id = new]
      BY <3>2, <3>3
    <3> HIDE DEF new
    <3>5. U[k] \in LineRecord /\ U[k].id = new /\ U[k].text = lines[k].text /\ U[k].of = lines[k].of
          /\ U[k].calc = lines[k].calc
      BY <2>2, <3>4 DEF LineRecord
    <3>6. U[k].id = top + c(k)
      BY <3>5 DEF new
    <3> QED
      BY <2>2, <2>3, <2>4, <3>4, <3>5, <3>6 DEF Proper
  <2>5. CASE ~Repeats(lines, k)
    <3>1. lines[k].id <= top + Cardinality(R)
      BY <1>2, <2>2
    <3> QED
      BY <2>1, <2>2, <2>3, <2>5, <3>1 DEF Proper
  <2> QED
    BY <2>4, <2>5
<1>7. U = [k \in 1..Len(lines) |-> U[k]]
  BY <1>5
<1> HIDE DEF U
<1>8. Listed(U, top + Cardinality(R)) /\ Len(U) = Len(lines)
  BY <1>1, <1>6, <1>7, ListedOf
<1>9. Injective(U)
  <2> SUFFICES ASSUME NEW j \in 1..Len(lines), NEW k \in 1..Len(lines), U[j].id = U[k].id, j < k PROVE FALSE
    BY <1>1, <1>8 DEF Injective
  <2>1. lines[j].id <= top /\ lines[k].id <= top /\ lines[j].id \in Nat /\ lines[k].id \in Nat
    BY LineOf
  <2>2. ~(k \in R) => lines[j].id # lines[k].id
    BY <1>1 DEF Repeating, Repeats
  <2>3. CASE j \in R /\ k \in R
    <3>1. c(j) = c(k)
      BY <1>3, <1>6, <2>3
    <3> QED
      BY <1>4, <2>3, <3>1
  <2>4. CASE j \in R /\ ~(k \in R)
    BY <1>3, <1>6, <2>1, <2>4
  <2>5. CASE ~(j \in R) /\ k \in R
    BY <1>3, <1>6, <2>1, <2>5
  <2>6. CASE ~(j \in R) /\ ~(k \in R)
    BY <1>6, <2>2, <2>6
  <2> QED
    BY <2>3, <2>4, <2>5, <2>6
<1>10. SameTexts(U, lines)
  BY <1>6, <1>8 DEF SameTexts
<1>11. Injective(lines) => SameIds(U, lines)
  <2> SUFFICES ASSUME Injective(lines), NEW k \in 1..Len(lines) PROVE ~(k \in R)
    BY <1>6, <1>8 DEF SameIds
  <2> QED
    BY <1>1 DEF Repeating, Repeats, Injective
<1> QED
  BY <1>2, <1>8, <1>9, <1>10, <1>11 DEF U

\* The rows of the text after a save are the lines of the answer.
LEMMA AnsweredIs ==
  ASSUME NEW top \in Nat, NEW lines, Listed(lines, top), NEW saved, Listed(saved, top)
  PROVE  Listed(Answered(lines, saved), top) /\ SameTexts(Answered(lines, saved), saved)
<1> DEFINE A == Answered(lines, saved)
           named(k) == Named(lines, saved[k].id)
           n(k) == Cardinality(Nameless(saved, k, lines))
           x(k) == IF named(k) # {} THEN lines[Max(named(k))] ELSE Nth(lines, Alike(lines, saved[k]), n(k), NoLine)
<1>1. Len(lines) \in Nat /\ Len(saved) \in Nat /\ Len(saved) <= MaxLines
  BY DEF Listed
<1>2. A = [k \in 1..Len(saved) |-> Line(saved[k].id, saved[k].text, x(k))]
  BY DEF Answered
<1>3. ASSUME NEW k \in 1..Len(saved) PROVE x(k) = NoLine \/ \E j \in 1..Len(lines) : x(k) = lines[j]
  <2>1. CASE named(k) # {}
    <3>1. named(k) \in SUBSET (0..Len(lines)) /\ named(k) \subseteq 1..Len(lines)
      BY <1>1 DEF Named
    <3>2. Max(named(k)) \in named(k)
      <4> HIDE DEF named
      <4> QED
        BY <1>1, <2>1, <3>1, GreatestOf
    <3> QED
      BY <2>1, <3>1, <3>2
  <2>2. CASE named(k) = {}
    <3> DEFINE places == Alike(lines, saved[k])
    <3>1. places \subseteq 1..Len(lines)
      BY DEF Alike
    <3>2. x(k) = Nth(lines, places, n(k), NoLine)
      BY <2>2
    <3> HIDE DEF n, places, x
    <3>3. Nth(lines, places, n(k), NoLine) = NoLine \/ \E j \in places : Nth(lines, places, n(k), NoLine) = lines[j]
      BY <1>1, <3>1, NthIs
    <3> QED
      BY <3>1, <3>2, <3>3
  <2> QED
    BY <2>1, <2>2
<1>4. ASSUME NEW k \in 1..Len(saved) PROVE Proper(A[k], top) /\ A[k].text = saved[k].text
  <2>1. A[k] = Line(saved[k].id, saved[k].text, x(k))
    BY <1>2
  <2>2. saved[k].id \in Nat /\ saved[k].id <= top /\ saved[k].text \in LineTexts
    BY LineOf
  <2>3. /\ x(k).calc \in {"none", "queued", "done"} /\ x(k).of \in Results /\ x(k).orig \in BOOLEAN
        /\ x(k).of # None <=> x(k).calc = "done"
    <3> HIDE DEF x
    <3>1. CASE x(k) = NoLine
      BY <3>1 DEF NoLine, Line, Uncalculated, Results
    <3>2. CASE x(k) # NoLine
      BY <1>3, <3>2, LineOf
    <3> QED
      BY <3>1, <3>2
  <2> HIDE DEF A, x
  <2>4. Proper(A[k], top)
    BY <2>1, <2>2, <2>3, ProperLine
  <2> QED
    BY <2>1, <2>4 DEF Line
<1>5. A = [k \in 1..Len(saved) |-> A[k]]
  BY <1>2
<1> HIDE DEF A
<1>6. Listed(A, top) /\ Len(A) = Len(saved)
  BY <1>1, <1>4, <1>5, ListedOf
<1> QED
  BY <1>4, <1>6 DEF A, SameTexts
-----------------------------------------------------------------------------
(* The results that come to the rows, one after another.                   *)

\* The recursive definition has a value: the least place up to which there were none would have
\* one before it.
LEMMA ApplicationsAre ==
  ASSUME NEW lines, NEW statuses, Len(statuses) \in Nat, NEW places
  PROVE  /\ Applications(lines, statuses, places)[0] = [lines |-> lines, used |-> {}]
         /\ \A i \in 1..Len(statuses) :
              Applications(lines, statuses, places)[i] =
                IF i \in places THEN Application(Applications(lines, statuses, places)[i - 1], statuses[i])
                ELSE Applications(lines, statuses, places)[i - 1]
<1> DEFINE n == Len(statuses)
           first == [lines |-> lines, used |-> {}]
           next(x, i) == IF i \in places THEN Application(x, statuses[i]) ELSE x
           Upto(m) == \E f : f = [i \in 0..m |-> IF i = 0 THEN first ELSE next(f[i - 1], i)]
           A == Applications(lines, statuses, places)
<1>1. A = CHOOSE f : f = [i \in 0..n |-> IF i = 0 THEN first ELSE next(f[i - 1], i)]
  BY DEF Applications
<1> HIDE DEF first, next, A
<1>2. Upto(n)
  <2> SUFFICES ASSUME ~Upto(n) PROVE FALSE
    OBVIOUS
  <2> DEFINE T == {m \in 0..n : ~Upto(m)}
             m == Min(T)
  <2>1. T \in SUBSET Nat /\ n \in T
    BY SMT
  <2> HIDE DEF T
  <2>2. m \in T /\ \A y \in T : m <= y
    BY <2>1, LeastOf
  <2> HIDE DEF m
  <2>3. m \in Nat /\ m <= n /\ ~Upto(m)
    BY <2>2 DEF T
  <2>4. CASE m = 0
    <3> DEFINE f == [i \in 0..0 |-> first]
    <3>1. f = [i \in 0..0 |-> IF i = 0 THEN first ELSE next(f[i - 1], i)]
      BY SMT
    <3> QED
      BY <2>3, <2>4, <3>1
  <2>5. CASE m # 0
    <3>1. m - 1 \in Nat /\ m - 1 <= n /\ ~(m - 1 \in T)
      <4>1. m - 1 \in Nat /\ m - 1 <= n /\ ~(m <= m - 1)
        BY <2>3, <2>5
      <4> QED
        BY <2>2, <4>1
    <3>2. PICK f : f = [i \in 0..(m - 1) |-> IF i = 0 THEN first ELSE next(f[i - 1], i)]
      BY <3>1 DEF T
    <3> DEFINE g == [i \in 0..m |-> IF i = m THEN next(f[m - 1], m) ELSE f[i]]
    <3>3. ASSUME NEW i \in 0..m PROVE g[i] = IF i = 0 THEN first ELSE next(g[i - 1], i)
      <4>1. CASE i = 0
        <5>1. i \in 0..(m - 1) /\ i # m
          BY <2>3, <2>5, <4>1
        <5> QED
          BY <3>2, <4>1, <5>1
      <4>2. CASE i # 0
        <5>1. i - 1 \in 0..m /\ i - 1 # m
          BY <2>3, <4>2
        <5>2. g[i - 1] = f[i - 1]
          BY <5>1
        <5>3. CASE i = m
          BY <4>2, <5>2, <5>3
        <5>4. CASE i # m
          <6>1. i \in 0..(m - 1)
            BY <2>3, <5>4
          <6>2. f[i] = next(f[i - 1], i)
            BY <3>2, <4>2, <6>1
          <6>3. g[i] = f[i]
            BY <5>4
          <6> QED
            BY <4>2, <5>2, <6>2, <6>3
        <5> QED
          BY <5>3, <5>4
      <4> QED
        BY <4>1, <4>2
    <3>4. g = [i \in 0..m |-> g[i]]
      OBVIOUS
    <3> HIDE DEF g
    <3>5. g = [i \in 0..m |-> IF i = 0 THEN first ELSE next(g[i - 1], i)]
      BY <3>3, <3>4
    <3> QED
      BY <2>3, <3>5
  <2> QED
    BY <2>4, <2>5
<1>3. A = [i \in 0..n |-> IF i = 0 THEN first ELSE next(A[i - 1], i)]
  BY <1>1, <1>2
<1>4. A[0] = first
  <2>1. 0 \in 0..n
    OBVIOUS
  <2> QED
    BY <1>3, <2>1
<1>5. ASSUME NEW i \in 1..n PROVE A[i] = next(A[i - 1], i)
  <2>1. i \in 0..n /\ i # 0
    OBVIOUS
  <2> QED
    BY <1>3, <2>1
<1> QED
  BY <1>4, <1>5 DEF A, first, next
LEMMA AddresseeIs ==
  ASSUME NEW lines, Len(lines) \in Nat, NEW s, NEW used
  PROVE  \/ Addressee(lines, s, used) = 0
         \/ /\ Addressee(lines, s, used) \in 1..Len(lines)
            /\ \/ lines[Addressee(lines, s, used)].id = s.id
               \/ Content(lines[Addressee(lines, s, used)].text) = Content(s.text)
<1> DEFINE byId == {j \in 1..Len(lines) : lines[j].id = s.id /\ s.id \notin used}
           alike == {j \in 1..Len(lines) : lines[j].id \notin used /\ Content(lines[j].text) = Content(s.text)}
           to == Addressee(lines, s, used)
<1>1. to = IF byId # {} THEN Max(byId) ELSE IF alike # {} THEN Min(alike) ELSE 0
  BY DEF Addressee
<1>2. byId \in SUBSET (0..Len(lines)) /\ alike \in SUBSET Nat
  OBVIOUS
<1>3. CASE byId # {}
  <2>1. Max(byId) \in byId
    <3> HIDE DEF byId
    <3> QED
      BY <1>2, <1>3, GreatestOf
  <2> QED
    BY <1>1, <1>3, <2>1
<1>4. CASE byId = {} /\ alike # {}
  <2>1. Min(alike) \in alike
    <3> HIDE DEF alike
    <3> QED
      BY <1>2, <1>4, LeastOf
  <2> QED
    BY <1>1, <1>4, <2>1
<1>5. CASE byId = {} /\ alike = {}
  BY <1>1, <1>5
<1> QED
  BY <1>3, <1>4, <1>5

\* One result changes one row, which has the id or the content of the result.
LEMMA ApplicationIs ==
  ASSUME NEW top \in Nat, NEW was, Listed(was.lines, top), NEW s, Proper(s, top)
  PROVE  /\ Listed(Application(was, s).lines, top)
         /\ SameTexts(Application(was, s).lines, was.lines) /\ SameIds(Application(was, s).lines, was.lines)
         /\ \A k \in 1..Len(was.lines) :
              \/ Application(was, s).lines[k] = was.lines[k]
              \/ /\ Application(was, s).lines[k].of = s.of
                 /\ was.lines[k].id = s.id \/ Content(was.lines[k].text) = Content(s.text)
<1> DEFINE L == was.lines
           to == Addressee(L, s, was.used)
           result == [s EXCEPT !.orig = s.calc = "done"]
           N == Application(was, s).lines
<1>1. Len(L) \in Nat /\ Len(L) <= MaxLines /\ L \in Seq(LineRecord)
  BY DEF Listed
<1>2. to = 0 \/ (to \in 1..Len(L) /\ (L[to].id = s.id \/ Content(L[to].text) = Content(s.text)))
  <2> HIDE DEF L
  <2> QED
    BY <1>1, AddresseeIs
<1>3. CASE to = 0
  <2>1. Application(was, s) = was
    BY <1>3 DEF Application
  <2> QED
    BY <1>1, <2>1 DEF SameTexts, SameIds
<1>4. CASE to # 0
  <2>1. Application(was, s) = [lines |-> [L EXCEPT ![to] = Line(L[to].id, L[to].text, result)],
                               used |-> was.used \cup {L[to].id}]
    BY <1>4 DEF Application
  <2>2. N = [L EXCEPT ![to] = Line(L[to].id, L[to].text, result)]
    BY <2>1
  <2>3. to \in 1..Len(L)
    BY <1>2, <1>4
  <2>4. /\ result.calc \in {"none", "queued", "done"} /\ result.of \in Results /\ result.orig \in BOOLEAN
        /\ result.of # None <=> result.calc = "done"
        /\ result.of = s.of
    BY DEF Proper, LineRecord
  <2> HIDE DEF N, result, to, L
  <2>5. L[to].id \in Nat /\ L[to].id <= top /\ L[to].text \in LineTexts
    <3>1. Listed(L, top)
      BY DEF L
    <3> QED
      BY <2>3, <3>1, LineOf
  <2> DEFINE x == Line(L[to].id, L[to].text, result)
  <2>6. Proper(x, top)
    BY <2>4, <2>5, ProperLine
  <2>7. x.id = L[to].id /\ x.text = L[to].text /\ x.of = s.of
    BY <2>4 DEF Line
  <2>8. N = [L EXCEPT ![to] = x]
    BY <2>2
  <2> HIDE DEF x
  <2>9. x \in LineRecord
    BY <2>6 DEF Proper
  <2>10. N \in Seq(LineRecord) /\ Len(N) = Len(L) /\ \A k \in 1..Len(L) : N[k] = IF k = to THEN x ELSE L[k]
    BY <1>1, <2>3, <2>8, <2>9
  <2>11. Listed(N, top)
    <3>1. \A k \in 1..Len(L) : Proper(L[k], top)
      BY DEF L, Listed
    <3> QED
      BY <1>1, <2>6, <2>10, <3>1 DEF Listed
  <2>12. SameTexts(N, L) /\ SameIds(N, L)
    BY <2>7, <2>10 DEF SameTexts, SameIds
  <2>13. \A k \in 1..Len(L) : N[k] = L[k] \/ (N[k].of = s.of /\ (L[k].id = s.id \/ Content(L[k].text) = Content(s.text)))
    BY <1>2, <1>4, <2>7, <2>10
  <2> QED
    BY <2>11, <2>12, <2>13 DEF N, L
<1> QED
  BY <1>3, <1>4

\* Neither the ids nor the texts change, and every result is one the row had or that of a status
\* with the id or the content of the row.
LEMMA AppliedIs ==
  ASSUME NEW top \in Nat, NEW lines, Listed(lines, top), NEW statuses, Listed(statuses, top), NEW places
  PROVE  /\ Listed(Applied(lines, statuses, places), top)
         /\ SameTexts(Applied(lines, statuses, places), lines) /\ SameIds(Applied(lines, statuses, places), lines)
         /\ \A k \in 1..Len(lines) :
              \/ Applied(lines, statuses, places)[k].of = lines[k].of
              \/ \E i \in places \cap (1..Len(statuses)) :
                   /\ Applied(lines, statuses, places)[k].of = statuses[i].of
                   /\ lines[k].id = statuses[i].id \/ Content(lines[k].text) = Content(statuses[i].text)
<1> DEFINE n == Len(statuses)
           A == Applications(lines, statuses, places)
           From(x, k) == \/ x.of = lines[k].of
                         \/ \E i \in places \cap (1..n) :
                              /\ x.of = statuses[i].of
                              /\ lines[k].id = statuses[i].id \/ Content(lines[k].text) = Content(statuses[i].text)
           Good(L) == /\ Listed(L, top) /\ SameTexts(L, lines) /\ SameIds(L, lines)
                      /\ \A k \in 1..Len(lines) : From(L[k], k)
<1>1. n \in Nat /\ Len(lines) \in Nat
  BY DEF Listed
<1>2. /\ A[0] = [lines |-> lines, used |-> {}]
      /\ \A i \in 1..n : A[i] = IF i \in places THEN Application(A[i - 1], statuses[i]) ELSE A[i - 1]
  BY <1>1, ApplicationsAre
<1> HIDE DEF A
<1>3. Good(A[0].lines)
  <2>1. A[0].lines = lines
    BY <1>2
  <2> QED
    BY <1>1, <2>1 DEF SameTexts, SameIds
<1>4. ASSUME NEW i \in 1..n, Good(A[i - 1].lines) PROVE Good(A[i].lines)
  <2> DEFINE was == A[i - 1]
             s == statuses[i]
             now == Application(was, s)
  <2>1. CASE i \in places
    <3>1. A[i] = now
      BY <1>2, <2>1
    <3>2. Proper(s, top)
      BY LineOf
    <3>3. Listed(was.lines, top) /\ SameTexts(was.lines, lines) /\ SameIds(was.lines, lines)
      BY <1>4
    <3> HIDE DEF was, s
    <3>4. /\ Listed(now.lines, top)
          /\ SameTexts(now.lines, was.lines) /\ SameIds(now.lines, was.lines)
          /\ \A k \in 1..Len(was.lines) :
               \/ now.lines[k] = was.lines[k]
               \/ /\ now.lines[k].of = s.of
                  /\ was.lines[k].id = s.id \/ Content(was.lines[k].text) = Content(s.text)
      BY <3>2, <3>3, ApplicationIs
    <3> HIDE DEF now
    <3>5. SameTexts(now.lines, lines) /\ SameIds(now.lines, lines)
      BY <1>1, <3>3, <3>4 DEF SameTexts, SameIds
    <3>6. ASSUME NEW k \in 1..Len(lines) PROVE From(now.lines[k], k)
      <4>1. k \in 1..Len(was.lines) /\ was.lines[k].id = lines[k].id /\ was.lines[k].text = lines[k].text
        BY <3>3 DEF SameTexts, SameIds
      <4>2. From(was.lines[k], k)
        BY <1>4 DEF was
      <4>3. CASE now.lines[k] = was.lines[k]
        BY <4>2, <4>3
      <4>4. CASE now.lines[k] # was.lines[k]
        <5>1. /\ now.lines[k].of = s.of
              /\ was.lines[k].id = s.id \/ Content(was.lines[k].text) = Content(s.text)
          BY <3>4, <4>1, <4>4
        <5>2. i \in places \cap (1..n)
          BY <2>1
        <5>3. /\ now.lines[k].of = statuses[i].of
              /\ lines[k].id = statuses[i].id \/ Content(lines[k].text) = Content(statuses[i].text)
          BY <4>1, <5>1 DEF s
        <5> QED
          BY <5>2, <5>3
      <4> QED
        BY <4>3, <4>4
    <3> HIDE DEF From
    <3> QED
      BY <3>1, <3>4, <3>5, <3>6
  <2>2. CASE ~(i \in places)
    <3>1. A[i] = A[i - 1]
      BY <1>2, <2>2
    <3> QED
      BY <1>4, <3>1
  <2> QED
    BY <2>1, <2>2
<1>5. Good(A[n].lines)
  <2> HIDE DEF Good
  <2> SUFFICES ASSUME ~Good(A[n].lines) PROVE FALSE
    OBVIOUS
  <2> DEFINE T == {i \in 0..n : ~Good(A[i].lines)}
             m == Min(T)
  <2>1. T \in SUBSET Nat /\ n \in T
    BY <1>1
  <2> HIDE DEF T
  <2>2. m \in T /\ \A y \in T : m <= y
    BY <2>1, LeastOf
  <2> HIDE DEF m
  <2>3. m \in 0..n /\ ~Good(A[m].lines)
    BY <2>2 DEF T
  <2>4. m \in 1..n /\ m - 1 \in 0..n /\ ~(m <= m - 1)
    BY <1>1, <1>3, <2>3
  <2>5. Good(A[m - 1].lines)
    <3>1. ~(m - 1 \in T)
      BY <2>2, <2>4
    <3> QED
      BY <2>4, <3>1 DEF T
  <2> QED
    BY <1>4, <2>3, <2>4, <2>5
<1>6. Applied(lines, statuses, places) = A[n].lines
  BY DEF Applied, A
<1> QED
  BY <1>5, <1>6
-----------------------------------------------------------------------------
(* Lists from which a line is taken, or where two change places.           *)

\* What is left of a list without one of its elements.
LEMMA ElementRemoved ==
  ASSUME NEW S, NEW s \in Seq(S), NEW j \in 1..Len(s)
  PROVE  /\ RemoveAt(s, j) \in Seq(S) /\ Len(RemoveAt(s, j)) = Len(s) - 1
         /\ \A k \in 1..(Len(s) - 1) : RemoveAt(s, j)[k] = IF k < j THEN s[k] ELSE s[k + 1]
<1> DEFINE rest == RemoveAt(s, j)
           left == SubSeq(s, 1, j - 1)
           right == SubSeq(s, j + 1, Len(s))
<1>1. Len(s) \in Nat /\ j \in Nat /\ j >= 1 /\ j <= Len(s) /\ \A k \in 1..Len(s) : s[k] \in S
  OBVIOUS
<1>2. /\ left \in Seq(S) /\ Len(left) = j - 1
      /\ \A k \in 1..(j - 1) : left[k] = s[k]
  <2>1. \A k \in 1..(j - 1) : s[k] \in S
    BY <1>1
  <2>2. \A k \in 1..((j - 1) - 1 + 1) : left[k] = s[1 + k - 1]
    BY <1>1, <2>1, SubSeqProperties
  <2>3. left \in Seq(S) /\ Len(left) = j - 1
    BY <1>1, <2>1, SubSeqProperties
  <2>4. ASSUME NEW k \in 1..(j - 1) PROVE left[k] = s[k]
    <3>1. k \in 1..((j - 1) - 1 + 1) /\ 1 + k - 1 = k
      BY <1>1
    <3> HIDE DEF left
    <3> QED
      BY <2>2, <3>1
  <2> QED
    BY <2>3, <2>4
<1>3. /\ right \in Seq(S) /\ Len(right) = Len(s) - j
      /\ \A k \in 1..(Len(s) - j) : right[k] = s[j + k]
  <2>1. \A k \in (j + 1)..Len(s) : s[k] \in S
    BY <1>1
  <2>2. \A k \in 1..(Len(s) - (j + 1) + 1) : right[k] = s[(j + 1) + k - 1]
    BY <1>1, <2>1, SubSeqProperties
  <2>3. right \in Seq(S) /\ Len(right) = Len(s) - j
    BY <1>1, <2>1, SubSeqProperties
  <2>4. ASSUME NEW k \in 1..(Len(s) - j) PROVE right[k] = s[j + k]
    <3>1. k \in 1..(Len(s) - (j + 1) + 1) /\ (j + 1) + k - 1 = j + k
      BY <1>1
    <3> HIDE DEF right
    <3> QED
      BY <2>2, <3>1
  <2> QED
    BY <2>3, <2>4
<1>4. rest = left \o right
  BY DEF RemoveAt
<1> HIDE DEF rest, left, right
<1>5. rest \in Seq(S) /\ Len(rest) = Len(s) - 1
  <2>1. rest \in Seq(S) /\ Len(rest) = Len(left) + Len(right)
    BY <1>2, <1>3, <1>4, ConcatProperties
  <2> QED
    BY <1>1, <1>2, <1>3, <2>1
<1>6. ASSUME NEW k \in 1..(Len(s) - 1) PROVE rest[k] = IF k < j THEN s[k] ELSE s[k + 1]
  <2>1. CASE k < j
    BY <1>1, <1>2, <1>3, <1>4, <1>5, <2>1
  <2>2. CASE ~(k < j)
    <3>1. k - (j - 1) \in 1..(Len(s) - j) /\ j + (k - (j - 1)) = k + 1
      BY <1>1, <2>2
    <3>2. rest[k] = right[k - (j - 1)]
      BY <1>1, <1>2, <1>3, <1>4, <1>5, <2>2
    <3>3. right[k - (j - 1)] = s[k + 1]
      BY <1>3, <3>1
    <3> QED
      BY <1>1, <2>2, <3>2, <3>3
  <2> QED
    BY <2>1, <2>2
<1> QED
  BY <1>5, <1>6 DEF rest

LEMMA LineRemoved ==
  ASSUME NEW top, NEW lines, Listed(lines, top), NEW j \in 1..Len(lines)
  PROVE  /\ Listed(RemoveAt(lines, j), top) /\ Len(RemoveAt(lines, j)) = Len(lines) - 1
         /\ \A k \in 1..(Len(lines) - 1) : RemoveAt(lines, j)[k] = IF k < j THEN lines[k] ELSE lines[k + 1]
<1>1. lines \in Seq(LineRecord) /\ Len(lines) \in Nat /\ Len(lines) <= MaxLines
  BY DEF Listed
<1>2. /\ RemoveAt(lines, j) \in Seq(LineRecord) /\ Len(RemoveAt(lines, j)) = Len(lines) - 1
      /\ \A k \in 1..(Len(lines) - 1) : RemoveAt(lines, j)[k] = IF k < j THEN lines[k] ELSE lines[k + 1]
  BY <1>1, ElementRemoved
<1>3. ASSUME NEW k \in 1..(Len(lines) - 1) PROVE Proper(RemoveAt(lines, j)[k], top)
  <2>1. k \in 1..Len(lines) /\ k + 1 \in 1..Len(lines)
    BY <1>1
  <2>2. Proper(lines[k], top) /\ Proper(lines[k + 1], top)
    BY <2>1 DEF Listed
  <2>3. RemoveAt(lines, j)[k] = lines[k] \/ RemoveAt(lines, j)[k] = lines[k + 1]
    BY <1>2
  <2> QED
    BY <2>2, <2>3
<1>4. Len(lines) - 1 <= MaxLines
  BY <1>1, BoundsAssumption
<1> QED
  BY <1>2, <1>3, <1>4 DEF Listed

Exchanged(seq, j) == IF j = Len(seq) THEN seq ELSE [seq EXCEPT ![j] = seq[j + 1], ![j + 1] = seq[j]]

\* The place from which an element comes.
Origin(seq, j, k) ==
  IF j = Len(seq) THEN k ELSE IF k = j THEN j + 1 ELSE IF k = j + 1 THEN j ELSE k

LEMMA ExchangedIs ==
  ASSUME NEW S, NEW seq \in Seq(S), NEW j \in 1..Len(seq)
  PROVE  /\ Exchanged(seq, j) \in Seq(S) /\ Len(Exchanged(seq, j)) = Len(seq)
         /\ \A k \in 1..Len(seq) : /\ Origin(seq, j, k) \in 1..Len(seq)
                                   /\ Exchanged(seq, j)[k] = seq[Origin(seq, j, k)]
<1>1. Len(seq) \in Nat /\ j \in Nat /\ j <= Len(seq) /\ j >= 1
  OBVIOUS
<1>2. CASE j = Len(seq)
  BY <1>2 DEF Exchanged, Origin
<1>3. CASE j # Len(seq)
  <2>1. j + 1 \in 1..Len(seq) /\ j + 1 # j
    BY <1>1, <1>3
  <2>2. seq[j] \in S /\ seq[j + 1] \in S
    BY <2>1
  <2>3. Exchanged(seq, j) = [seq EXCEPT ![j] = seq[j + 1], ![j + 1] = seq[j]]
    BY <1>3 DEF Exchanged
  <2>4. Exchanged(seq, j) \in Seq(S) /\ Len(Exchanged(seq, j)) = Len(seq)
    BY <2>1, <2>2, <2>3
  <2>5. ASSUME NEW k \in 1..Len(seq)
        PROVE  Origin(seq, j, k) \in 1..Len(seq) /\ Exchanged(seq, j)[k] = seq[Origin(seq, j, k)]
    BY <1>3, <2>1, <2>2, <2>3 DEF Origin
  <2> QED
    BY <2>4, <2>5
<1> QED
  BY <1>2, <1>3

LEMMA LinesExchanged ==
  ASSUME NEW top, NEW lines, Listed(lines, top), NEW j \in 1..Len(lines)
  PROVE  Listed(Exchanged(lines, j), top) /\ Len(Exchanged(lines, j)) = Len(lines)
<1>1. lines \in Seq(LineRecord)
  BY DEF Listed
<1>2. /\ Exchanged(lines, j) \in Seq(LineRecord) /\ Len(Exchanged(lines, j)) = Len(lines)
      /\ \A k \in 1..Len(lines) : /\ Origin(lines, j, k) \in 1..Len(lines)
                                  /\ Exchanged(lines, j)[k] = lines[Origin(lines, j, k)]
  BY <1>1, ExchangedIs
<1> QED
  BY <1>2 DEF Listed

\* The texts of lines.
LEMMA TextsAre ==
  ASSUME NEW top \in Nat, NEW lines, Listed(lines, top)
  PROVE  /\ Texts(lines) \in Seq(LineTexts) /\ Len(Texts(lines)) = Len(lines)
         /\ \A k \in 1..Len(lines) : Texts(lines)[k] = lines[k].text
<1>1. Len(lines) \in Nat
  BY DEF Listed
<1>2. \A k \in 1..Len(lines) : lines[k].text \in LineTexts
  BY LineOf
<1>3. Texts(lines) = [k \in 1..Len(lines) |-> lines[k].text]
  BY DEF Texts
<1> QED
  BY <1>1, <1>2, <1>3

\* The first row with the id of a row.
LEMMA FoundIs ==
  ASSUME NEW top \in Nat, Listed(rows, top), NEW k \in 1..Len(rows)
  PROVE  Found(k) \in 1..Len(rows) /\ rows[Found(k)].id = rows[k].id
<1> DEFINE T == {j \in 1..Len(rows) : rows[j].id = rows[k].id}
<1>1. Len(rows) \in Nat
  BY DEF Listed
<1>2. T \in SUBSET Nat /\ k \in T
  BY <1>1
<1>3. Min(T) \in T
  <2> HIDE DEF T
  <2> QED
    BY <1>2, LeastOf
<1> QED
  BY <1>3 DEF Found

-----------------------------------------------------------------------------
(* Every step keeps the types.                                             *)

LEMMA TypeInvInit == TextInit => TypeInv
<1> SUFFICES ASSUME TextInit PROVE TypeInv
  OBVIOUS
<1> DEFINE top == MaxLines
<1>1. counts \in CountRecord /\ counts.fresh = top /\ top \in Nat /\ MaxLines <= counts.fresh
  BY BoundsAssumption DEF TextInit, CountRecord
<1>2. /\ stored \in Seq([id : 1..MaxLines, text : LineTexts, calc : {"none", "done"}, of : Results, orig : BOOLEAN])
      /\ Len(stored) <= MaxLines
      /\ IsInjective([k \in 1..Len(stored) |-> stored[k].id])
      /\ \/ \A k \in 1..Len(stored) : stored[k] = Line(stored[k].id, stored[k].text, Uncalculated)
         \/ \A k \in 1..Len(stored) : stored[k] = Line(stored[k].id, stored[k].text, Calculated(stored[k].text))
  BY OpenedAssumption DEF TextInit
<1>3. ASSUME NEW k \in 1..Len(stored) PROVE Proper(stored[k], top) /\ stored[k].calc # "queued"
  <2>1. stored[k] \in [id : 1..MaxLines, text : LineTexts, calc : {"none", "done"}, of : Results, orig : BOOLEAN]
    <3> DEFINE S == [id : 1..MaxLines, text : LineTexts, calc : {"none", "done"}, of : Results, orig : BOOLEAN]
    <3>1. stored \in Seq(S)
      BY <1>2
    <3> HIDE DEF S
    <3>2. stored[k] \in S
      BY <3>1
    <3> QED
      BY <3>2 DEF S
  <2>2. stored[k].id \in Nat /\ stored[k].id <= top /\ stored[k].text \in LineTexts /\ stored[k].calc # "queued"
    BY <1>1, <2>1
  <2>3. CASE stored[k] = Line(stored[k].id, stored[k].text, Uncalculated)
    <3> DEFINE id == stored[k].id
               text == stored[k].text
    <3> HIDE DEF id, text
    <3>1. Proper(Line(id, text, Uncalculated), top)
      BY <1>1, <2>2, UnansweredLine DEF id, text
    <3> QED
      BY <2>2, <2>3, <3>1 DEF id, text
  <2>4. CASE stored[k] = Line(stored[k].id, stored[k].text, Calculated(stored[k].text))
    <3>1. Calculated(stored[k].text).of # None
      BY <2>2, ResultAssumption DEF Calculated
    <3>2. stored[k].calc = "done" /\ stored[k].of = Calculated(stored[k].text).of
      BY <2>4 DEF Line, Calculated
    <3> QED
      BY <2>1, <2>2, <3>1, <3>2 DEF Proper, LineRecord
  <2> QED
    BY <1>2, <2>3, <2>4
<1>4. Listed(stored, top) /\ \A k \in 1..Len(stored) : stored[k].calc # "queued"
  <2>1. \A k \in 1..Len(stored) : stored[k] \in LineRecord
    BY <1>3 DEF Proper
  <2>2. stored \in Seq(LineRecord)
    BY <1>2, <2>1
  <2> QED
    BY <1>2, <1>3, <2>2 DEF Listed
<1>5. Injective(stored)
  BY <1>2 DEF IsInjective, Injective
<1>6. cache = stored /\ rows = Written(stored) /\ draft = Texts(rows)
  BY DEF TextInit
<1>7. Listed(rows, top)
  BY <1>1, <1>4, <1>6, WrittenIs
<1>8. draft \in Seq(LineTexts) /\ Len(draft) <= MaxLines
  BY <1>1, <1>6, <1>7, TextsAre DEF Listed
<1>9. /\ switch \in SwitchRecord /\ switch.parsed = <<>> /\ switch.saved = <<>>
      /\ report \in ReportRecord /\ report.lines = <<>>
  BY DEF TextInit, Shown, NoReport, SwitchRecord, ReportRecord
<1>10. puts = <<>> /\ puts \in Seq(PutRecord) /\ Len(puts) = 0
  BY DEF TextInit
<1>11. saves \in [ready : Nat, waiting : Nat, start : BOOLEAN] /\ calc \in [running : BOOLEAN, asked : BOOLEAN]
  <2>1. (Done(stored) # {}) \in BOOLEAN
    OBVIOUS
  <2> QED
    BY <2>1 DEF TextInit
<1>12. mode = "text"
  BY DEF TextInit
<1> QED
  BY <1>1, <1>4, <1>5, <1>6, <1>7, <1>8, <1>9, <1>10, <1>11, <1>12, NothingListed DEF TypeInv
LEMMA TopIs == ASSUME TypeInv PROVE counts.fresh \in Nat /\ MaxLines <= counts.fresh
BY DEF TypeInv, CountRecord

LEMMA CountsKept ==
  ASSUME TypeInv, Edit \/ Switch
  PROVE  counts' \in CountRecord /\ counts'.fresh = counts.fresh
<1>1. counts \in CountRecord
  BY DEF TypeInv
<1>2. CASE Edit
  BY <1>1, <1>2 DEF Edit, CountRecord
<1>3. CASE Switch
  BY <1>1, <1>3 DEF Switch, CountRecord
<1> QED
  BY <1>2, <1>3

LEMMA AskedIs ==
  ASSUME saves \in [ready : Nat, waiting : Nat, start : BOOLEAN]
  PROVE  Asked \in [ready : Nat, waiting : Nat, start : BOOLEAN] /\ Asked.start = saves.start
BY DEF Asked

LEMMA RewrittenIs ==
  ASSUME NEW text \in Seq(LineTexts), Len(text) <= MaxLines, NEW new \in Rewritten(text)
  PROVE  new \in Seq(LineTexts) /\ Len(new) <= MaxLines
<1>1. Len(text) \in Nat /\ MaxLines \in Nat /\ \A k \in 1..Len(text) : text[k] \in LineTexts
  BY BoundsAssumption
<1>2. CASE \E k \in 1..Len(text) : new = RemoveAt(text, k)
  <2>1. PICK k \in 1..Len(text) : new = RemoveAt(text, k)
    BY <1>2
  <2>2. new \in Seq(LineTexts) /\ Len(new) = Len(text) - 1
    BY <2>1, ElementRemoved
  <2> QED
    BY <1>1, <2>2
<1>3. CASE \E k \in 1..(Len(text) - 1) : new = [text EXCEPT ![k] = text[k + 1], ![k + 1] = text[k]]
  <2>1. PICK k \in 1..(Len(text) - 1) : new = [text EXCEPT ![k] = text[k + 1], ![k + 1] = text[k]]
    BY <1>3
  <2>2. k \in 1..Len(text) /\ k + 1 \in 1..Len(text)
    BY <1>1
  <2>3. text[k] \in LineTexts /\ text[k + 1] \in LineTexts
    BY <1>1, <2>2
  <2> QED
    BY <2>1, <2>2, <2>3
<1>4. CASE \E k \in 1..Len(text), v \in Volumes : new = [text EXCEPT ![k].volume = v]
  <2>1. PICK k \in 1..Len(text), v \in Volumes : new = [text EXCEPT ![k] = [text[k] EXCEPT !.volume = v]]
    BY <1>4
  <2>2. [text[k] EXCEPT !.volume = v] \in LineTexts
    BY <1>1 DEF LineTexts
  <2> DEFINE x == [text[k] EXCEPT !.volume = v]
  <2>3. new = [text EXCEPT ![k] = x] /\ x \in LineTexts
    BY <2>1, <2>2
  <2> HIDE DEF x
  <2> QED
    BY <2>3
<1>5. CASE Len(text) # MaxLines /\ \E t \in LineTexts : new = Append(text, t)
  <2>1. new \in Seq(LineTexts) /\ Len(new) = Len(text) + 1
    BY <1>5
  <2> QED
    BY <1>1, <1>5, <2>1
<1>6. new \in Shortened(text) \/ new \in Swapped(text) \/ new \in Remeasured(text) \/ new \in Extended(text)
  BY DEF Rewritten
<1>7. new \in Shortened(text) => \E k \in 1..Len(text) : new = RemoveAt(text, k)
  BY DEF Shortened
<1>8. new \in Swapped(text) =>
        \E k \in 1..(Len(text) - 1) : new = [text EXCEPT ![k] = text[k + 1], ![k + 1] = text[k]]
  BY DEF Swapped
<1>9. new \in Remeasured(text) => \E k \in 1..Len(text), v \in Volumes : new = [text EXCEPT ![k].volume = v]
  BY DEF Remeasured
<1>10. new \in Extended(text) => Len(text) # MaxLines /\ \E t \in LineTexts : new = Append(text, t)
  BY DEF Extended
<1> QED
  BY <1>2, <1>3, <1>4, <1>5, <1>6, <1>7, <1>8, <1>9, <1>10

LEMMA TypeTyped == TypeInv /\ Type => TypeInv'
<1> SUFFICES ASSUME TypeInv, Type PROVE TypeInv'
  OBVIOUS
<1>1. counts' \in CountRecord /\ counts'.fresh = counts.fresh
  BY CountsKept DEF Type
<1>2. draft \in Seq(LineTexts) /\ Len(draft) <= MaxLines /\ draft' \in Rewritten(draft)
  BY DEF Type, TypeInv
<1>3. draft' \in Seq(LineTexts) /\ Len(draft') <= MaxLines
  BY <1>2, RewrittenIs
<1> QED
  BY <1>1, <1>3 DEF Type, TypeInv

LEMMA ToTableTyped == TypeInv /\ ToTable => TypeInv'
<1> SUFFICES ASSUME TypeInv, ToTable PROVE TypeInv'
  OBVIOUS
<1>1. counts' \in CountRecord /\ counts'.fresh = counts.fresh
  BY CountsKept DEF ToTable
<1>2. Listed(rows, counts.fresh) /\ draft \in Seq(LineTexts) /\ Len(draft) <= MaxLines /\ Listed(cache, counts.fresh)
  BY DEF TypeInv
<1>3. Listed(Parsed(rows, draft), counts.fresh)
  BY <1>2, TopIs, ParsedIs
<1>4. switch'.parsed = Parsed(rows, draft) /\ switch'.saved = cache /\ switch'.at \in {"detail", "read"}
      /\ switch' = [at |-> switch'.at, parsed |-> switch'.parsed, saved |-> switch'.saved]
  BY DEF ToTable
<1>5. switch' \in SwitchRecord
  BY <1>2, <1>3, <1>4 DEF SwitchRecord, Listed
<1> QED
  BY <1>1, <1>2, <1>3, <1>4, <1>5 DEF ToTable, TypeInv

LEMMA ReadDetailTyped == TypeInv /\ ReadDetail => TypeInv'
<1> SUFFICES ASSUME TypeInv, ReadDetail PROVE TypeInv'
  OBVIOUS
<1>1. switch \in SwitchRecord /\ stored \in Seq(LineRecord)
  BY DEF TypeInv, Listed
<1>2. switch' \in SwitchRecord /\ switch'.parsed = switch.parsed /\ switch'.saved = stored
  BY <1>1 DEF ReadDetail, SwitchRecord
<1> QED
  BY <1>2 DEF ReadDetail, TypeInv

LEMMA RefreshTyped == TypeInv /\ Refresh => TypeInv'
BY NothingListed DEF Refresh, TypeInv

\* What the table is when it is shown.
Table == Merged(SyncedIds(switch.parsed, switch.saved), switch.saved)

LEMMA TableIs ==
  ASSUME TypeInv
  PROVE  /\ Listed(Table, counts.fresh) /\ SameTexts(Table, switch.parsed)
         /\ \A k \in 1..Len(Table) : Table[k].calc \in {"none", "done"}
         /\ WithoutResults(switch.saved) => WithoutResults(Table)
<1> DEFINE top == counts.fresh
           synced == SyncedIds(switch.parsed, switch.saved)
<1>1. top \in Nat /\ Listed(switch.parsed, top) /\ Listed(switch.saved, top)
  BY TopIs DEF TypeInv
<1>2. Listed(synced, top) /\ SameTexts(synced, switch.parsed)
  BY <1>1, SyncedIs
<1> HIDE DEF synced, top
<1>3. /\ Listed(Merged(synced, switch.saved), top) /\ SameTexts(Merged(synced, switch.saved), synced)
      /\ \A k \in 1..Len(synced) : Merged(synced, switch.saved)[k].calc \in {"none", "done"}
      /\ WithoutResults(switch.saved) => WithoutResults(Merged(synced, switch.saved))
  BY <1>1, <1>2, MergedIs
<1>4. Table = Merged(synced, switch.saved)
  BY DEF Table, synced
<1>5. SameTexts(Table, switch.parsed)
  BY <1>2, <1>3, <1>4 DEF SameTexts
<1> QED
  BY <1>3, <1>4, <1>5 DEF SameTexts, top

LEMMA ShowTableTyped == TypeInv /\ ShowTable => TypeInv'
<1> SUFFICES ASSUME TypeInv, ShowTable PROVE TypeInv'
  OBVIOUS
<1>1. counts.fresh \in Nat /\ Listed(Table, counts.fresh)
  BY TopIs, TableIs
<1>2. Listed(Queued(Table), counts.fresh)
  BY <1>1, QueuedIs
<1>3. rows' = Queued(Table) \/ rows' = Table
  BY DEF ShowTable, Table
<1>4. saves \in [ready : Nat, waiting : Nat, start : BOOLEAN]
  BY DEF TypeInv
<1>5. saves' \in [ready : Nat, waiting : Nat, start : BOOLEAN]
  <2>1. saves' = saves \/ saves' = [Asked EXCEPT !.start = TRUE]
    BY DEF ShowTable
  <2>2. Asked \in [ready : Nat, waiting : Nat, start : BOOLEAN]
    BY <1>4, AskedIs
  <2> QED
    BY <1>4, <2>1, <2>2
<1>6. puts \in Seq(PutRecord) /\ Len(puts) \in Nat /\ \A i \in 1..Len(puts) : Listed(puts[i].lines, counts.fresh)
  BY DEF TypeInv
<1>7. puts' = [i \in 1..Len(puts) |-> [puts[i] EXCEPT !.own = FALSE]]
  BY DEF ShowTable
<1>8. ASSUME NEW i \in 1..Len(puts) PROVE puts'[i] \in PutRecord /\ puts'[i].lines = puts[i].lines
  <2>1. puts[i] \in PutRecord /\ puts'[i] = [puts[i] EXCEPT !.own = FALSE]
    BY <1>6, <1>7
  <2> QED
    BY <2>1 DEF PutRecord
<1>9. puts' \in Seq(PutRecord) /\ Len(puts') = Len(puts)
  BY <1>6, <1>7, <1>8
<1>10. switch' \in SwitchRecord /\ switch'.parsed = <<>> /\ switch'.saved = <<>>
       /\ report' \in ReportRecord /\ report'.lines = <<>>
  BY DEF ShowTable, Shown, NoReport, SwitchRecord, ReportRecord
<1>11. draft' = <<>> /\ draft' \in Seq(LineTexts) /\ Len(draft') <= MaxLines /\ mode' = "table"
  BY BoundsAssumption DEF ShowTable
<1>12. Listed(rows', counts.fresh) /\ \A i \in 1..Len(puts') : Listed(puts'[i].lines, counts.fresh)
  BY <1>1, <1>2, <1>3, <1>6, <1>8, <1>9
<1>13. UNCHANGED <<cache, stored, calc, counts>>
  BY DEF ShowTable
<1> HIDE DEF ShowTable
<1> QED
  BY <1>5, <1>9, <1>10, <1>11, <1>12, <1>13, NothingListed DEF TypeInv

LEMMA ChangedTyped ==
  ASSUME TypeInv, NEW table, NEW intended, Changed(table, intended), Listed(table, counts.fresh),
         counts' \in CountRecord, counts'.fresh = counts.fresh
  PROVE  TypeInv'
<1>1. saves' \in [ready : Nat, waiting : Nat, start : BOOLEAN]
  BY AskedIs DEF Changed, TypeInv
<1>2. draft' \in Seq(LineTexts) /\ Len(draft') <= MaxLines
  BY BoundsAssumption DEF Changed
<1> QED
  BY <1>1, <1>2 DEF Changed, TypeInv

LEMMA DeleteTyped == TypeInv /\ Delete => TypeInv'
<1> SUFFICES ASSUME TypeInv, Delete PROVE TypeInv'
  OBVIOUS
<1>1. counts' \in CountRecord /\ counts'.fresh = counts.fresh
  BY CountsKept DEF Delete
<1>2. PICK k \in 1..Len(rows) : Changed(RemoveAt(rows, Found(k)), RemoveAt(Contents(rows), k))
  BY DEF Delete
<1>3. counts.fresh \in Nat /\ Listed(rows, counts.fresh)
  BY TopIs DEF TypeInv
<1>4. Found(k) \in 1..Len(rows)
  BY <1>3, FoundIs
<1>5. Listed(RemoveAt(rows, Found(k)), counts.fresh)
  BY <1>3, <1>4, LineRemoved
<1> QED
  BY <1>1, <1>2, <1>5, ChangedTyped

LEMMA MoveTyped == TypeInv /\ Move => TypeInv'
<1> SUFFICES ASSUME TypeInv, Move PROVE TypeInv'
  OBVIOUS
<1>1. counts' \in CountRecord /\ counts'.fresh = counts.fresh
  BY CountsKept DEF Move
<1>2. PICK k \in 1..(Len(rows) - 1) : Changed(Exchanged(rows, Found(k)), Exchanged(Contents(rows), k))
  BY DEF Move, Exchanged
<1>3. counts.fresh \in Nat /\ Listed(rows, counts.fresh)
  BY TopIs DEF TypeInv
<1>6. k \in 1..Len(rows)
  <2>1. Len(rows) \in Nat
    BY <1>3 DEF Listed
  <2> QED
    BY <2>1
<1>4. Found(k) \in 1..Len(rows)
  BY <1>3, <1>6, FoundIs
<1>5. Listed(Exchanged(rows, Found(k)), counts.fresh)
  BY <1>3, <1>4, LinesExchanged
<1> QED
  BY <1>1, <1>2, <1>5, ChangedTyped
LEMMA ToTextTyped == TypeInv /\ ToText => TypeInv'
<1> SUFFICES ASSUME TypeInv, ToText PROVE TypeInv'
  OBVIOUS
<1>1. counts' \in CountRecord /\ counts'.fresh = counts.fresh
  BY CountsKept DEF ToText
<1>2. counts.fresh \in Nat /\ Listed(rows, counts.fresh)
  BY TopIs DEF TypeInv
<1>3. rows' = Written(rows) /\ draft' = Texts(rows')
  BY DEF ToText
<1>4. Listed(rows', counts.fresh)
  BY <1>2, <1>3, WrittenIs
<1>5. draft' \in Seq(LineTexts) /\ Len(draft') <= MaxLines
  BY <1>2, <1>3, <1>4, TextsAre DEF Listed
<1>6. switch' \in SwitchRecord /\ switch'.parsed = <<>> /\ switch'.saved = <<>>
  <2>1. switch' = [at |-> "cancel", parsed |-> <<>>, saved |-> <<>>]
    BY DEF ToText, Shown
  <2> QED
    BY <2>1 DEF SwitchRecord
<1> QED
  BY <1>1, <1>4, <1>5, <1>6, NothingListed DEF ToText, TypeInv

LEMMA HandleCancelTyped == TypeInv /\ HandleCancel => TypeInv'
<1> SUFFICES ASSUME TypeInv, HandleCancel PROVE TypeInv'
  OBVIOUS
<1>1. counts.fresh \in Nat /\ Listed(stored, counts.fresh) /\ Injective(stored)
  BY TopIs DEF TypeInv
<1>2. stored' = Cleared(stored)
  BY DEF HandleCancel
<1>3. /\ Listed(stored', counts.fresh) /\ SameIds(stored', stored) /\ Len(stored') = Len(stored)
      /\ \A k \in 1..Len(stored') : stored'[k].calc # "queued"
  BY <1>1, <1>2, ClearedIs DEF SameIds
<1>4. Injective(stored')
  BY <1>1, <1>3 DEF Injective, SameIds
<1>5. switch' \in SwitchRecord /\ switch'.parsed = switch.parsed /\ switch'.saved = switch.saved
      /\ calc' \in [running : BOOLEAN, asked : BOOLEAN]
  BY DEF HandleCancel, TypeInv, SwitchRecord
<1> QED
  BY <1>3, <1>4, <1>5 DEF HandleCancel, TypeInv

LEMMA ShowTextTyped == TypeInv /\ ShowText => TypeInv'
<1> SUFFICES ASSUME TypeInv, ShowText PROVE TypeInv'
  OBVIOUS
<1>1. counts.fresh \in Nat /\ Listed(rows, counts.fresh) /\ draft \in Seq(LineTexts) /\ Len(draft) <= MaxLines
  BY TopIs DEF TypeInv
<1>2. (rows' = Written(rows) /\ draft' = Texts(rows')) \/ (rows' = rows /\ draft' = draft)
  BY DEF ShowText
<1>3. Listed(rows', counts.fresh)
  BY <1>1, <1>2, WrittenIs
<1>4. draft' \in Seq(LineTexts) /\ Len(draft') <= MaxLines
  BY <1>1, <1>2, <1>3, TextsAre DEF Listed
<1>5. switch' \in SwitchRecord /\ switch'.parsed = <<>> /\ switch'.saved = <<>>
  BY DEF ShowText, Shown, SwitchRecord
<1> QED
  BY <1>3, <1>4, <1>5, NothingListed DEF ShowText, TypeInv

LEMMA SaveTyped == TypeInv /\ Save => TypeInv'
<1> SUFFICES ASSUME TypeInv, Save PROVE TypeInv'
  OBVIOUS
<1>1. counts' \in CountRecord /\ counts'.fresh = counts.fresh
  BY CountsKept DEF Save
<1>2. saves' \in [ready : Nat, waiting : Nat, start : BOOLEAN]
  BY AskedIs DEF Save, TypeInv
<1> QED
  BY <1>1, <1>2 DEF Save, TypeInv

\* What a save sends.
Sending == IF mode = "text" THEN Parsed(rows, draft) ELSE rows

LEMMA SendPutTyped == TypeInv /\ SendPut => TypeInv'
<1> SUFFICES ASSUME TypeInv, SendPut PROVE TypeInv'
  OBVIOUS
<1>1. counts.fresh \in Nat /\ MaxLines <= counts.fresh /\ Listed(rows, counts.fresh)
      /\ draft \in Seq(LineTexts) /\ Len(draft) <= MaxLines
  BY TopIs DEF TypeInv
<1>2. Listed(Sending, counts.fresh)
  BY <1>1, ParsedIs DEF Sending
<1>3. rows' = Sending /\ puts' = Append(puts, [lines |-> Sending, at |-> "sent", own |-> TRUE, start |-> saves.start])
  BY DEF SendPut, Sending
<1>4. puts \in Seq(PutRecord) /\ Len(puts) \in Nat /\ (\A i \in 1..Len(puts) : Listed(puts[i].lines, counts.fresh))
      /\ saves \in [ready : Nat, waiting : Nat, start : BOOLEAN]
  BY DEF TypeInv
<1> DEFINE put == [lines |-> Sending, at |-> "sent", own |-> TRUE, start |-> saves.start]
<1>5. put \in PutRecord /\ put.lines = Sending
  BY <1>2, <1>4 DEF PutRecord, Listed
<1>6. puts' = Append(puts, put)
  BY <1>3
<1> HIDE DEF put
<1>7. puts' \in Seq(PutRecord) /\ Len(puts') = Len(puts) + 1
      /\ \A i \in 1..Len(puts') : puts'[i] = IF i = Len(puts) + 1 THEN put ELSE puts[i]
  BY <1>4, <1>5, <1>6
<1>8. ASSUME NEW i \in 1..Len(puts') PROVE Listed(puts'[i].lines, counts.fresh)
  <2>1. CASE i = Len(puts) + 1
    BY <1>2, <1>5, <1>7, <2>1
  <2>2. CASE i # Len(puts) + 1
    <3>1. i \in 1..Len(puts)
      BY <1>4, <1>7, <2>2
    <3> QED
      BY <1>4, <1>7, <2>2, <3>1
  <2> QED
    BY <2>1, <2>2
<1>9. saves' \in [ready : Nat, waiting : Nat, start : BOOLEAN]
  <2>1. saves.ready - 1 \in Nat
    BY <1>4 DEF SendPut
  <2> QED
    BY <1>4, <2>1 DEF SendPut
<1>10. UNCHANGED <<draft, mode, switch, cache, stored, calc, report, counts>>
  BY DEF SendPut
<1> QED
  BY <1>2, <1>3, <1>7, <1>8, <1>9, <1>10 DEF TypeInv

\* What a PUT brings: the stored lines if it brings none.
Brought(put) == IF put.lines = <<>> THEN stored ELSE put.lines

\* What the server makes of a PUT.
LEMMA PutHandled ==
  ASSUME TypeInv, NEW i \in 1..Len(puts),
         stored' = Kept(Unique(Brought(puts[i]), counts.fresh), stored),
         puts' = [puts EXCEPT ![i].at = "stored", ![i].lines = Cleared(Brought(puts[i]))],
         counts' = [counts EXCEPT !.fresh = @ + Cardinality(Repeating(Brought(puts[i])))]
  PROVE  /\ counts' \in CountRecord /\ counts.fresh <= counts'.fresh
         /\ Listed(Brought(puts[i]), counts.fresh)
         /\ Listed(stored', counts'.fresh) /\ Injective(stored')
         /\ SameTexts(stored', Brought(puts[i]))
         /\ Injective(Brought(puts[i])) => SameIds(stored', Brought(puts[i]))
         /\ \A k \in 1..Len(stored') :
              \/ stored'[k].calc = "none"
              \/ /\ stored'[k].calc = "done"
                 /\ \E j \in Done(stored) : /\ Content(stored[j].text) = Content(stored'[k].text)
                                            /\ stored'[k].of = stored[j].of
         /\ puts' \in Seq(PutRecord) /\ Len(puts') = Len(puts)
         /\ puts'[i].at = "stored" /\ puts'[i].lines = Cleared(Brought(puts[i])) /\ puts'[i].start = puts[i].start
         /\ \A j \in 1..Len(puts) : j # i => puts'[j] = puts[j]
<1> DEFINE lines == Brought(puts[i])
           top == counts.fresh
           more == top + Cardinality(Repeating(lines))
           unique == Unique(lines, top)
<1>1. /\ top \in Nat /\ counts \in CountRecord /\ puts \in Seq(PutRecord) /\ puts[i] \in PutRecord
      /\ Listed(stored, top) /\ Listed(puts[i].lines, top)
  BY TopIs DEF TypeInv
<1>2. Listed(lines, top)
  BY <1>1 DEF Brought
<1>3. counts' = [counts EXCEPT !.fresh = more] /\ stored' = Kept(unique, stored)
      /\ puts' = [puts EXCEPT ![i] = [puts[i] EXCEPT !.at = "stored", !.lines = Cleared(lines)]]
  OBVIOUS
<1>4. /\ Cardinality(Repeating(lines)) \in Nat
      /\ Listed(unique, more) /\ Injective(unique) /\ SameTexts(unique, lines)
      /\ Injective(lines) => SameIds(unique, lines)
  <2> HIDE DEF lines, top
  <2> QED
    BY <1>1, <1>2, UniqueIs
<1>5. more \in Nat /\ top <= more
  BY <1>1, <1>4
<1>6. counts' \in CountRecord /\ counts'.fresh = more
  <2> HIDE DEF more
  <2> QED
    BY <1>1, <1>3, <1>5 DEF CountRecord
<1>7. Listed(Cleared(lines), top)
  <2> HIDE DEF lines, top
  <2> QED
    BY <1>1, <1>2, ClearedIs
<1>8. /\ puts' \in Seq(PutRecord) /\ Len(puts') = Len(puts)
      /\ puts'[i].at = "stored" /\ puts'[i].lines = Cleared(lines) /\ puts'[i].start = puts[i].start
      /\ \A j \in 1..Len(puts) : j # i => puts'[j] = puts[j]
  <2> DEFINE put == [puts[i] EXCEPT !.at = "stored", !.lines = Cleared(lines)]
  <2> HIDE DEF lines
  <2>1. put \in PutRecord /\ put.at = "stored" /\ put.lines = Cleared(lines) /\ put.start = puts[i].start
    BY <1>1, <1>7 DEF PutRecord, Listed
  <2>2. puts' = [puts EXCEPT ![i] = put]
    BY <1>3
  <2> HIDE DEF put
  <2>3. puts' \in Seq(PutRecord) /\ Len(puts') = Len(puts)
    BY <1>1, <2>1, <2>2
  <2>4. puts \in Seq(PutRecord) /\ i \in 1..Len(puts)
    BY <1>1
  <2>5. puts'[i] = put
    <3>1. [puts EXCEPT ![i] = put][i] = put
      BY <2>4, ElementReplaced
    <3>2. puts'[i] = [puts EXCEPT ![i] = put][i]
      BY <2>2
    <3> QED
      BY <3>1, <3>2
  <2>6. \A j \in 1..Len(puts) : j # i => puts'[j] = puts[j]
    BY <2>2, <2>4
  <2> QED
    BY <2>1, <2>3, <2>5, <2>6
<1>9. Listed(stored, more)
  <2> HIDE DEF more, top
  <2> QED
    BY <1>1, <1>5, ListedOn
<1> HIDE DEF more, unique
<1>10. /\ Listed(stored', more) /\ SameTexts(stored', unique) /\ SameIds(stored', unique)
       /\ \A k \in 1..Len(unique) :
            \/ stored'[k].calc = "none"
            \/ /\ stored'[k].calc = "done"
               /\ \E j \in Done(stored) : /\ stored[j].id = unique[k].id
                                          /\ Content(stored[j].text) = Content(unique[k].text)
                                          /\ stored'[k].of = stored[j].of
  BY <1>3, <1>4, <1>5, <1>9, KeptIs
<1>11. Len(stored') = Len(unique) /\ Len(unique) = Len(lines)
  BY <1>4, <1>10 DEF SameTexts
<1>12. Injective(stored')
  BY <1>4, <1>10, <1>11 DEF Injective, SameIds
<1>13. SameTexts(stored', lines) /\ (Injective(lines) => SameIds(stored', lines))
  BY <1>4, <1>10, <1>11 DEF SameTexts, SameIds
<1>14. ASSUME NEW k \in 1..Len(stored')
       PROVE  \/ stored'[k].calc = "none"
              \/ /\ stored'[k].calc = "done"
                 /\ \E j \in Done(stored) : /\ Content(stored[j].text) = Content(stored'[k].text)
                                            /\ stored'[k].of = stored[j].of
  <2>1. k \in 1..Len(unique) /\ stored'[k].text = unique[k].text
    BY <1>10, <1>11 DEF SameTexts
  <2> QED
    BY <1>10, <2>1
<1> HIDE DEF lines, top
<1>15. Listed(stored', counts'.fresh) /\ counts.fresh <= counts'.fresh
  BY <1>5, <1>6, <1>10 DEF top
<1> QED
  BY <1>2, <1>6, <1>8, <1>12, <1>13, <1>14, <1>15 DEF lines, top

LEMMA HandlePutTyped == TypeInv /\ HandlePut => TypeInv'
<1> SUFFICES ASSUME TypeInv, HandlePut PROVE TypeInv'
  OBVIOUS
<1>1. PICK i \in 1..Len(puts) :
        /\ stored' = Kept(Unique(Brought(puts[i]), counts.fresh), stored)
        /\ puts' = [puts EXCEPT ![i].at = "stored", ![i].lines = Cleared(Brought(puts[i]))]
        /\ counts' = [counts EXCEPT !.fresh = @ + Cardinality(Repeating(Brought(puts[i])))]
        /\ UNCHANGED <<rows, draft, mode, switch, cache, calc, saves, report>>
  BY DEF HandlePut, Brought
<1>2. /\ counts' \in CountRecord /\ counts.fresh <= counts'.fresh
      /\ Listed(Brought(puts[i]), counts.fresh)
      /\ Listed(stored', counts'.fresh) /\ Injective(stored')
      /\ \A k \in 1..Len(stored') : stored'[k].calc = "none" \/ stored'[k].calc = "done"
      /\ puts' \in Seq(PutRecord) /\ Len(puts') = Len(puts)
      /\ puts'[i].lines = Cleared(Brought(puts[i]))
      /\ \A j \in 1..Len(puts) : j # i => puts'[j] = puts[j]
  BY <1>1, PutHandled
<1>3. counts.fresh \in Nat /\ counts'.fresh \in Nat /\ MaxLines <= counts.fresh
  BY <1>2, TopIs DEF CountRecord
<1>4. MaxLines <= counts'.fresh
  BY <1>2, <1>3, BoundsAssumption
<1>5. \A lines : Listed(lines, counts.fresh) => Listed(lines, counts'.fresh)
  BY <1>2, <1>3, ListedOn
<1>6. Listed(Cleared(Brought(puts[i])), counts.fresh)
  BY <1>2, <1>3, ClearedIs
<1>7. \A j \in 1..Len(puts') : Listed(puts'[j].lines, counts'.fresh)
  <2>1. \A j \in 1..Len(puts) : Listed(puts[j].lines, counts.fresh)
    BY DEF TypeInv
  <2> QED
    BY <1>2, <1>5, <1>6, <2>1
<1> QED
  BY <1>1, <1>2, <1>4, <1>5, <1>7 DEF TypeInv

\* What the answer of a PUT makes of the rows.
Answering(saved) == IF mode = "text" THEN Written(Answered(rows, saved)) ELSE SyncedIds(rows, saved)
Asking == [at |-> "asked", lines |-> <<>>]

LEMMA PutDoneIs ==
  ASSUME PutDone
  PROVE  \E i \in 1..Len(puts) :
           /\ puts[i].at = "stored"
           /\ IF ~puts[i].own \/ (mode = "table" /\ puts[i].lines = <<>>) THEN UNCHANGED <<rows, draft, report>>
              ELSE /\ rows' = Answering(puts[i].lines)
                   /\ draft' = IF mode = "text" /\ draft = Texts(puts[i].lines) THEN Texts(rows') ELSE draft
                   /\ report' = report \/ (mode = "table" /\ report' = Asking)
           /\ calc' = IF puts[i].start THEN [calc EXCEPT !.asked = TRUE] ELSE calc
           /\ puts' = RemoveAt(puts, i) /\ cache' = puts[i].lines
           /\ saves' = [saves EXCEPT !.ready = @ + saves.waiting, !.waiting = 0] \/ saves' = saves
           /\ UNCHANGED <<mode, switch, stored, typed, counts>>
<1>1. [NoReport EXCEPT !.at = "asked"] = Asking
  BY DEF NoReport, Asking
<1>2. PICK i \in 1..Len(puts) :
        /\ puts[i].at = "stored"
        /\ IF ~puts[i].own \/ (mode = "table" /\ puts[i].lines = <<>>) THEN UNCHANGED <<rows, draft, report>>
           ELSE /\ rows' = IF mode = "text"
                           THEN Written(IF mode = "text" THEN Answered(rows, puts[i].lines) ELSE SyncedIds(rows, puts[i].lines))
                           ELSE IF mode = "text" THEN Answered(rows, puts[i].lines) ELSE SyncedIds(rows, puts[i].lines)
                /\ draft' = IF mode = "text" /\ draft = Texts(puts[i].lines) THEN Texts(rows') ELSE draft
                /\ report' = IF (mode = "table" /\ \E k \in 1..Len(rows) : rows[k].calc = "queued") /\ report = NoReport
                             THEN [NoReport EXCEPT !.at = "asked"] ELSE report
        /\ calc' = IF puts[i].start THEN [calc EXCEPT !.asked = TRUE] ELSE calc
        /\ puts' = RemoveAt(puts, i) /\ cache' = puts[i].lines
        /\ saves' = IF i = Len(puts) THEN [saves EXCEPT !.ready = @ + saves.waiting, !.waiting = 0] ELSE saves
        /\ UNCHANGED <<mode, switch, stored, typed, counts>>
  BY DEF PutDone
<1>3. rows' = Answering(puts[i].lines) \/ UNCHANGED <<rows, draft, report>>
  BY <1>2 DEF Answering
<1>4. ~(~puts[i].own \/ (mode = "table" /\ puts[i].lines = <<>>)) => rows' = Answering(puts[i].lines)
  BY <1>2 DEF Answering
<1>5. ~(~puts[i].own \/ (mode = "table" /\ puts[i].lines = <<>>)) => report' = report \/ (mode = "table" /\ report' = Asking)
  BY <1>1, <1>2
<1>6. saves' = [saves EXCEPT !.ready = @ + saves.waiting, !.waiting = 0] \/ saves' = saves
  BY <1>2
<1> QED
  BY <1>2, <1>4, <1>5, <1>6

LEMMA PutsLess ==
  ASSUME TypeInv, NEW i \in 1..Len(puts), puts' = RemoveAt(puts, i)
  PROVE  /\ puts' \in Seq(PutRecord) /\ Len(puts') = Len(puts) - 1
         /\ \A j \in 1..Len(puts') : \E k \in 1..Len(puts) : puts'[j] = puts[k]
<1>1. puts \in Seq(PutRecord) /\ Len(puts) \in Nat
  BY DEF TypeInv
<1>2. /\ puts' \in Seq(PutRecord) /\ Len(puts') = Len(puts) - 1
      /\ \A j \in 1..(Len(puts) - 1) : puts'[j] = IF j < i THEN puts[j] ELSE puts[j + 1]
  BY <1>1, ElementRemoved
<1>3. ASSUME NEW j \in 1..Len(puts') PROVE \E k \in 1..Len(puts) : puts'[j] = puts[k]
  <2>1. j \in 1..(Len(puts) - 1) /\ j \in 1..Len(puts) /\ j + 1 \in 1..Len(puts)
    BY <1>1, <1>2
  <2>2. puts'[j] = puts[j] \/ puts'[j] = puts[j + 1]
    BY <1>2, <2>1
  <2> QED
    BY <2>1, <2>2
<1> QED
  BY <1>2, <1>3

LEMMA AnsweringIs ==
  ASSUME TypeInv, NEW saved, Listed(saved, counts.fresh)
  PROVE  /\ Listed(Answering(saved), counts.fresh)
         /\ mode = "text" => Len(Answering(saved)) = Len(saved)
         /\ mode = "text" => \A k \in 1..Len(saved) : Content(Answering(saved)[k].text) = Content(saved[k].text)
         /\ mode # "text" => Answering(saved) = SyncedIds(rows, saved)
<1> DEFINE top == counts.fresh
           A == Answered(rows, saved)
<1>1. top \in Nat /\ Listed(rows, top)
  BY TopIs DEF TypeInv
<1> HIDE DEF top
<1>2. Listed(saved, top)
  BY DEF top
<1>3. Listed(A, top) /\ SameTexts(A, saved)
  BY <1>1, <1>2, AnsweredIs
<1> HIDE DEF A
<1>4. /\ Listed(Written(A), top) /\ Len(Written(A)) = Len(A)
      /\ \A k \in 1..Len(A) : Content(Written(A)[k].text) = Content(A[k].text)
  BY <1>1, <1>3, WrittenIs
<1>5. Listed(SyncedIds(rows, saved), top)
  BY <1>1, <1>2, SyncedIs
<1>6. Answering(saved) = IF mode = "text" THEN Written(A) ELSE SyncedIds(rows, saved)
  BY DEF Answering, A
<1>7. \A k \in 1..Len(saved) : Content(Written(A)[k].text) = Content(saved[k].text)
  BY <1>3, <1>4 DEF SameTexts
<1>8. Len(Written(A)) = Len(saved)
  BY <1>3, <1>4 DEF SameTexts
<1> QED
  BY <1>4, <1>5, <1>6, <1>7, <1>8 DEF top

LEMMA PutDoneTyped == TypeInv /\ PutDone => TypeInv'
<1> SUFFICES ASSUME TypeInv, PutDone PROVE TypeInv'
  OBVIOUS
<1> DEFINE top == counts.fresh
<1>1. PICK i \in 1..Len(puts) :
        /\ \/ UNCHANGED <<rows, draft, report>>
           \/ /\ rows' = Answering(puts[i].lines)
              /\ draft' = Texts(rows') \/ draft' = draft
              /\ report' = Asking \/ report' = report
        /\ calc' = [calc EXCEPT !.asked = TRUE] \/ calc' = calc
        /\ puts' = RemoveAt(puts, i) /\ cache' = puts[i].lines
        /\ saves' = [saves EXCEPT !.ready = @ + saves.waiting, !.waiting = 0] \/ saves' = saves
        /\ UNCHANGED <<mode, switch, stored, counts>>
  BY PutDoneIs
<1>2. /\ top \in Nat /\ Listed(rows, top) /\ Listed(puts[i].lines, top)
      /\ \A j \in 1..Len(puts) : Listed(puts[j].lines, top)
      /\ draft \in Seq(LineTexts) /\ Len(draft) <= MaxLines
  BY TopIs DEF TypeInv
<1>3. Listed(Answering(puts[i].lines), top)
  BY <1>2, AnsweringIs
<1>4. Listed(rows', top)
  BY <1>1, <1>2, <1>3
<1>5. draft' \in Seq(LineTexts) /\ Len(draft') <= MaxLines
  <2>1. Texts(rows') \in Seq(LineTexts) /\ Len(Texts(rows')) = Len(rows') /\ Len(rows') <= MaxLines
    <3> HIDE DEF top
    <3> QED
      BY <1>2, <1>4, TextsAre DEF Listed
  <2> QED
    BY <1>1, <1>2, <2>1
<1>6. report' \in ReportRecord /\ Listed(report'.lines, top)
  <2>1. report \in ReportRecord /\ Listed(report.lines, top)
    BY DEF TypeInv
  <2>2. Asking \in ReportRecord /\ Listed(Asking.lines, top)
    BY NothingListed DEF Asking, ReportRecord
  <2> QED
    BY <1>1, <2>1, <2>2
<1>7. puts' \in Seq(PutRecord) /\ \A j \in 1..Len(puts') : Listed(puts'[j].lines, top)
  <2>1. /\ puts' \in Seq(PutRecord)
        /\ \A j \in 1..Len(puts') : \E k \in 1..Len(puts) : puts'[j] = puts[k]
    BY <1>1, PutsLess
  <2> QED
    BY <1>2, <2>1
<1>8. saves' \in [ready : Nat, waiting : Nat, start : BOOLEAN]
  <2>1. saves \in [ready : Nat, waiting : Nat, start : BOOLEAN]
    BY DEF TypeInv
  <2> DEFINE ready == saves.ready + saves.waiting
  <2>2. ready \in Nat
    BY <2>1
  <2>3. [saves EXCEPT !.ready = @ + saves.waiting, !.waiting = 0] = [saves EXCEPT !.ready = ready, !.waiting = 0]
    OBVIOUS
  <2> HIDE DEF ready
  <2>4. [saves EXCEPT !.ready = ready, !.waiting = 0] \in [ready : Nat, waiting : Nat, start : BOOLEAN]
    BY <2>1, <2>2
  <2> QED
    BY <1>1, <2>1, <2>3, <2>4
<1>9. calc' \in [running : BOOLEAN, asked : BOOLEAN]
  <2>1. calc \in [running : BOOLEAN, asked : BOOLEAN]
    BY DEF TypeInv
  <2> QED
    BY <1>1, <2>1
<1> QED
  BY <1>1, <1>2, <1>4, <1>5, <1>6, <1>7, <1>8, <1>9 DEF TypeInv

LEMMA HandleStartTyped == TypeInv /\ HandleStart => TypeInv'
BY DEF HandleStart, TypeInv

LEMMA CalculateTyped == TypeInv /\ Calculate => TypeInv'
<1> SUFFICES ASSUME TypeInv, Calculate PROVE TypeInv'
  OBVIOUS
<1> DEFINE top == counts.fresh
<1>1. PICK k \in 1..Len(stored) : stored' = [stored EXCEPT ![k] = Line(stored[k].id, stored[k].text, Calculated(stored[k].text))]
  BY DEF Calculate, Calculated
<1>2. /\ top \in Nat /\ Listed(stored, top) /\ Injective(stored) /\ stored \in Seq(LineRecord)
      /\ \A j \in 1..Len(stored) : stored[j].calc # "queued"
  BY TopIs DEF TypeInv, Listed
<1>3. stored[k].id \in Nat /\ stored[k].id <= top /\ stored[k].text \in LineTexts
  BY <1>2, LineOf
<1> DEFINE r == Calculated(stored[k].text)
           x == Line(stored[k].id, stored[k].text, r)
<1>4. r.calc = "done" /\ r.of \in Results /\ r.orig \in BOOLEAN /\ r.of # None
  BY <1>3, ResultAssumption DEF Calculated, Results
<1>5. Proper(x, top) /\ x.id = stored[k].id /\ x.calc = "done"
  <2>1. Proper(x, top)
    <3> HIDE DEF r
    <3> QED
      BY <1>2, <1>3, <1>4, ProperLine
  <2> QED
    BY <1>4, <2>1 DEF Line
<1>6. stored' = [stored EXCEPT ![k] = x]
  BY <1>1
<1> HIDE DEF x, r
<1>7. x \in LineRecord
  BY <1>5 DEF Proper
<1>8. /\ stored' \in Seq(LineRecord) /\ Len(stored') = Len(stored)
      /\ \A j \in 1..Len(stored) : stored'[j] = IF j = k THEN x ELSE stored[j]
  BY <1>2, <1>6, <1>7
<1>9. Listed(stored', top)
  BY <1>2, <1>5, <1>8 DEF Listed
<1>10. Injective(stored') /\ \A j \in 1..Len(stored') : stored'[j].calc # "queued"
  <2>1. \A j \in 1..Len(stored) : stored'[j].id = stored[j].id
    BY <1>5, <1>8
  <2> QED
    BY <1>2, <1>5, <1>8, <2>1 DEF Injective
<1>11. UNCHANGED <<rows, draft, mode, switch, cache, calc, saves, puts, report, counts>>
  BY DEF Calculate
<1> QED
  BY <1>9, <1>10, <1>11 DEF TypeInv

LEMMA DeliverTyped == TypeInv /\ Deliver => TypeInv'
<1> SUFFICES ASSUME TypeInv, Deliver PROVE TypeInv'
  OBVIOUS
<1>1. PICK some \in SUBSET Done(stored) : rows' = Applied(rows, stored, some)
  BY DEF Deliver
<1>2. counts.fresh \in Nat /\ Listed(rows, counts.fresh) /\ Listed(stored, counts.fresh)
  BY TopIs DEF TypeInv
<1>3. Listed(rows', counts.fresh)
  BY <1>1, <1>2, AppliedIs
<1> QED
  BY <1>3 DEF Deliver, TypeInv

\* The statuses the server reports are those of the stored lines, in their order.
LEMMA StatusesAre ==
  ASSUME TypeInv
  PROVE  /\ Listed(Statuses, counts.fresh) /\ SameTexts(Statuses, stored) /\ SameIds(Statuses, stored)
         /\ \A k \in 1..Len(stored) : Statuses[k].of = stored[k].of /\ (Statuses[k].calc = "done" <=> stored[k].calc = "done")
<1>1. counts.fresh \in Nat /\ Listed(stored, counts.fresh)
  BY TopIs DEF TypeInv
<1>2. /\ Listed(Statuses, counts.fresh) /\ SameTexts(Statuses, stored) /\ SameIds(Statuses, stored)
      /\ \A k \in 1..Len(stored) : Statuses[k].of = stored[k].of
  <2>1. CASE calc.running
    BY <1>1, <2>1, QueuedIs DEF Statuses
  <2>2. CASE ~calc.running
    BY <1>1, <2>2 DEF Statuses, SameTexts, SameIds
  <2> QED
    BY <2>1, <2>2
<1>3. ASSUME NEW k \in 1..Len(stored)
      PROVE  Statuses[k].calc = "done" <=> stored[k].calc = "done"
  <2>1. k \in 1..Len(Statuses)
    BY <1>2 DEF SameIds
  <2> HIDE DEF Statuses
  <2> QED
    BY <1>1, <1>2, <2>1, LineOf
<1> QED
  BY <1>2, <1>3

LEMMA HandleReportTyped == TypeInv /\ HandleReport => TypeInv'
<1> SUFFICES ASSUME TypeInv, HandleReport PROVE TypeInv'
  OBVIOUS
<1>1. Listed(Statuses, counts.fresh) /\ Statuses \in Seq(LineRecord)
  BY StatusesAre DEF Listed
<1>2. report' \in ReportRecord /\ report'.lines = Statuses
  BY <1>1 DEF HandleReport, ReportRecord
<1> QED
  BY <1>1, <1>2 DEF HandleReport, TypeInv

LEMMA ReportDoneTyped == TypeInv /\ ReportDone => TypeInv'
<1> SUFFICES ASSUME TypeInv, ReportDone PROVE TypeInv'
  OBVIOUS
<1>1. counts.fresh \in Nat /\ Listed(rows, counts.fresh) /\ Listed(report.lines, counts.fresh)
  BY TopIs DEF TypeInv
<1>2. rows' = Applied(rows, report.lines, 1..Len(report.lines))
  BY DEF ReportDone
<1>3. Listed(rows', counts.fresh)
  BY <1>1, <1>2, AppliedIs
<1>4. report' \in ReportRecord /\ report'.lines = <<>>
  BY DEF ReportDone, NoReport, ReportRecord
<1> QED
  BY <1>3, <1>4, NothingListed DEF ReportDone, TypeInv

LEMMA TypeInvNext == TypeInv /\ [TextNext]_textVars => TypeInv'
<1>1. TypeInv /\ UNCHANGED textVars => TypeInv'
  BY DEF textVars, TypeInv
<1> QED
  BY <1>1, TypeTyped, ToTableTyped, ReadDetailTyped, RefreshTyped, ShowTableTyped, DeleteTyped, MoveTyped,
     ToTextTyped, HandleCancelTyped, ShowTextTyped, SaveTyped, SendPutTyped, HandlePutTyped, PutDoneTyped,
     HandleStartTyped, CalculateTyped, DeliverTyped, HandleReportTyped, ReportDoneTyped DEF TextNext

LEMMA TypeInvHolds == TextSpec => []TypeInv
<1>1. TextInit => TypeInv
  BY TypeInvInit
<1>2. TypeInv /\ [TextNext]_textVars => TypeInv'
  BY TypeInvNext
<1> QED
  BY <1>1, <1>2, PTL DEF TextSpec
-----------------------------------------------------------------------------
(* The lines are lines, and the stored ones have ids of their own.         *)

LEMMA SharedTyped == (TextInit => shared \in BOOLEAN) /\ ([TextNext]_textVars /\ shared \in BOOLEAN => shared' \in BOOLEAN)
<1>1. TextInit => shared \in BOOLEAN
  BY DEF TextInit
<1>2. ASSUME TextNext PROVE shared' \in BOOLEAN
  <2>1. shared' = (shared \/ ~DistinctIds')
    BY <1>2 DEF TextNext
  <2> HIDE DEF DistinctIds
  <2> QED
    BY <2>1, Zenon
<1>3. UNCHANGED textVars /\ shared \in BOOLEAN => shared' \in BOOLEAN
  BY DEF textVars
<1> QED
  BY <1>1, <1>2, <1>3

LEMMA TypeInvSays == TypeInv /\ shared \in BOOLEAN => TextTypeOK
<1> SUFFICES ASSUME TypeInv, shared \in BOOLEAN PROVE TextTypeOK
  OBVIOUS
<1>1. ASSUME NEW lines, Listed(lines, counts.fresh), NEW k \in 1..Len(lines) PROVE IsLine(lines[k])
  <2>1. counts.fresh \in Nat
    BY TopIs
  <2> QED
    BY <1>1, <2>1, LineOf DEF IsLine
<1>2. IsInjective([k \in 1..Len(stored) |-> stored[k].id])
  BY DEF IsInjective, Injective, TypeInv
<1>3. Listed(rows, counts.fresh) /\ Listed(stored, counts.fresh)
  BY DEF TypeInv
<1>4. (\A k \in 1..Len(rows) : IsLine(rows[k])) /\ (\A k \in 1..Len(stored) : IsLine(stored[k]))
  BY <1>1, <1>3
<1>5. \A k \in 1..Len(draft) : draft[k] \in LineTexts
  BY DEF TypeInv
<1> QED
  BY <1>2, <1>4, <1>5 DEF TypeInv, TextTypeOK, SwitchRecord

\* What TextTypeOK says is so after any edits, changes of the view, saves and answers in any
\* order: in particular no save stores two lines under one id.
THEOREM TextTyped == TextSpec => []TextTypeOK
<1>1. TextInit => TypeInv /\ shared \in BOOLEAN
  BY TypeInvInit, SharedTyped
<1>2. TypeInv /\ shared \in BOOLEAN /\ [TextNext]_textVars => (TypeInv /\ shared \in BOOLEAN)'
  BY TypeInvNext, SharedTyped
<1>3. TypeInv /\ shared \in BOOLEAN => TextTypeOK
  BY TypeInvSays
<1> QED
  BY <1>1, <1>2, <1>3, PTL DEF TextSpec
-----------------------------------------------------------------------------
(* A user who waits for the answers: at most one save is on its way.       *)

Calm == "hurry" \notin Cases

OneAtATime ==
  /\ saves.waiting = 0 /\ saves.ready \in {0, 1} /\ Len(puts) <= 1
  /\ saves.start => saves.ready = 1
  /\ switch.at = "shown" => switch = Shown
  /\ switch.at \in {"detail", "read"} => mode = "text"
  /\ switch.at \in {"cancel", "cancelled"} => mode = "table"
  /\ report.at = "none" => report = NoReport
  /\ (switch # Shown \/ saves.ready # 0 \/ puts # <<>>) => (report = NoReport /\ ~calc.asked)
  /\ saves.ready # 0 => puts = <<>>
  /\ switch # Shown => (saves.ready = 0 /\ puts = <<>>)
  /\ mode = "text" => report = NoReport

LEMMA GestureIsAtRest == Calm => (Edit => AtRest) /\ (Switch => AtRest) /\ (Gesture => AtRest)
BY DEF Calm, Edit, Switch, Gesture

LEMMA ShownIs == Shown.at = "shown" /\ NoReport.at = "none"
BY DEF Shown, NoReport

LEMMA OneAtATimeInit == TextInit => OneAtATime
BY ShownIs DEF TextInit, OneAtATime

\* What a save that a gesture asks for leaves.
LEMMA AskedAtRest ==
  ASSUME TypeInv, AtRest, NEW new, new = Asked
  PROVE  new.waiting = 0 /\ new.ready = 1 /\ new.start = saves.start
BY DEF TypeInv, AtRest, Asked

LEMMA EditedOne ==
  ASSUME TypeInv, OneAtATime, AtRest, saves' = Asked, UNCHANGED <<mode, switch, puts, report, calc>>
  PROVE  OneAtATime'
<1>1. saves'.waiting = 0 /\ saves'.ready = 1
  BY AskedAtRest
<1> QED
  BY <1>1 DEF OneAtATime, AtRest

\* Nothing is on its way after the only one has gone.
LEMMA OnlyOne ==
  ASSUME NEW S, NEW s \in Seq(S), Len(s) <= 1, NEW i \in 1..Len(s)
  PROVE  i = 1 /\ Len(s) = 1 /\ RemoveAt(s, i) = <<>>
<1> DEFINE n == Len(s)
<1>a. n \in Nat /\ n <= 1 /\ i \in 1..n
  OBVIOUS
<1>1. n \in Nat /\ i = 1 /\ n = 1
  <2> HIDE DEF n
  <2> QED
    BY <1>a
<1>2. RemoveAt(s, i) \in Seq(S) /\ Len(RemoveAt(s, i)) = 0
  BY <1>1, ElementRemoved
<1>3. RemoveAt(s, i) = <<>>
  BY <1>2, EmptySeq
<1> QED
  BY <1>1, <1>3

LEMMA OneAtATimeNext ==
  ASSUME Calm, TypeInv, OneAtATime, [TextNext]_textVars
  PROVE  OneAtATime'
<1>1. CASE Type
  BY <1>1 DEF Type, OneAtATime
<1>2. CASE ToTable
  <2>1. AtRest /\ switch'.at \in {"detail", "read"} /\ mode = "text"
    BY <1>2, GestureIsAtRest DEF ToTable
  <2>2. switch' # Shown /\ switch'.at # "shown"
    BY <2>1, ShownIs
  <2> QED
    BY <1>2, <2>1, <2>2 DEF ToTable, OneAtATime, AtRest
<1>3. CASE ReadDetail
  <2>1. switch.at = "detail" /\ switch'.at = "read"
    BY <1>3 DEF ReadDetail, TypeInv, SwitchRecord
  <2>2. switch' # Shown /\ switch # Shown
    BY <2>1, ShownIs
  <2> QED
    BY <1>3, <2>1, <2>2 DEF ReadDetail, OneAtATime
<1>4. CASE Refresh
  BY <1>4 DEF Refresh, OneAtATime
<1>5. CASE ShowTable
  <2>1. switch # Shown /\ report = NoReport /\ ~calc.asked /\ saves.ready = 0 /\ puts = <<>> /\ saves.waiting = 0
    BY <1>5, ShownIs DEF ShowTable, OneAtATime
  <2>2. saves' = [Asked EXCEPT !.start = TRUE] \/ saves' = saves
    BY <1>5 DEF ShowTable
  <2>3. Asked = [saves EXCEPT !.ready = 1]
    BY <2>1 DEF Asked
  <2>4. saves'.waiting = 0 /\ saves'.ready \in {0, 1} /\ (saves'.start => saves'.ready = 1)
    BY <2>1, <2>2, <2>3 DEF TypeInv, OneAtATime
  <2>5. puts' = <<>>
    BY <1>5, <2>1 DEF ShowTable
  <2> QED
    BY <1>5, <2>1, <2>4, <2>5, ShownIs DEF ShowTable, OneAtATime
<1>6. CASE Delete
  <2>1. AtRest /\ saves' = Asked /\ UNCHANGED <<mode, switch, puts, report, calc>>
    BY <1>6, GestureIsAtRest DEF Delete, Changed
  <2> QED
    BY <2>1, EditedOne
<1>7. CASE Move
  <2>1. AtRest /\ saves' = Asked /\ UNCHANGED <<mode, switch, puts, report, calc>>
    BY <1>7, GestureIsAtRest DEF Move, Changed
  <2> QED
    BY <2>1, EditedOne
<1>8. CASE ToText
  <2>1. AtRest /\ switch'.at = "cancel" /\ mode = "table"
    BY <1>8, GestureIsAtRest DEF ToText, Shown
  <2>2. switch' # Shown
    BY <2>1, ShownIs
  <2> QED
    BY <1>8, <2>1, <2>2 DEF ToText, OneAtATime, AtRest
<1>9. CASE HandleCancel
  <2>1. switch.at = "cancel" /\ switch'.at = "cancelled" /\ ~calc.asked => ~calc'.asked
    BY <1>9 DEF HandleCancel, TypeInv, SwitchRecord
  <2>2. switch.at = "cancel" /\ switch'.at = "cancelled"
    BY <1>9 DEF HandleCancel, TypeInv, SwitchRecord
  <2>3. switch' # Shown /\ switch # Shown
    BY <2>2, ShownIs
  <2> QED
    BY <1>9, <2>1, <2>2, <2>3 DEF HandleCancel, OneAtATime
<1>10. CASE ShowText
  <2>1. switch # Shown
    BY <1>10, ShownIs DEF ShowText
  <2> QED
    BY <1>10, <2>1, ShownIs DEF ShowText, OneAtATime
<1>11. CASE Save
  <2>1. AtRest /\ saves' = Asked /\ UNCHANGED <<mode, switch, puts, report, calc>>
    BY <1>11, GestureIsAtRest DEF Save
  <2> QED
    BY <2>1, EditedOne
<1>12. CASE SendPut
  <2>1. saves.ready = 1 /\ puts = <<>> /\ report = NoReport /\ ~calc.asked /\ switch = Shown
    BY <1>12 DEF SendPut, OneAtATime
  <2>2. Len(puts') = 1 /\ puts' # <<>>
    BY <1>12, <2>1 DEF SendPut
  <2>3. saves'.ready = 0 /\ saves'.waiting = 0 /\ ~saves'.start
    BY <1>12, <2>1 DEF SendPut, TypeInv, OneAtATime
  <2>4. UNCHANGED <<mode, switch, report, calc>>
    BY <1>12 DEF SendPut
  <2> QED
    BY <2>1, <2>2, <2>3, <2>4 DEF OneAtATime
<1>13. CASE HandlePut
  <2>1. puts # <<>> /\ Len(puts') = Len(puts) /\ puts' # <<>>
    <3>1. PICK i \in 1..Len(puts) : puts' = [puts EXCEPT ![i].at = "stored", ![i].lines = Cleared(Brought(puts[i]))]
      BY <1>13 DEF HandlePut, Brought
    <3>2. Len(puts) \in Nat /\ puts \in Seq(PutRecord)
      BY DEF TypeInv
    <3>3. DOMAIN puts' = 1..Len(puts)
      BY <3>1, <3>2
    <3>4. puts # <<>>
      BY <3>2
    <3>5. Len(puts') = Len(puts)
      BY <3>1, <3>2
    <3> QED
      BY <3>2, <3>4, <3>5
  <2> QED
    BY <1>13, <2>1 DEF HandlePut, OneAtATime
<1>14. CASE PutDone
  <2>1. PICK i \in 1..Len(puts) :
          /\ \/ UNCHANGED <<rows, draft, report>>
             \/ report' = report
             \/ report' = Asking /\ mode = "table"
          /\ puts' = RemoveAt(puts, i)
          /\ saves' = IF i = Len(puts) THEN [saves EXCEPT !.ready = saves.ready + saves.waiting, !.waiting = 0] ELSE saves
          /\ UNCHANGED <<mode, switch, stored, counts>>
    BY <1>14 DEF PutDone, Asking, NoReport
  <2>2. puts \in Seq(PutRecord) /\ Len(puts) <= 1 /\ Len(puts) \in Nat
    BY DEF TypeInv, OneAtATime
  <2>3. puts' = <<>> /\ puts # <<>>
    <3>1. puts' = <<>>
      BY <2>1, <2>2, OnlyOne
    <3>2. puts # <<>>
      BY <2>1, <2>2
    <3> QED
      BY <3>1, <3>2
  <2>4. saves.waiting = 0 /\ saves.ready = 0 /\ ~saves.start /\ switch = Shown /\ report = NoReport
    BY <2>3 DEF OneAtATime, TypeInv
  <2>5. saves'.waiting = 0 /\ saves'.ready = 0 /\ ~saves'.start
    BY <2>1, <2>4 DEF TypeInv
  <2>6. report' = NoReport \/ (report'.at = "asked" /\ mode = "table")
    BY <2>1, <2>4 DEF Asking
  <2> QED
    BY <2>1, <2>3, <2>4, <2>5, <2>6, ShownIs DEF OneAtATime
<1>15. CASE HandleStart
  BY <1>15 DEF HandleStart, OneAtATime
<1>16. CASE Calculate
  BY <1>16 DEF Calculate, OneAtATime
<1>17. CASE Deliver
  BY <1>17 DEF Deliver, OneAtATime
<1>18. CASE HandleReport
  <2>1. report # NoReport
    BY <1>18, ShownIs DEF HandleReport
  <2> QED
    BY <1>18, <2>1 DEF HandleReport, OneAtATime
<1>19. CASE ReportDone
  <2>1. report # NoReport
    BY <1>19, ShownIs DEF ReportDone
  <2> QED
    BY <1>19, <2>1, ShownIs DEF ReportDone, OneAtATime
<1>20. CASE UNCHANGED textVars
  BY <1>20 DEF textVars, OneAtATime
<1> QED
  BY <1>1, <1>2, <1>3, <1>4, <1>5, <1>6, <1>7, <1>8, <1>9, <1>10, <1>11, <1>12, <1>13, <1>14, <1>15, <1>16,
     <1>17, <1>18, <1>19, <1>20 DEF TextNext
-----------------------------------------------------------------------------
(* An estimate opened without results: neither the text view nor what the  *)
(* page keeps of the answers of saves ever has one.                        *)

Uncounted == "results" \notin Cases

NoResults ==
  /\ WithoutResults(cache) /\ WithoutResults(switch.saved)
  /\ \A i \in 1..Len(puts) : puts[i].own /\ (puts[i].at = "stored" => WithoutResults(puts[i].lines))
  /\ (mode = "text" \/ switch.at = "cancelled") =>
       /\ WithoutResults(stored) /\ ~calc.running /\ ~calc.asked /\ ~saves.start
       /\ \A i \in 1..Len(puts) : ~puts[i].start

LEMMA NothingWithoutResults == WithoutResults(<<>>)
<1>1. Len(<<>>) = 0
  OBVIOUS
<1> QED
  BY <1>1 DEF WithoutResults

LEMMA ClearedWithoutResults ==
  ASSUME NEW top \in Nat, NEW lines, Listed(lines, top)
  PROVE  WithoutResults(Cleared(lines))
<1> DEFINE C == Cleared(lines)
<1>1. SameTexts(C, lines) /\ \A k \in 1..Len(lines) : C[k].calc = "none"
  BY ClearedIs
<1> HIDE DEF C
<1>2. WithoutResults(C)
  BY <1>1 DEF SameTexts, WithoutResults
<1> QED
  BY <1>2 DEF C

\* The PUT that is sent is the only one.
LEMMA PutSent ==
  ASSUME TypeInv, OneAtATime, SendPut
  PROVE  /\ Len(puts') = 1 /\ puts'[1].lines = Sending /\ puts'[1].at = "sent" /\ puts'[1].own
         /\ puts'[1].start = saves.start
         /\ puts = <<>> /\ report = NoReport /\ switch = Shown /\ saves.ready = 1 /\ saves'.ready = 0 /\ ~saves'.start
         /\ rows' = Sending /\ UNCHANGED <<draft, mode, switch, cache, stored, calc, report, typed, counts>>
<1>1. saves.ready = 1 /\ puts = <<>> /\ switch = Shown /\ report = NoReport
  BY DEF SendPut, OneAtATime
<1>2. rows' = Sending /\ puts' = Append(puts, [lines |-> Sending, at |-> "sent", own |-> TRUE, start |-> saves.start])
      /\ UNCHANGED <<draft, mode, switch, cache, stored, calc, report, typed, counts>>
  BY DEF SendPut, Sending
<1> DEFINE put == [lines |-> Sending, at |-> "sent", own |-> TRUE, start |-> saves.start]
<1>3. put.lines = Sending /\ put.at = "sent" /\ put.own /\ put.start = saves.start
  OBVIOUS
<1>4. puts' = Append(<<>>, put)
  BY <1>1, <1>2
<1> HIDE DEF put
<1>5. Len(puts') = 1 /\ puts'[1] = put
  BY <1>4
<1>6. saves'.ready = 0 /\ ~saves'.start
  BY <1>1 DEF SendPut, TypeInv
<1> QED
  BY <1>1, <1>2, <1>3, <1>5, <1>6

\* The PUT that is handled is the only one.
LEMMA OnlyPutHandled ==
  ASSUME TypeInv, OneAtATime, HandlePut
  PROVE  /\ Len(puts) = 1 /\ 1 \in 1..Len(puts) /\ puts[1].at = "sent"
         /\ stored' = Kept(Unique(Brought(puts[1]), counts.fresh), stored)
         /\ puts' = [puts EXCEPT ![1].at = "stored", ![1].lines = Cleared(Brought(puts[1]))]
         /\ counts' = [counts EXCEPT !.fresh = @ + Cardinality(Repeating(Brought(puts[1])))]
         /\ UNCHANGED <<rows, draft, mode, switch, cache, calc, saves, report, typed>>
<1>1. PICK i \in 1..Len(puts) :
        /\ puts[i].at = "sent"
        /\ stored' = Kept(Unique(Brought(puts[i]), counts.fresh), stored)
        /\ puts' = [puts EXCEPT ![i].at = "stored", ![i].lines = Cleared(Brought(puts[i]))]
        /\ counts' = [counts EXCEPT !.fresh = @ + Cardinality(Repeating(Brought(puts[i])))]
        /\ UNCHANGED <<rows, draft, mode, switch, cache, calc, saves, report, typed>>
  BY DEF HandlePut, Brought
<1>2. puts \in Seq(PutRecord) /\ Len(puts) <= 1
  BY DEF TypeInv, OneAtATime
<1>3. i = 1 /\ Len(puts) = 1
  BY <1>2, OnlyOne
<1> QED
  BY <1>1, <1>3

\* The answer that is read is the only one.
LEMMA OnlyPutDone ==
  ASSUME TypeInv, OneAtATime, PutDone
  PROVE  /\ Len(puts) = 1 /\ 1 \in 1..Len(puts) /\ puts[1].at = "stored" /\ puts' = <<>>
         /\ IF ~puts[1].own \/ (mode = "table" /\ puts[1].lines = <<>>) THEN UNCHANGED <<rows, draft, report>>
            ELSE /\ rows' = Answering(puts[1].lines)
                 /\ draft' = IF mode = "text" /\ draft = Texts(puts[1].lines) THEN Texts(rows') ELSE draft
                 /\ report' = report \/ (mode = "table" /\ report' = Asking)
         /\ calc' = IF puts[1].start THEN [calc EXCEPT !.asked = TRUE] ELSE calc
         /\ cache' = puts[1].lines
         /\ saves'.start = saves.start
         /\ UNCHANGED <<mode, switch, stored, typed, counts>>
<1>1. PICK i \in 1..Len(puts) :
        /\ puts[i].at = "stored"
        /\ IF ~puts[i].own \/ (mode = "table" /\ puts[i].lines = <<>>) THEN UNCHANGED <<rows, draft, report>>
           ELSE /\ rows' = Answering(puts[i].lines)
                /\ draft' = IF mode = "text" /\ draft = Texts(puts[i].lines) THEN Texts(rows') ELSE draft
                /\ report' = report \/ (mode = "table" /\ report' = Asking)
        /\ calc' = IF puts[i].start THEN [calc EXCEPT !.asked = TRUE] ELSE calc
        /\ puts' = RemoveAt(puts, i) /\ cache' = puts[i].lines
        /\ saves' = [saves EXCEPT !.ready = @ + saves.waiting, !.waiting = 0] \/ saves' = saves
        /\ UNCHANGED <<mode, switch, stored, typed, counts>>
  BY PutDoneIs
<1>2. puts \in Seq(PutRecord) /\ Len(puts) <= 1
  BY DEF TypeInv, OneAtATime
<1>3. i = 1 /\ Len(puts) = 1 /\ RemoveAt(puts, i) = <<>>
  BY <1>2, OnlyOne
<1>4. saves'.start = saves.start
  BY <1>1 DEF TypeInv
<1> QED
  BY <1>1, <1>3, <1>4

LEMMA NoResultsInit == Uncounted /\ TextInit => NoResults
<1> SUFFICES ASSUME Uncounted, TextInit PROVE NoResults
  OBVIOUS
<1>1. \A k \in 1..Len(stored) : stored[k] = Line(stored[k].id, stored[k].text, Uncalculated)
  BY OpenedAssumption DEF Uncounted, TextInit
<1>2. ASSUME NEW k \in 1..Len(stored) PROVE stored[k].calc = "none"
  <2>1. Line(stored[k].id, stored[k].text, Uncalculated).calc = "none"
    BY DEF Line, Uncalculated
  <2> QED
    BY <1>1, <2>1
<1>3. WithoutResults(stored) /\ Done(stored) = {}
  BY <1>2 DEF WithoutResults, Done
<1>4. cache = stored /\ switch = Shown /\ puts = <<>>
      /\ calc = [running |-> Done(stored) # {}, asked |-> FALSE] /\ saves = [ready |-> 0, waiting |-> 0, start |-> FALSE]
  BY DEF TextInit
<1>5. ~calc.running /\ ~calc.asked /\ ~saves.start
  BY <1>3, <1>4
<1>6. switch.saved = <<>> /\ Len(puts) = 0
  BY <1>4 DEF Shown
<1> QED
  BY <1>3, <1>4, <1>5, <1>6, NothingWithoutResults DEF NoResults

LEMMA NoResultsNext ==
  ASSUME Calm, TypeInv, OneAtATime, OneAtATime', NoResults, [TextNext]_textVars
  PROVE  NoResults'
<1>1. CASE Type
  BY <1>1 DEF Type, NoResults
<1>2. CASE ToTable
  <2>1. switch'.saved = cache /\ mode = "text"
    BY <1>2 DEF ToTable
  <2> QED
    BY <1>2, <2>1 DEF ToTable, NoResults
<1>3. CASE ReadDetail
  <2>1. switch.at = "detail" /\ switch'.saved = stored /\ cache' = stored /\ mode = "text"
    BY <1>3 DEF ReadDetail, TypeInv, SwitchRecord, OneAtATime
  <2> QED
    BY <1>3, <2>1 DEF ReadDetail, NoResults
<1>4. CASE Refresh
  BY <1>4, NothingWithoutResults DEF Refresh, NoResults
<1>5. CASE ShowTable
  <2>1. switch # Shown /\ puts = <<>>
    BY <1>5, ShownIs DEF ShowTable, OneAtATime
  <2>2. Len(puts') = 0
    BY <1>5, <2>1 DEF ShowTable
  <2>3. switch'.saved = <<>> /\ switch'.at = "shown" /\ mode' = "table" /\ cache' = cache
    BY <1>5 DEF ShowTable, Shown
  <2> QED
    BY <2>2, <2>3, NothingWithoutResults DEF NoResults
<1>6. CASE Delete \/ Move
  <2>1. AtRest /\ mode = "table" /\ UNCHANGED <<mode, switch, cache, stored, calc, puts>>
    BY <1>6, GestureIsAtRest DEF Delete, Move, Changed
  <2>2. switch.at = "shown"
    BY <2>1, ShownIs DEF AtRest
  <2> QED
    BY <2>1, <2>2 DEF NoResults
<1>8. CASE ToText
  <2>1. switch'.at = "cancel" /\ switch'.saved = <<>> /\ mode' = "table" /\ UNCHANGED <<cache, puts>>
    BY <1>8 DEF ToText, Shown
  <2> QED
    BY <2>1, NothingWithoutResults DEF NoResults
<1>9. CASE HandleCancel
  <2>1. switch.at = "cancel" /\ switch'.saved = switch.saved /\ UNCHANGED <<cache, puts, saves>>
    BY <1>9 DEF HandleCancel, TypeInv, SwitchRecord
  <2>2. switch # Shown /\ ~calc.asked /\ saves.ready = 0 /\ puts = <<>> /\ ~saves.start
    BY <2>1, ShownIs DEF OneAtATime, TypeInv
  <2>3. ~calc'.running /\ ~calc'.asked
    BY <1>9, <2>2 DEF HandleCancel, TypeInv
  <2>4. counts.fresh \in Nat /\ Listed(stored, counts.fresh) /\ stored' = Cleared(stored)
    BY <1>9, TopIs DEF HandleCancel, TypeInv
  <2>5. WithoutResults(stored')
    BY <2>4, ClearedWithoutResults
  <2>6. Len(puts') = 0
    BY <2>1, <2>2
  <2> QED
    BY <2>1, <2>2, <2>3, <2>5, <2>6 DEF NoResults
<1>10. CASE ShowText
  <2>1. switch.at = "cancelled" /\ switch'.saved = <<>> /\ UNCHANGED <<cache, stored, calc, saves, puts>>
    BY <1>10 DEF ShowText, Shown
  <2> QED
    BY <2>1, NothingWithoutResults DEF NoResults
<1>11. CASE Save
  <2>1. saves'.start = saves.start
    BY <1>11, AskedIs DEF Save, TypeInv
  <2> QED
    BY <1>11, <2>1 DEF Save, NoResults
<1>12. CASE SendPut
  <2>1. /\ Len(puts') = 1 /\ puts'[1].at = "sent" /\ puts'[1].own /\ puts'[1].start = saves.start /\ ~saves'.start
        /\ UNCHANGED <<mode, switch, cache, stored, calc>>
    BY <1>12, PutSent
  <2>2. \A i \in 1..Len(puts') : puts'[i] = puts'[1]
    BY <2>1
  <2> QED
    BY <2>1, <2>2 DEF NoResults
<1>13. CASE HandlePut
  <2>1. /\ Len(puts) = 1 /\ 1 \in 1..Len(puts)
        /\ stored' = Kept(Unique(Brought(puts[1]), counts.fresh), stored)
        /\ puts' = [puts EXCEPT ![1].at = "stored", ![1].lines = Cleared(Brought(puts[1]))]
        /\ counts' = [counts EXCEPT !.fresh = @ + Cardinality(Repeating(Brought(puts[1])))]
        /\ UNCHANGED <<mode, switch, cache, calc, saves>>
    BY <1>13, OnlyPutHandled
  <2>2. /\ Listed(Brought(puts[1]), counts.fresh) /\ Len(puts') = 1
        /\ puts'[1].lines = Cleared(Brought(puts[1])) /\ puts'[1].start = puts[1].start
        /\ \A k \in 1..Len(stored') :
             \/ stored'[k].calc = "none"
             \/ stored'[k].calc = "done" /\ Done(stored) # {}
    BY <2>1, PutHandled
  <2>3. puts'[1].own = puts[1].own
    <3>1. puts \in Seq(PutRecord)
      BY DEF TypeInv
    <3>2. puts[1] \in PutRecord
      BY <2>1, <3>1
    <3> QED
      BY <2>1, <3>1, <3>2 DEF PutRecord
  <2>4. counts.fresh \in Nat
    BY TopIs
  <2>5. WithoutResults(puts'[1].lines)
    BY <2>2, <2>4, ClearedWithoutResults
  <2>6. WithoutResults(stored) => WithoutResults(stored')
    BY <2>2 DEF WithoutResults, Done
  <2>7. \A i \in 1..Len(puts') : i = 1
    BY <2>2
  <2> QED
    BY <2>1, <2>2, <2>3, <2>5, <2>6, <2>7 DEF NoResults
<1>14. CASE PutDone
  <2>1. /\ 1 \in 1..Len(puts) /\ puts[1].at = "stored" /\ puts' = <<>> /\ cache' = puts[1].lines
        /\ calc' = (IF puts[1].start THEN [calc EXCEPT !.asked = TRUE] ELSE calc)
        /\ saves'.start = saves.start
        /\ UNCHANGED <<mode, switch, stored>>
    BY <1>14, OnlyPutDone
  <2>2. Len(puts') = 0
    BY <2>1
  <2>3. WithoutResults(cache')
    BY <2>1 DEF NoResults
  <2> QED
    BY <2>1, <2>2, <2>3 DEF NoResults
<1>15. CASE HandleStart
  BY <1>15 DEF HandleStart, NoResults
<1>16. CASE Calculate
  BY <1>16 DEF Calculate, NoResults
<1>17. CASE Deliver
  BY <1>17 DEF Deliver, NoResults
<1>18. CASE HandleReport
  BY <1>18 DEF HandleReport, NoResults
<1>19. CASE ReportDone
  BY <1>19 DEF ReportDone, NoResults
<1>20. CASE UNCHANGED textVars
  BY <1>20 DEF textVars, NoResults
<1> QED
  BY <1>1, <1>2, <1>3, <1>4, <1>5, <1>6, <1>8, <1>9, <1>10, <1>11, <1>12, <1>13, <1>14, <1>15, <1>16,
     <1>17, <1>18, <1>19, <1>20 DEF TextNext
-----------------------------------------------------------------------------
(* The lines of the table and the stored lines.                            *)

\* Two rows with one id are noticed at once.
Apart == shared \/ Injective(rows)

LEMMA ApartInit == TextInit => Apart
<1> SUFFICES ASSUME TextInit PROVE Injective(rows)
  BY DEF Apart
<1>1. TypeInv
  BY TypeInvInit
<1>2. counts.fresh \in Nat /\ Listed(stored, counts.fresh) /\ Injective(stored) /\ rows = Written(stored)
  BY <1>1, TopIs DEF TypeInv, TextInit
<1>3. Len(rows) = Len(stored) /\ SameIds(rows, stored)
  BY <1>2, WrittenIs
<1> QED
  BY <1>2, <1>3 DEF Injective, SameIds

LEMMA ApartNext ==
  ASSUME [TextNext]_textVars, Apart
  PROVE  Apart' /\ (shared => shared')
<1>1. CASE TextNext
  <2>1. shared' = (shared \/ ~DistinctIds')
    BY <1>1 DEF TextNext
  <2>2. DistinctIds' => Injective(rows')
    BY DEF DistinctIds, IsInjective, Injective
  <2> HIDE DEF DistinctIds
  <2>3. shared' \/ DistinctIds'
    BY <2>1, Zenon
  <2>4. shared => shared'
    BY <2>1, Zenon
  <2> QED
    BY <2>2, <2>3, <2>4 DEF Apart
<1>2. CASE UNCHANGED textVars
  BY <1>2 DEF textVars, Apart
<1> QED
  BY <1>1, <1>2

SameContents(lines, other) ==
  /\ Len(lines) = Len(other)
  /\ \A k \in 1..Len(other) : Content(lines[k].text) = Content(other[k].text)

\* What is on its way between the table and the server are the rows as they are.
InTable ==
  (mode = "table" /\ rows # <<>> /\ saves.ready = 0) =>
    /\ puts # <<>> => puts[1].lines = IF puts[1].at = "sent" THEN rows ELSE Cleared(rows)
    /\ (puts = <<>> \/ puts[1].at = "stored") =>
         SameContents(stored, rows) /\ (~shared => SameIds(stored, rows))

LEMMA SameTextsSay ==
  ASSUME NEW lines, NEW other, SameTexts(lines, other)
  PROVE  SameContents(lines, other)
BY DEF SameTexts, SameContents

LEMMA SameInTurn ==
  ASSUME NEW a, NEW b, NEW c
  PROVE  /\ SameContents(a, b) /\ SameContents(b, c) => SameContents(a, c)
         /\ SameIds(a, b) /\ SameIds(b, c) => SameIds(a, c)
         /\ SameContents(a, b) => SameContents(b, a)
         /\ SameIds(a, b) => SameIds(b, a)
BY DEF SameContents, SameIds

\* Lists of one length are empty together.
LEMMA EmptyTogether ==
  ASSUME NEW top, NEW lines, Listed(lines, top), NEW other, Listed(other, top), Len(lines) = Len(other)
  PROVE  lines = <<>> <=> other = <<>>
<1>1. lines \in Seq(LineRecord) /\ other \in Seq(LineRecord)
  BY DEF Listed
<1> QED
  BY <1>1, EmptyIs

\* The lines that are alike come back in their order: where the ids stay distinct, each line keeps
\* its own.
LEMMA SyncedKeeps ==
  ASSUME NEW top \in Nat, NEW lines, Listed(lines, top), NEW saved, saved = Cleared(lines),
         NEW S, S = SyncedIds(lines, saved), Injective(S)
  PROVE  SameIds(S, lines)
<1> DEFINE m == Len(lines)
           key(j) == SyncKey(lines[j])
           P(k) == Alike(saved, lines[k])
           n(k) == Occurrence(lines, k, SyncKey)
           upTo(k, j) == {i \in P(k) : i <= j}
           at(k) == {j \in P(k) : Cardinality(upTo(k, j)) = n(k)}
           Wrong == {k \in 1..m : S[k].id # lines[k].id}
<1>1. m \in Nat /\ SameTexts(saved, lines) /\ SameIds(saved, lines) /\ Len(saved) = m
      /\ (\A k \in 1..m : saved[k].orig = FALSE) /\ Listed(saved, top)
  <2>1. Listed(saved, top) /\ SameTexts(saved, lines) /\ SameIds(saved, lines) /\ \A k \in 1..m : saved[k].orig = FALSE
    BY ClearedIs
  <2>2. m \in Nat
    BY DEF Listed
  <2> QED
    BY <2>1, <2>2 DEF SameTexts
<1>2. Len(S) = m
  <2>1. SameTexts(S, lines)
    BY <1>1, SyncedIs
  <2> QED
    BY <2>1 DEF SameTexts
<1>a. ASSUME NEW k PROVE at(k) \in SUBSET Nat /\ at(k) \subseteq 1..m
  <2>1. P(k) \subseteq 1..m
    BY <1>1 DEF Alike
  <2>2. at(k) \subseteq P(k)
    OBVIOUS
  <2> HIDE DEF at, P, m
  <2>3. 1..m \subseteq Nat
    BY <1>1
  <2> QED
    BY <2>1, <2>2, <2>3
<1>3. ASSUME NEW k \in 1..m
      PROVE  S[k].id = lines[k].id \/ (at(k) # {} /\ S[k].id = lines[Min(at(k))].id)
  <2> DEFINE c == Counterpart(lines, saved, k, n(k))
  <2>1. S[k] = IF c = NoLine THEN lines[k] ELSE [lines[k] EXCEPT !.id = c.id]
    BY DEF SyncedIds
  <2>2. lines[k] \in LineRecord
    BY LineOf
  <2>3. S[k].id = lines[k].id \/ S[k].id = c.id
    <3> HIDE DEF c
    <3> QED
      BY <2>1, <2>2 DEF LineRecord
  <2>4. c = Nth(saved, P(k), n(k), saved[k])
    BY <1>1 DEF Counterpart
  <2>5. c = IF at(k) = {} THEN saved[k] ELSE saved[Min(at(k))]
    BY <2>4 DEF Nth
  <2>6. at(k) # {} => Min(at(k)) \in 1..m
    <3>1. at(k) \in SUBSET Nat /\ at(k) \subseteq 1..m
      BY <1>a
    <3>2. at(k) # {} => Min(at(k)) \in at(k)
      <4> HIDE DEF at
      <4> QED
        BY <3>1, LeastOf
    <3> QED
      BY <3>1, <3>2
  <2> HIDE DEF c, at, P, n
  <2> QED
    BY <1>1, <2>3, <2>5, <2>6 DEF SameIds
<1>4. Wrong = {}
  <2> SUFFICES ASSUME Wrong # {} PROVE FALSE
    OBVIOUS
  <2> DEFINE k == Min(Wrong)
             j == Min(at(k))
  <2>1. k \in Wrong /\ \A i \in Wrong : k <= i
    <3>1. Wrong \in SUBSET Nat
      BY <1>1
    <3> HIDE DEF Wrong
    <3> QED
      BY <3>1, LeastOf
  <2>2. k \in 1..m /\ S[k].id # lines[k].id
    BY <2>1
  <2> HIDE DEF k
  <2>3. at(k) # {} /\ S[k].id = lines[j].id
    BY <1>3, <2>2
  <2>4. at(k) \in SUBSET Nat
    BY <1>a
  <2>5. j \in at(k)
    <3> HIDE DEF at
    <3> QED
      BY <2>3, <2>4, LeastOf
  <2> HIDE DEF j
  <2>6. j \in P(k) /\ Cardinality(upTo(k, j)) = n(k) /\ j \in 1..m
    BY <1>1, <2>5 DEF Alike
  <2>7. j <= k
    <3> DEFINE before == {i \in 1..k : key(i) = key(k)}
    <3>1. n(k) = Cardinality(before)
      BY DEF Occurrence
    <3>2. ASSUME k < j PROVE FALSE
      <4>1. before \cup {j} \subseteq upTo(k, j)
        <5>1. ASSUME NEW i \in before PROVE i \in upTo(k, j)
          <6>1. i \in 1..k /\ i \in 1..m /\ i \in Nat /\ i <= j /\ key(i) = key(k)
            BY <1>1, <2>2, <2>6, <3>2
          <6>2. lines[i].text = lines[k].text /\ lines[i].orig = lines[k].orig
            BY <6>1 DEF SyncKey
          <6>3. lines[k].orig = FALSE
            <7>1. SyncKey(saved[j]) = SyncKey(lines[k])
              BY <2>6 DEF Alike
            <7> QED
              BY <1>1, <2>6, <7>1 DEF SyncKey
          <6>4. SyncKey(saved[i]) = SyncKey(lines[k])
            BY <1>1, <6>1, <6>2, <6>3 DEF SyncKey, SameTexts
          <6> QED
            BY <1>1, <6>1, <6>4 DEF Alike
        <5>2. j \in upTo(k, j)
          BY <2>6
        <5> QED
          BY <5>1, <5>2
      <4>2. upTo(k, j) \subseteq 1..m
        BY <1>1 DEF Alike
      <4>3. j \notin before
        BY <1>1, <2>2, <2>6, <3>2
      <4>4. before \subseteq 1..m
        BY <1>1, <2>2
      <4> HIDE DEF before, upTo
      <4>5. IsFiniteSet(before) /\ IsFiniteSet(upTo(k, j))
        <5>1. IsFiniteSet(1..m)
          <6> HIDE DEF m
          <6> QED
            BY <1>1, FS_Interval
        <5> QED
          BY <4>2, <4>4, <5>1, FS_Subset
      <4>6. IsFiniteSet(before \cup {j}) /\ Cardinality(before \cup {j}) = Cardinality(before) + 1
        BY <4>3, <4>5, FS_AddElement
      <4>7. Cardinality(before \cup {j}) <= Cardinality(upTo(k, j))
        BY <4>1, <4>5, FS_Subset
      <4>8. Cardinality(before) \in Nat
        BY <4>5, FS_CardinalityType
      <4> HIDE DEF n
      <4> QED
        BY <2>6, <3>1, <4>6, <4>7, <4>8
    <3> QED
      BY <1>1, <2>2, <2>6, <3>2
  <2>8. CASE j = k
    BY <2>2, <2>3, <2>8
  <2>9. CASE j # k
    <3>1. j \notin Wrong
      BY <1>1, <2>1, <2>2, <2>6, <2>7, <2>9 DEF k
    <3>2. S[j].id = lines[j].id
      BY <2>6, <3>1
    <3>3. j \in 1..Len(S) /\ k \in 1..Len(S) /\ S[j].id = S[k].id
      BY <1>2, <2>2, <2>3, <2>6, <3>2
    <3> QED
      BY <2>9, <3>3 DEF Injective
  <2> QED
    BY <2>8, <2>9
<1>5. \A k \in 1..m : S[k].id = lines[k].id
  BY <1>4
<1> QED
  BY <1>2, <1>5 DEF SameIds
LEMMA InTableInit == TextInit => InTable
<1>1. TextInit => mode = "text"
  BY DEF TextInit
<1>2. "text" # "table"
  OBVIOUS
<1> QED
  BY <1>1, <1>2 DEF InTable

\* Rows that take results say what they said, under the ids they had.
LEMMA InTableApplied ==
  ASSUME TypeInv, InTable, NEW statuses, Listed(statuses, counts.fresh), NEW places,
         rows' = Applied(rows, statuses, places), puts = <<>>,
         UNCHANGED <<mode, stored, saves, puts>>, shared => shared'
  PROVE  InTable'
<1>1. counts.fresh \in Nat /\ Listed(rows, counts.fresh)
  BY TopIs DEF TypeInv
<1>2. SameTexts(rows', rows) /\ SameIds(rows', rows) /\ Listed(rows', counts.fresh)
  BY <1>1, AppliedIs
<1>3. rows = <<>> <=> rows' = <<>>
  BY <1>1, <1>2, EmptyTogether DEF SameTexts
<1>4. SameContents(rows, rows') /\ SameIds(rows, rows')
  BY <1>2, SameTextsSay, SameInTurn
<1> QED
  BY <1>3, <1>4, SameInTurn DEF InTable

\* Without results every line of the table is to be calculated.
LEMMA TableWaits ==
  ASSUME TypeInv, NoResults
  PROVE  NeedsCalculation(Table) \/ Table = <<>>
<1>1. /\ Listed(Table, counts.fresh)
      /\ \A k \in 1..Len(Table) : Table[k].calc \in {"none", "done"}
      /\ WithoutResults(Table)
  BY TableIs DEF NoResults
<1> HIDE DEF Table
<1>2. Table \in Seq(LineRecord) /\ Len(Table) \in Nat
  BY <1>1 DEF Listed
<1>3. \A k \in 1..Len(Table) : Table[k].calc = "none"
  BY <1>1 DEF WithoutResults
<1>4. Table = <<>> \/ 1 \in 1..Len(Table)
  BY <1>2, EmptyIs
<1> QED
  BY <1>3, <1>4 DEF NeedsCalculation

LEMMA InTableNext ==
  ASSUME Calm, TypeInv, TypeInv', OneAtATime, OneAtATime', NoResults, Apart, Apart', shared => shared',
         InTable, [TextNext]_textVars
  PROVE  InTable'
<1>a. counts.fresh \in Nat /\ Listed(rows, counts.fresh) /\ Listed(stored, counts.fresh) /\ rows \in Seq(LineRecord)
  BY TopIs DEF TypeInv, Listed
<1>b. rows' \in Seq(LineRecord) /\ Listed(rows', counts'.fresh)
  BY DEF TypeInv, Listed
<1>c. "text" # "table"
  OBVIOUS
<1>1. CASE Type
  BY <1>1, <1>c DEF Type, InTable
<1>2. CASE ToTable
  BY <1>2, <1>c DEF ToTable, InTable
<1>3. CASE ReadDetail
  BY <1>3 DEF ReadDetail, InTable
<1>4. CASE Refresh
  BY <1>4 DEF Refresh, InTable
<1>5. CASE ShowTable
  <2>1. switch # Shown /\ puts = <<>> /\ saves.ready = 0
    BY <1>5, ShownIs DEF ShowTable, OneAtATime
  <2>2. CASE NeedsCalculation(Table)
    <3>1. saves' = [Asked EXCEPT !.start = TRUE]
      BY <1>5, <2>2 DEF ShowTable, Table
    <3>2. Asked = [saves EXCEPT !.ready = 1]
      BY <2>1 DEF Asked
    <3>3. saves'.ready = 1
      BY <3>1, <3>2 DEF TypeInv
    <3> QED
      BY <3>3 DEF InTable
  <2>3. CASE ~NeedsCalculation(Table)
    <3>1. rows' = Table
      BY <1>5, <2>3 DEF ShowTable, Table
    <3>2. rows' = <<>>
      BY <2>3, <3>1, TableWaits
    <3> QED
      BY <3>2 DEF InTable
  <2> QED
    BY <2>2, <2>3
<1>6. CASE Delete \/ Move \/ Save
  <2>1. AtRest /\ saves' = Asked
    BY <1>6, GestureIsAtRest DEF Delete, Move, Save, Changed
  <2>2. saves'.ready = 1
    BY <2>1, AskedAtRest
  <2> QED
    BY <2>2 DEF InTable
<1>8. CASE ToText
  <2>1. AtRest /\ rows' = Written(rows) /\ UNCHANGED <<mode, stored, saves, puts>>
    BY <1>8, GestureIsAtRest DEF ToText
  <2>2. /\ Listed(Written(rows), counts.fresh) /\ Len(Written(rows)) = Len(rows) /\ SameIds(Written(rows), rows)
        /\ \A k \in 1..Len(rows) : Content(Written(rows)[k].text) = Content(rows[k].text)
    BY <1>a, WrittenIs
  <2>3. SameContents(rows, rows') /\ SameIds(rows, rows')
    BY <2>1, <2>2, SameInTurn DEF SameContents
  <2>4. rows = <<>> <=> rows' = <<>>
    BY <1>a, <2>1, <2>2, EmptyTogether
  <2>5. puts = <<>> /\ saves.ready = 0
    BY <2>1 DEF AtRest
  <2> QED
    BY <2>1, <2>3, <2>4, <2>5, SameInTurn DEF InTable
<1>9. CASE HandleCancel
  <2>1. switch # Shown /\ stored' = Cleared(stored) /\ UNCHANGED <<rows, mode, saves, puts>>
    BY <1>9, ShownIs DEF HandleCancel
  <2>2. puts = <<>>
    BY <2>1 DEF OneAtATime
  <2>3. SameTexts(stored', stored) /\ SameIds(stored', stored)
    BY <1>a, <2>1, ClearedIs
  <2>4. SameContents(stored', stored)
    BY <2>3, SameTextsSay
  <2> QED
    BY <2>1, <2>2, <2>3, <2>4, SameInTurn DEF InTable
<1>10. CASE ShowText
  BY <1>10, <1>c DEF ShowText, InTable
<1>12. CASE SendPut
  <2>1. /\ Len(puts') = 1 /\ puts'[1].lines = Sending /\ puts'[1].at = "sent"
        /\ rows' = Sending /\ UNCHANGED <<mode, stored>>
    BY <1>12, PutSent
  <2>2. puts' # <<>>
    BY <2>1
  <2>3. mode = "table" => Sending = rows
    BY <1>c DEF Sending
  <2>4. puts'[1].at # "stored"
    BY <2>1
  <2> QED
    BY <2>1, <2>2, <2>3, <2>4 DEF InTable
<1>13. CASE HandlePut
  <2>1. /\ Len(puts) = 1 /\ 1 \in 1..Len(puts) /\ puts[1].at = "sent"
        /\ stored' = Kept(Unique(Brought(puts[1]), counts.fresh), stored)
        /\ puts' = [puts EXCEPT ![1].at = "stored", ![1].lines = Cleared(Brought(puts[1]))]
        /\ counts' = [counts EXCEPT !.fresh = @ + Cardinality(Repeating(Brought(puts[1])))]
        /\ UNCHANGED <<rows, mode, saves>>
    BY <1>13, OnlyPutHandled
  <2>2. /\ SameTexts(stored', Brought(puts[1]))
        /\ Injective(Brought(puts[1])) => SameIds(stored', Brought(puts[1]))
        /\ puts'[1].at = "stored" /\ puts'[1].lines = Cleared(Brought(puts[1]))
    BY <2>1, PutHandled
  <2> SUFFICES ASSUME mode = "table", rows # <<>>
               PROVE  /\ puts'[1].lines = Cleared(rows)
                      /\ SameContents(stored', rows) /\ (~shared' => SameIds(stored', rows))
    BY <2>1, <2>2 DEF InTable
  <2>3. puts # <<>>
    BY <2>1
  <2>4. saves.ready = 0
    BY <2>3 DEF OneAtATime
  <2>5. puts[1].lines = rows
    BY <2>1, <2>3, <2>4 DEF InTable
  <2>6. Brought(puts[1]) = rows
    BY <2>5 DEF Brought
  <2>7. ~shared' => Injective(rows)
    BY <2>1 DEF Apart
  <2> QED
    BY <2>2, <2>6, <2>7, SameTextsSay
<1>14. CASE PutDone
  <2>1. /\ Len(puts) = 1 /\ puts[1].at = "stored" /\ puts' = <<>>
        /\ IF ~puts[1].own \/ (mode = "table" /\ puts[1].lines = <<>>) THEN UNCHANGED <<rows, draft, report>>
           ELSE rows' = Answering(puts[1].lines)
        /\ UNCHANGED <<mode, stored>> /\ puts[1] \in PutRecord /\ Listed(puts[1].lines, counts.fresh)
    <3>1. 1 \in 1..Len(puts)
      BY <1>14, OnlyPutDone
    <3>2. puts \in Seq(PutRecord)
      BY DEF TypeInv
    <3>3. puts[1] \in PutRecord /\ Listed(puts[1].lines, counts.fresh)
      BY <3>1, <3>2 DEF TypeInv
    <3> QED
      BY <1>14, <3>3, OnlyPutDone
  <2>2. puts # <<>> /\ saves.ready = 0
    <3>1. Len(puts) = 1
      BY <2>1
    <3>2. puts # <<>>
      BY <3>1
    <3> QED
      BY <3>2 DEF OneAtATime
  <2> SUFFICES ASSUME mode = "table", rows' # <<>>
               PROVE  SameContents(stored, rows') /\ (~shared' => SameIds(stored, rows'))
    BY <2>1 DEF InTable
  <2>3. CASE rows' = rows
    BY <2>1, <2>2, <2>3 DEF InTable
  <2>4. CASE rows' = Answering(puts[1].lines)
    <3>1. rows' = SyncedIds(rows, puts[1].lines)
      BY <1>c, <2>1, <2>4, AnsweringIs
    <3>2. SameTexts(rows', rows) /\ Listed(rows', counts.fresh)
      BY <1>a, <2>1, <3>1, SyncedIs
    <3>3. rows # <<>>
      BY <1>a, <3>2, EmptyTogether DEF SameTexts
    <3>4. puts[1].lines = Cleared(rows) /\ SameContents(stored, rows) /\ (~shared => SameIds(stored, rows))
      BY <2>1, <2>2, <3>3 DEF InTable
    <3>5. SameContents(stored, rows')
      BY <3>2, <3>4, SameTextsSay, SameInTurn
    <3>6. ASSUME ~shared' PROVE SameIds(stored, rows')
      <4>1. Injective(rows') /\ ~shared
        BY <3>6 DEF Apart
      <4>2. SameIds(rows', rows)
        BY <1>a, <3>1, <3>4, <4>1, SyncedKeeps
      <4> QED
        BY <3>4, <4>1, <4>2, SameInTurn
    <3> QED
      BY <3>5, <3>6
  <2> QED
    BY <2>1, <2>3, <2>4
<1>15. CASE HandleStart
  BY <1>15 DEF HandleStart, InTable
<1>16. CASE Calculate
  <2>1. PICK k \in 1..Len(stored) : stored' = [stored EXCEPT ![k] = Line(stored[k].id, stored[k].text, Calculated(stored[k].text))]
    BY <1>16 DEF Calculate, Calculated
  <2>2. Line(stored[k].id, stored[k].text, Calculated(stored[k].text)).text = stored[k].text
        /\ Line(stored[k].id, stored[k].text, Calculated(stored[k].text)).id = stored[k].id
    BY DEF Line
  <2>3. stored \in Seq(LineRecord)
    BY <1>a DEF Listed
  <2>4. SameTexts(stored', stored) /\ SameIds(stored', stored)
    <3> DEFINE x == Line(stored[k].id, stored[k].text, Calculated(stored[k].text))
    <3> HIDE DEF x
    <3>1. x.text = stored[k].text /\ x.id = stored[k].id /\ stored' = [stored EXCEPT ![k] = x]
      BY <2>1, <2>2 DEF x
    <3> QED
      BY <2>3, <3>1 DEF SameTexts, SameIds
  <2>5. SameContents(stored', stored)
    BY <2>4, SameTextsSay
  <2>6. UNCHANGED <<rows, mode, saves, puts>>
    BY <1>16 DEF Calculate
  <2>7. (puts = <<>> \/ puts[1].at = "stored") /\ mode = "table" /\ rows # <<>> /\ saves.ready = 0
          => SameContents(stored', rows) /\ (~shared => SameIds(stored', rows))
    BY <2>4, <2>5, SameInTurn DEF InTable
  <2> QED
    BY <2>6, <2>7 DEF InTable
<1>17. CASE Deliver
  <2>1. PICK some \in SUBSET Done(stored) : rows' = Applied(rows, stored, some)
    BY <1>17 DEF Deliver
  <2>2. puts = <<>> /\ UNCHANGED <<mode, stored, saves, puts>>
    BY <1>17 DEF Deliver
  <2> QED
    BY <1>a, <2>1, <2>2, InTableApplied
<1>18. CASE HandleReport
  BY <1>18 DEF HandleReport, InTable
<1>19. CASE ReportDone
  <2>1. rows' = Applied(rows, report.lines, 1..Len(report.lines)) /\ UNCHANGED <<mode, stored, saves, puts>>
    BY <1>19 DEF ReportDone
  <2>2. puts = <<>>
    BY <1>19, ShownIs DEF ReportDone, OneAtATime
  <2>3. Listed(report.lines, counts.fresh)
    BY DEF TypeInv
  <2> QED
    BY <2>1, <2>2, <2>3, InTableApplied
<1>20. CASE UNCHANGED textVars
  BY <1>20 DEF textVars, InTable
<1> QED
  BY <1>1, <1>2, <1>3, <1>4, <1>5, <1>6, <1>8, <1>9, <1>10, <1>12, <1>13, <1>14, <1>15, <1>16,
     <1>17, <1>18, <1>19, <1>20 DEF TextNext

\* The table and the server, of a user who waits, in an estimate opened without results.
CalmInv == TypeInv /\ OneAtATime /\ NoResults /\ Apart /\ InTable

LEMMA CalmInvInit == Uncounted /\ TextInit => CalmInv
BY TypeInvInit, OneAtATimeInit, NoResultsInit, ApartInit, InTableInit DEF CalmInv

LEMMA CalmInvNext == Calm /\ CalmInv /\ [TextNext]_textVars => CalmInv' /\ (shared => shared')
<1> SUFFICES ASSUME Calm, TypeInv, OneAtATime, NoResults, Apart, InTable, [TextNext]_textVars
             PROVE  CalmInv' /\ (shared => shared')
  BY DEF CalmInv
<1>1. TypeInv'
  BY TypeInvNext
<1>2. OneAtATime'
  BY OneAtATimeNext
<1>3. NoResults'
  BY <1>2, NoResultsNext
<1>4. Apart' /\ (shared => shared')
  BY ApartNext
<1>5. InTable'
  BY <1>1, <1>2, <1>4, InTableNext
<1> QED
  BY <1>1, <1>2, <1>3, <1>4, <1>5 DEF CalmInv

LEMMA CalmInvSays == CalmInv => TableIsStored
<1> SUFFICES ASSUME CalmInv, AtRest, mode = "table", rows # <<>> PROVE Contents(rows) = Contents(stored)
  BY DEF TableIsStored
<1>1. SameContents(stored, rows)
  BY DEF CalmInv, InTable, AtRest
<1> QED
  BY <1>1 DEF SameContents, Contents

\* Of a user who waits for the answers, in an estimate opened without results: whenever everything
\* is answered the server has the lines that the table shows, in their order.
THEOREM TablesAreStored ==
  ASSUME "hurry" \notin Cases, "results" \notin Cases
  PROVE  TextSpec => []TableIsStored
<1>1. Calm /\ Uncounted
  BY DEF Calm, Uncounted
<1>2. TextInit => CalmInv
  BY <1>1, CalmInvInit
<1>3. CalmInv /\ [TextNext]_textVars => CalmInv'
  BY <1>1, CalmInvNext
<1>4. CalmInv => TableIsStored
  BY CalmInvSays
<1> QED
  BY <1>2, <1>3, <1>4, PTL DEF TextSpec
-----------------------------------------------------------------------------
(* Every result is the result of the line it is with.                      *)

Right(line) == line.calc = "done" => line.of = Content(line.text)
AllRight(lines) == \A k \in 1..Len(lines) : Right(lines[k])
RightResults == AllRight(stored) /\ AllRight(report.lines)

LEMMA WithoutResultsRight == ASSUME NEW lines, WithoutResults(lines) PROVE AllRight(lines)
BY DEF WithoutResults, AllRight, Right

LEMMA NothingIsRight == AllRight(<<>>)
BY NothingWithoutResults, WithoutResultsRight

LEMMA RightResultsInit == Uncounted /\ TextInit => RightResults
<1> SUFFICES ASSUME Uncounted, TextInit PROVE RightResults
  OBVIOUS
<1>1. WithoutResults(stored)
  BY NoResultsInit DEF NoResults, TextInit
<1>2. report.lines = <<>>
  BY DEF TextInit, NoReport
<1> QED
  BY <1>1, <1>2, WithoutResultsRight, NothingIsRight DEF RightResults

LEMMA RightResultsNext ==
  ASSUME TypeInv, OneAtATime, RightResults, [TextNext]_textVars
  PROVE  RightResults'
<1>a. counts.fresh \in Nat /\ Listed(stored, counts.fresh)
  BY TopIs DEF TypeInv
<1>1. CASE Type \/ ToTable \/ ReadDetail \/ Refresh
  BY <1>1 DEF Type, ToTable, ReadDetail, Refresh, RightResults
<1>2. CASE ShowTable \/ ReportDone
  <2>1. stored' = stored /\ report'.lines = <<>>
    BY <1>2 DEF ShowTable, ReportDone, NoReport
  <2> QED
    BY <2>1, NothingIsRight DEF RightResults
<1>3. CASE Delete \/ Move \/ ToText \/ ShowText \/ Save \/ SendPut
  BY <1>3 DEF Delete, Move, Changed, ToText, ShowText, Save, SendPut, RightResults
<1>4. CASE HandleCancel
  <2>1. stored' = Cleared(stored) /\ report' = report
    BY <1>4 DEF HandleCancel
  <2>2. AllRight(stored')
    BY <1>a, <2>1, ClearedWithoutResults, WithoutResultsRight
  <2> QED
    BY <2>1, <2>2 DEF RightResults
<1>5. CASE HandlePut
  <2>1. /\ 1 \in 1..Len(puts)
        /\ stored' = Kept(Unique(Brought(puts[1]), counts.fresh), stored)
        /\ puts' = [puts EXCEPT ![1].at = "stored", ![1].lines = Cleared(Brought(puts[1]))]
        /\ counts' = [counts EXCEPT !.fresh = @ + Cardinality(Repeating(Brought(puts[1])))]
        /\ report' = report
    BY <1>5, OnlyPutHandled
  <2>2. \A k \in 1..Len(stored') :
          \/ stored'[k].calc = "none"
          \/ /\ stored'[k].calc = "done"
             /\ \E j \in Done(stored) : /\ Content(stored[j].text) = Content(stored'[k].text)
                                        /\ stored'[k].of = stored[j].of
    BY <2>1, PutHandled
  <2>3. AllRight(stored')
    BY <2>2 DEF RightResults, AllRight, Right, Done
  <2> QED
    BY <2>1, <2>3 DEF RightResults
<1>6. CASE PutDone
  <2>1. stored' = stored /\ (report' = report \/ report' = Asking)
    BY <1>6, OnlyPutDone
  <2>2. Asking.lines = <<>>
    BY DEF Asking
  <2> QED
    BY <2>1, <2>2, NothingIsRight DEF RightResults
<1>7. CASE HandleStart \/ Deliver
  BY <1>7 DEF HandleStart, Deliver, RightResults
<1>8. CASE Calculate
  <2>1. PICK k \in 1..Len(stored) : stored' = [stored EXCEPT ![k] = Line(stored[k].id, stored[k].text, Calculated(stored[k].text))]
    BY <1>8 DEF Calculate, Calculated
  <2> DEFINE x == Line(stored[k].id, stored[k].text, Calculated(stored[k].text))
  <2>2. Right(x)
    BY DEF Line, Calculated, Right
  <2>3. stored' = [stored EXCEPT ![k] = x]
    BY <2>1
  <2> HIDE DEF x
  <2>4. stored \in Seq(LineRecord)
    BY <1>a DEF Listed
  <2>5. AllRight(stored')
    BY <2>2, <2>3, <2>4 DEF RightResults, AllRight
  <2>6. report' = report
    BY <1>8 DEF Calculate
  <2> QED
    BY <2>5, <2>6 DEF RightResults
<1>9. CASE HandleReport
  <2>1. stored' = stored /\ report'.lines = Statuses
    BY <1>9 DEF HandleReport
  <2>2. AllRight(Statuses)
    BY StatusesAre DEF RightResults, AllRight, Right, SameTexts
  <2> QED
    BY <2>1, <2>2 DEF RightResults
<1>10. CASE UNCHANGED textVars
  BY <1>10 DEF textVars, RightResults
<1> QED
  BY <1>1, <1>2, <1>3, <1>4, <1>5, <1>6, <1>7, <1>8, <1>9, <1>10 DEF TextNext

-----------------------------------------------------------------------------
(* The lines are those the user left.                                      *)

Says(text) == [k \in 1..Len(text) |-> Content(text[k])]

Intended ==
  ~shared =>
    /\ mode = "text" => typed = Says(draft)
    /\ switch.at \in {"detail", "read"} => typed = Contents(switch.parsed)
    /\ mode = "table" => typed = Contents(rows)
    /\ switch.at \in {"cancel", "cancelled"} => draft = Texts(rows)

LEMMA SameContentsAre ==
  ASSUME NEW lines, NEW other, SameContents(lines, other)
  PROVE  Contents(lines) = Contents(other)
BY DEF SameContents, Contents

LEMMA TextsSay ==
  ASSUME NEW top \in Nat, NEW lines, Listed(lines, top)
  PROVE  Says(Texts(lines)) = Contents(lines)
<1>1. Len(Texts(lines)) = Len(lines) /\ \A k \in 1..Len(lines) : Texts(lines)[k] = lines[k].text
  BY TextsAre
<1> HIDE DEF Texts
<1> QED
  BY <1>1 DEF Says, Contents

Stated == {Content(t) : t \in LineTexts}

LEMMA ContentsAre ==
  ASSUME NEW top \in Nat, NEW lines, Listed(lines, top)
  PROVE  /\ Contents(lines) \in Seq(Stated) /\ Len(Contents(lines)) = Len(lines)
         /\ \A k \in 1..Len(lines) : Contents(lines)[k] = Content(lines[k].text)
<1>1. Len(lines) \in Nat
  BY DEF Listed
<1>2. \A k \in 1..Len(lines) : Content(lines[k].text) \in Stated
  BY LineOf DEF Stated
<1>3. Contents(lines) = [k \in 1..Len(lines) |-> Content(lines[k].text)]
  BY DEF Contents
<1> QED
  BY <1>1, <1>2, <1>3

\* In rows with ids of their own the row that is found is the row that is meant.
LEMMA FoundItself ==
  ASSUME NEW top \in Nat, Listed(rows, top), Injective(rows), NEW k \in 1..Len(rows)
  PROVE  Found(k) = k
<1>1. Found(k) \in 1..Len(rows) /\ rows[Found(k)].id = rows[k].id
  BY FoundIs
<1> QED
  BY <1>1 DEF Injective

LEMMA ContentsRemoved ==
  ASSUME NEW top \in Nat, NEW lines, Listed(lines, top), NEW k \in 1..Len(lines)
  PROVE  Contents(RemoveAt(lines, k)) = RemoveAt(Contents(lines), k)
<1> DEFINE rest == RemoveAt(lines, k)
           C == Contents(lines)
           n == Len(lines)
<1>1. n \in Nat /\ lines \in Seq(LineRecord)
  BY DEF Listed
<1>2. C \in Seq(Stated) /\ Len(C) = n /\ \A j \in 1..n : C[j] = Content(lines[j].text)
  BY ContentsAre
<1>3. Len(rest) = n - 1 /\ \A j \in 1..(n - 1) : rest[j] = IF j < k THEN lines[j] ELSE lines[j + 1]
  BY <1>1, ElementRemoved
<1>4. Listed(rest, top)
  BY LineRemoved
<1> HIDE DEF C, rest, n
<1>5. k \in 1..n /\ k \in 1..Len(C)
  BY <1>2 DEF n
<1>6. /\ RemoveAt(C, k) \in Seq(Stated) /\ Len(RemoveAt(C, k)) = n - 1
      /\ \A j \in 1..(n - 1) : RemoveAt(C, k)[j] = IF j < k THEN C[j] ELSE C[j + 1]
  BY <1>2, <1>5, ElementRemoved
<1>7. /\ Contents(rest) \in Seq(Stated) /\ Len(Contents(rest)) = n - 1
      /\ \A j \in 1..(n - 1) : Contents(rest)[j] = Content(rest[j].text)
  BY <1>3, <1>4, ContentsAre
<1>8. ASSUME NEW j \in 1..(n - 1) PROVE Contents(rest)[j] = RemoveAt(C, k)[j]
  <2>1. j \in 1..n /\ j + 1 \in 1..n
    BY <1>1
  <2> QED
    BY <1>2, <1>3, <1>6, <1>7, <2>1
<1>9. Contents(rest) = RemoveAt(C, k)
  BY <1>6, <1>7, <1>8, SeqEqual
<1> QED
  BY <1>9 DEF rest, C

LEMMA ContentsExchanged ==
  ASSUME NEW top \in Nat, NEW lines, Listed(lines, top), NEW k \in 1..Len(lines)
  PROVE  Contents(Exchanged(lines, k)) = Exchanged(Contents(lines), k)
<1> DEFINE new == Exchanged(lines, k)
           C == Contents(lines)
           n == Len(lines)
           D == Exchanged(C, k)
<1>1. n \in Nat /\ lines \in Seq(LineRecord)
  BY DEF Listed
<1>2. C \in Seq(Stated) /\ Len(C) = n /\ \A j \in 1..n : C[j] = Content(lines[j].text)
  BY ContentsAre
<1>3. Len(new) = n /\ \A j \in 1..n : Origin(lines, k, j) \in 1..n /\ new[j] = lines[Origin(lines, k, j)]
  BY <1>1, ExchangedIs
<1>4. Listed(new, top)
  BY LinesExchanged
<1>a. \A j : Origin(C, k, j) = Origin(lines, k, j)
  BY <1>2 DEF Origin
<1> HIDE DEF C, new, n
<1>5. k \in 1..n /\ k \in 1..Len(C)
  BY <1>2 DEF n
<1>6. D \in Seq(Stated) /\ Len(D) = n /\ \A j \in 1..n : D[j] = C[Origin(C, k, j)]
  BY <1>2, <1>5, ExchangedIs
<1>7. /\ Contents(new) \in Seq(Stated) /\ Len(Contents(new)) = n
      /\ \A j \in 1..n : Contents(new)[j] = Content(new[j].text)
  BY <1>3, <1>4, ContentsAre
<1> HIDE DEF D
<1>8. \A j \in 1..n : Contents(new)[j] = D[j]
  BY <1>2, <1>3, <1>6, <1>7, <1>a
<1>9. Contents(new) = D
  BY <1>6, <1>7, <1>8, SeqEqual
<1> QED
  BY <1>9 DEF new, C, D
LEMMA IntendedInit == TextInit => Intended
<1> SUFFICES ASSUME TextInit PROVE Intended
  OBVIOUS
<1>1. TypeInv
  BY TypeInvInit
<1>2. counts.fresh \in Nat /\ Listed(stored, counts.fresh) /\ Listed(rows, counts.fresh)
  BY <1>1, TopIs DEF TypeInv
<1>3. rows = Written(stored) /\ draft = Texts(rows) /\ mode = "text" /\ switch.at = "shown" /\ typed = Contents(stored)
  BY DEF TextInit, Shown
<1>4. /\ Len(Written(stored)) = Len(stored)
      /\ \A k \in 1..Len(stored) : Content(Written(stored)[k].text) = Content(stored[k].text)
  BY <1>2, WrittenIs
<1>5. SameContents(rows, stored)
  BY <1>3, <1>4 DEF SameContents
<1>6. Says(draft) = typed
  BY <1>2, <1>3, <1>5, TextsSay, SameContentsAre
<1>7. "text" # "table" /\ switch.at \notin {"detail", "read", "cancel", "cancelled"}
  BY <1>3
<1> QED
  BY <1>3, <1>6, <1>7 DEF Intended

\* Where the rows take results or other ids, and the user changes nothing.
LEMMA IntendedRows ==
  ASSUME Intended, SameContents(rows', rows), shared => shared', switch.at = "shown",
         UNCHANGED <<mode, switch, draft, typed>>
  PROVE  Intended'
<1>1. Contents(rows') = Contents(rows)
  BY SameContentsAre
<1>2. switch.at \notin {"detail", "read", "cancel", "cancelled"}
  OBVIOUS
<1> QED
  BY <1>1, <1>2 DEF Intended

LEMMA IntendedNext ==
  ASSUME Calm, TypeInv, TypeInv', OneAtATime, Apart, shared => shared', Intended, [TextNext]_textVars
  PROVE  Intended'
<1> SUFFICES ASSUME ~shared, ~shared' PROVE Intended'
  BY DEF Intended
<1>a. counts.fresh \in Nat /\ Listed(rows, counts.fresh) /\ MaxLines <= counts.fresh
      /\ draft \in Seq(LineTexts) /\ Len(draft) <= MaxLines /\ Injective(rows)
  BY TopIs DEF TypeInv, Apart
<1>b. counts'.fresh \in Nat /\ Listed(rows', counts'.fresh)
  BY DEF TypeInv, CountRecord
<1>c. "text" # "table"
  OBVIOUS
<1>d. /\ mode = "text" => typed = Says(draft)
      /\ switch.at \in {"detail", "read"} => typed = Contents(switch.parsed)
      /\ mode = "table" => typed = Contents(rows)
      /\ switch.at \in {"cancel", "cancelled"} => draft = Texts(rows)
  BY DEF Intended
<1>e. switch = Shown => switch.at \notin {"detail", "read", "cancel", "cancelled"}
  BY ShownIs
<1>1. CASE Type
  <2>1. AtRest /\ mode = "text" /\ UNCHANGED <<mode, switch>>
        /\ typed' = IF switch = Shown THEN [k \in 1..Len(draft') |-> Content(draft'[k])] ELSE typed
    BY <1>1, GestureIsAtRest DEF Type
  <2>2. switch = Shown
    BY <2>1 DEF AtRest
  <2>3. typed' = Says(draft')
    BY <2>1, <2>2 DEF Says
  <2> QED
    BY <1>c, <1>e, <2>1, <2>2, <2>3 DEF Intended
<1>2. CASE ToTable
  <2>1. mode = "text" /\ mode' = "text" /\ switch'.parsed = Parsed(rows, draft) /\ UNCHANGED <<draft, typed>>
        /\ switch'.at \in {"detail", "read"}
    BY <1>2 DEF ToTable
  <2>2. /\ Len(Parsed(rows, draft)) = Len(draft)
        /\ \A k \in 1..Len(draft) : Parsed(rows, draft)[k].text = draft[k]
    BY <1>a, ParsedIs
  <2>3. Contents(switch'.parsed) = Says(draft)
    BY <2>1, <2>2 DEF Contents, Says
  <2> QED
    BY <1>c, <1>d, <2>1, <2>3 DEF Intended
<1>3. CASE ReadDetail
  <2>1. switch.at = "detail" /\ switch'.at = "read" /\ switch'.parsed = switch.parsed
        /\ UNCHANGED <<rows, draft, mode, typed>>
    BY <1>3 DEF ReadDetail, TypeInv, SwitchRecord
  <2> QED
    BY <1>d, <2>1 DEF Intended
<1>4. CASE Refresh
  BY <1>4 DEF Refresh, Intended
<1>5. CASE ShowTable
  <2>1. switch.at = "read" /\ (rows' = Queued(Table) \/ rows' = Table) /\ mode' = "table" /\ switch' = Shown
        /\ typed' = typed
    BY <1>5 DEF ShowTable, Table
  <2>2. Listed(Table, counts.fresh) /\ SameTexts(Table, switch.parsed)
    BY TableIs
  <2>3. SameTexts(Queued(Table), Table)
    BY <1>a, <2>2, QueuedIs
  <2>4. SameContents(rows', switch.parsed)
    BY <2>1, <2>2, <2>3, SameTextsSay, SameInTurn
  <2>5. typed' = Contents(rows')
    BY <1>d, <2>1, <2>4, SameContentsAre
  <2>6. switch'.at \notin {"detail", "read", "cancel", "cancelled"}
    BY <2>1, ShownIs
  <2> QED
    BY <1>c, <2>1, <2>5, <2>6 DEF Intended
<1>6. CASE Delete
  <2>1. PICK k \in 1..Len(rows) : Changed(RemoveAt(rows, Found(k)), RemoveAt(Contents(rows), k))
    BY <1>6 DEF Delete
  <2>2. Found(k) = k
    BY <1>a, FoundItself
  <2>3. rows' = RemoveAt(rows, k) /\ typed' = RemoveAt(Contents(rows), k)
    BY <2>1, <2>2 DEF Changed
  <2>4. Contents(RemoveAt(rows, k)) = RemoveAt(Contents(rows), k)
    BY <1>a, ContentsRemoved
  <2>5. switch = Shown /\ mode = "table" /\ UNCHANGED <<mode, switch>>
    BY <1>6, <2>1, GestureIsAtRest DEF Delete, AtRest, Changed
  <2> QED
    BY <1>c, <1>e, <2>3, <2>4, <2>5 DEF Intended
<1>7. CASE Move
  <2>1. PICK k \in 1..(Len(rows) - 1) : Changed(Exchanged(rows, Found(k)), Exchanged(Contents(rows), k))
    BY <1>7 DEF Move, Exchanged
  <2>2. k \in 1..Len(rows)
    <3>1. Len(rows) \in Nat
      BY <1>a DEF Listed
    <3> QED
      BY <3>1
  <2>3. Found(k) = k
    BY <1>a, <2>2, FoundItself
  <2>4. rows' = Exchanged(rows, k) /\ typed' = Exchanged(Contents(rows), k)
    BY <2>1, <2>3 DEF Changed
  <2>5. Contents(Exchanged(rows, k)) = Exchanged(Contents(rows), k)
    BY <1>a, <2>2, ContentsExchanged
  <2>6. switch = Shown /\ mode = "table" /\ UNCHANGED <<mode, switch>>
    BY <1>7, <2>1, GestureIsAtRest DEF Move, AtRest, Changed
  <2> QED
    BY <1>c, <1>e, <2>4, <2>5, <2>6 DEF Intended
<1>8. CASE ToText
  <2>1. mode = "table" /\ rows' = Written(rows) /\ draft' = Texts(rows') /\ switch'.at = "cancel"
        /\ UNCHANGED <<mode, typed>>
    BY <1>8 DEF ToText, Shown
  <2>2. /\ Len(Written(rows)) = Len(rows)
        /\ \A k \in 1..Len(rows) : Content(Written(rows)[k].text) = Content(rows[k].text)
    BY <1>a, WrittenIs
  <2>3. SameContents(rows', rows)
    BY <2>1, <2>2 DEF SameContents
  <2>4. typed' = Contents(rows')
    BY <1>d, <2>1, <2>3, SameContentsAre
  <2> QED
    BY <1>c, <2>1, <2>4 DEF Intended
<1>9. CASE HandleCancel
  <2>1. switch.at = "cancel" /\ switch'.at = "cancelled" /\ UNCHANGED <<rows, draft, mode, typed>>
    BY <1>9 DEF HandleCancel, TypeInv, SwitchRecord
  <2> QED
    BY <1>d, <2>1 DEF Intended
<1>10. CASE ShowText
  <2>1. switch.at = "cancelled" /\ mode' = "text" /\ switch' = Shown /\ typed' = typed
        /\ ((rows' = Written(rows) /\ draft' = Texts(rows')) \/ (rows' = rows /\ draft' = draft))
    BY <1>10 DEF ShowText
  <2>2. mode = "table" /\ draft = Texts(rows) /\ typed = Contents(rows)
    BY <1>d, <2>1 DEF OneAtATime
  <2>3. /\ Len(Written(rows)) = Len(rows)
        /\ \A k \in 1..Len(rows) : Content(Written(rows)[k].text) = Content(rows[k].text)
    BY <1>a, WrittenIs
  <2>4. SameContents(rows', rows)
    BY <2>1, <2>3 DEF SameContents
  <2>5. draft' = Texts(rows')
    BY <2>1, <2>2
  <2>6. Says(Texts(rows')) = Contents(rows')
    BY <1>b, TextsSay
  <2>7. Says(draft') = typed'
    BY <2>1, <2>2, <2>4, <2>5, <2>6, SameContentsAre
  <2>8. switch'.at \notin {"detail", "read", "cancel", "cancelled"}
    BY <2>1, ShownIs
  <2> QED
    BY <1>c, <2>1, <2>7, <2>8 DEF Intended
<1>11. CASE Save
  BY <1>11 DEF Save, Intended
<1>12. CASE SendPut
  <2>1. switch = Shown /\ rows' = Sending /\ UNCHANGED <<draft, mode, switch, typed>>
    BY <1>12, PutSent
  <2>2. mode = "table" => rows' = rows
    BY <1>c, <2>1 DEF Sending
  <2> QED
    BY <1>d, <1>e, <2>1, <2>2 DEF Intended
<1>13. CASE HandlePut
  BY <1>13 DEF HandlePut, Intended
<1>14. CASE PutDone
  <2>1. /\ Len(puts) = 1 /\ 1 \in 1..Len(puts)
        /\ IF ~puts[1].own \/ (mode = "table" /\ puts[1].lines = <<>>) THEN UNCHANGED <<rows, draft, report>>
           ELSE /\ rows' = Answering(puts[1].lines)
                /\ draft' = IF mode = "text" /\ draft = Texts(puts[1].lines) THEN Texts(rows') ELSE draft
        /\ UNCHANGED <<mode, switch, typed>>
    BY <1>14, OnlyPutDone
  <2>2. Listed(puts[1].lines, counts.fresh)
    BY <2>1 DEF TypeInv
  <2>3. switch = Shown
    <3>1. Len(puts) = 1
      BY <2>1
    <3>2. puts # <<>>
      BY <3>1
    <3> QED
      BY <3>2 DEF OneAtATime
  <2>4. CASE UNCHANGED <<rows, draft>>
    BY <2>1, <2>4 DEF Intended
  <2>5. CASE /\ rows' = Answering(puts[1].lines)
             /\ draft' = IF mode = "text" /\ draft = Texts(puts[1].lines) THEN Texts(rows') ELSE draft
    <3>1. CASE mode = "text"
      <4>1. CASE draft = Texts(puts[1].lines)
        <5>1. /\ Len(rows') = Len(puts[1].lines)
              /\ \A k \in 1..Len(puts[1].lines) : Content(rows'[k].text) = Content(puts[1].lines[k].text)
          BY <2>2, <2>5, <3>1, AnsweringIs
        <5>2. SameContents(rows', puts[1].lines)
          BY <5>1 DEF SameContents
        <5>3. draft' = Texts(rows')
          BY <2>5, <3>1, <4>1
        <5>4. Says(draft) = Contents(puts[1].lines) /\ Says(draft') = Contents(rows')
          BY <1>a, <1>b, <2>2, <4>1, <5>3, TextsSay
        <5>5. Says(draft') = typed'
          BY <1>d, <2>1, <3>1, <5>2, <5>4, SameContentsAre
        <5> QED
          BY <1>c, <1>e, <2>1, <2>3, <3>1, <5>5 DEF Intended
      <4>2. CASE draft # Texts(puts[1].lines)
        <5>1. draft' = draft
          BY <2>5, <4>2
        <5> QED
          BY <1>c, <1>d, <1>e, <2>1, <2>3, <3>1, <5>1 DEF Intended
      <4> QED
        BY <4>1, <4>2
    <3>2. CASE mode # "text"
      <4>1. rows' = SyncedIds(rows, puts[1].lines) /\ draft' = draft
        BY <2>2, <2>5, <3>2, AnsweringIs
      <4>2. SameContents(rows', rows)
        BY <1>a, <2>2, <4>1, SyncedIs, SameTextsSay
      <4>3. switch.at = "shown"
        BY <2>3, ShownIs
      <4> QED
        BY <2>1, <4>1, <4>2, <4>3, IntendedRows
    <3> QED
      BY <3>1, <3>2
  <2> QED
    BY <2>1, <2>4, <2>5
<1>15. CASE HandleStart
  BY <1>15 DEF HandleStart, Intended
<1>16. CASE Calculate
  BY <1>16 DEF Calculate, Intended
<1>17. CASE Deliver
  <2>1. PICK some \in SUBSET Done(stored) : rows' = Applied(rows, stored, some)
    BY <1>17 DEF Deliver
  <2>2. Listed(stored, counts.fresh)
    BY DEF TypeInv
  <2>3. SameContents(rows', rows)
    BY <1>a, <2>1, <2>2, AppliedIs, SameTextsSay
  <2>4. switch.at = "shown" /\ UNCHANGED <<mode, switch, draft, typed>>
    BY <1>17, ShownIs DEF Deliver
  <2> QED
    BY <2>3, <2>4, IntendedRows
<1>18. CASE HandleReport
  BY <1>18 DEF HandleReport, Intended
<1>19. CASE ReportDone
  <2>1. rows' = Applied(rows, report.lines, 1..Len(report.lines)) /\ UNCHANGED <<mode, switch, draft, typed>>
    BY <1>19 DEF ReportDone
  <2>2. Listed(report.lines, counts.fresh)
    BY DEF TypeInv
  <2>3. SameContents(rows', rows)
    BY <1>a, <2>1, <2>2, AppliedIs, SameTextsSay
  <2>4. switch.at = "shown"
    BY <1>19, ShownIs DEF ReportDone, OneAtATime
  <2> QED
    BY <2>1, <2>3, <2>4, IntendedRows
<1>20. CASE UNCHANGED textVars
  BY <1>20 DEF textVars, Intended
<1> QED
  BY <1>1, <1>2, <1>3, <1>4, <1>5, <1>6, <1>7, <1>8, <1>9, <1>10, <1>11, <1>12, <1>13, <1>14, <1>15, <1>16,
     <1>17, <1>18, <1>19, <1>20 DEF TextNext
-----------------------------------------------------------------------------
(* Results on their way to the table are those of the rows with their ids. *)

Agrees(lines, x) == \A k \in 1..Len(lines) : lines[k].id = x.id => Content(lines[k].text) = Content(x.text)

Aligned ==
  (~shared /\ mode = "table") =>
    /\ AllRight(rows)
    /\ \A j \in 1..Len(stored) : stored[j].calc = "done" \/ calc.running => Agrees(rows, stored[j])
    /\ \A j \in 1..Len(report.lines) : report.lines[j].calc = "done" => Agrees(rows, report.lines[j])

\* Some of the rows, in any order, agree with what the rows agree with.
LEMMA AgreesWithSome ==
  ASSUME NEW lines, NEW new,
         \A k \in 1..Len(new) : \E j \in 1..Len(lines) :
           /\ new[k].id = lines[j].id /\ Content(new[k].text) = Content(lines[j].text)
           /\ new[k].calc = lines[j].calc /\ new[k].of = lines[j].of
  PROVE  /\ \A x : Agrees(lines, x) => Agrees(new, x)
         /\ AllRight(lines) => AllRight(new)
<1>1. ASSUME NEW x, Agrees(lines, x), NEW k \in 1..Len(new), new[k].id = x.id
      PROVE  Content(new[k].text) = Content(x.text)
  <2>1. PICK j \in 1..Len(lines) : new[k].id = lines[j].id /\ Content(new[k].text) = Content(lines[j].text)
    OBVIOUS
  <2> QED
    BY <1>1, <2>1 DEF Agrees
<1>2. ASSUME AllRight(lines), NEW k \in 1..Len(new) PROVE Right(new[k])
  <2>1. PICK j \in 1..Len(lines) : /\ Content(new[k].text) = Content(lines[j].text)
                                   /\ new[k].calc = lines[j].calc /\ new[k].of = lines[j].of
    OBVIOUS
  <2>2. Right(lines[j])
    BY <1>2 DEF AllRight
  <2> QED
    BY <2>1, <2>2 DEF Right
<1> QED
  BY <1>1, <1>2 DEF Agrees, AllRight

LEMMA AgreesWithSame ==
  ASSUME NEW lines, NEW new, SameIds(new, lines), SameContents(new, lines)
  PROVE  \A x : Agrees(lines, x) => Agrees(new, x)
BY DEF SameIds, SameContents, Agrees

\* Rows with the right results that take right results.
LEMMA AppliedRight ==
  ASSUME NEW top \in Nat, NEW lines, Listed(lines, top), NEW statuses, Listed(statuses, top), NEW places,
         AllRight(lines), AllRight(statuses),
         \A j \in 1..Len(statuses) : statuses[j].calc = "done" => Agrees(lines, statuses[j])
  PROVE  AllRight(Applied(lines, statuses, places))
<1> DEFINE A == Applied(lines, statuses, places)
<1>1. /\ Listed(A, top) /\ SameTexts(A, lines)
      /\ \A k \in 1..Len(lines) :
           \/ A[k].of = lines[k].of
           \/ \E i \in places \cap (1..Len(statuses)) :
                /\ A[k].of = statuses[i].of
                /\ lines[k].id = statuses[i].id \/ Content(lines[k].text) = Content(statuses[i].text)
  BY AppliedIs
<1> HIDE DEF A
<1>2. ASSUME NEW k \in 1..Len(A), A[k].calc = "done" PROVE A[k].of = Content(A[k].text)
  <2>1. k \in 1..Len(lines) /\ A[k].text = lines[k].text
    BY <1>1 DEF SameTexts
  <2>2. A[k].of # None
    BY <1>1, <1>2, LineOf
  <2>3. CASE A[k].of = lines[k].of
    <3>1. lines[k].calc = "done"
      BY <2>1, <2>2, <2>3, LineOf
    <3> QED
      BY <2>1, <2>3, <3>1 DEF AllRight, Right
  <2>4. CASE \E i \in places \cap (1..Len(statuses)) :
               /\ A[k].of = statuses[i].of
               /\ lines[k].id = statuses[i].id \/ Content(lines[k].text) = Content(statuses[i].text)
    <3>1. PICK i \in 1..Len(statuses) :
               /\ A[k].of = statuses[i].of
               /\ lines[k].id = statuses[i].id \/ Content(lines[k].text) = Content(statuses[i].text)
      BY <2>4
    <3>2. statuses[i].calc = "done"
      BY <2>2, <3>1, LineOf
    <3>3. statuses[i].of = Content(statuses[i].text) /\ Agrees(lines, statuses[i])
      BY <3>2 DEF AllRight, Right
    <3> QED
      BY <2>1, <3>1, <3>3 DEF Agrees
  <2> QED
    BY <1>1, <2>1, <2>3, <2>4
<1> QED
  BY <1>2 DEF AllRight, Right, A

LEMMA AlignedInit == TextInit => Aligned
<1>1. TextInit => mode = "text"
  BY DEF TextInit
<1>2. "text" # "table"
  OBVIOUS
<1> QED
  BY <1>1, <1>2 DEF Aligned

\* Where the rows are others, and what is on its way stays.
LEMMA AlignedRows ==
  ASSUME Aligned, shared => shared', UNCHANGED <<mode, stored, calc>>,
         report' = report \/ report'.lines = <<>>,
         AllRight(rows) => AllRight(rows'), \A x : Agrees(rows, x) => Agrees(rows', x)
  PROVE  Aligned'
<1>1. Len(<<>>) = 0
  OBVIOUS
<1> QED
  BY <1>1 DEF Aligned

LEMMA AlignedNext ==
  ASSUME Calm, TypeInv, TypeInv', OneAtATime, NoResults, Apart, Apart', shared => shared', InTable,
         RightResults, Aligned, [TextNext]_textVars
  PROVE  Aligned'
<1> SUFFICES ASSUME ~shared, ~shared' PROVE Aligned'
  BY DEF Aligned
<1>a. counts.fresh \in Nat /\ Listed(rows, counts.fresh) /\ Listed(stored, counts.fresh)
      /\ Listed(report.lines, counts.fresh) /\ Injective(rows)
  BY TopIs DEF TypeInv, Apart
<1>b. Listed(rows', counts'.fresh) /\ counts'.fresh \in Nat
  BY DEF TypeInv, CountRecord
<1>c. "text" # "table"
  OBVIOUS
<1>d. mode = "table" =>
        /\ AllRight(rows)
        /\ \A j \in 1..Len(stored) : stored[j].calc = "done" \/ calc.running => Agrees(rows, stored[j])
        /\ \A j \in 1..Len(report.lines) : report.lines[j].calc = "done" => Agrees(rows, report.lines[j])
  BY DEF Aligned
<1>e. Len(<<>>) = 0
  OBVIOUS
<1>1. CASE Type \/ ToTable \/ ReadDetail \/ Refresh
  BY <1>1 DEF Type, ToTable, ReadDetail, Refresh, Aligned
<1>5. CASE ShowTable
  <2>1. switch.at = "read" /\ (rows' = Queued(Table) \/ rows' = Table) /\ report' = NoReport /\ UNCHANGED <<stored, calc>>
    BY <1>5 DEF ShowTable, Table
  <2>2. WithoutResults(stored) /\ ~calc.running
    BY <2>1 DEF OneAtATime, NoResults
  <2>3. Listed(Table, counts.fresh) /\ WithoutResults(Table)
    BY TableIs DEF NoResults
  <2>4. SameIds(Queued(Table), Table) /\ Listed(Queued(Table), counts.fresh)
        /\ \A k \in 1..Len(Table) : Queued(Table)[k].of = Table[k].of
    BY <1>a, <2>3, QueuedIs
  <2>5. ASSUME NEW k \in 1..Len(Table) PROVE Queued(Table)[k].calc # "done"
    <3>1. k \in 1..Len(Queued(Table)) /\ Queued(Table)[k].of = Table[k].of
      BY <2>4 DEF SameIds
    <3>2. Table[k].calc # "done"
      BY <2>3 DEF WithoutResults
    <3>3. Table[k].of = None
      BY <1>a, <2>3, <3>2, LineOf
    <3> QED
      BY <1>a, <2>4, <3>1, <3>3, LineOf
  <2>6. WithoutResults(Queued(Table))
    BY <2>4, <2>5 DEF WithoutResults, SameIds
  <2>7. AllRight(rows')
    BY <2>1, <2>3, <2>6, WithoutResultsRight
  <2>8. report'.lines = <<>>
    BY <2>1 DEF NoReport
  <2> QED
    BY <1>e, <2>1, <2>2, <2>7, <2>8 DEF Aligned, WithoutResults
<1>6. CASE Delete
  <2>1. PICK k \in 1..Len(rows) : Changed(RemoveAt(rows, Found(k)), RemoveAt(Contents(rows), k))
    BY <1>6 DEF Delete
  <2>2. Found(k) = k
    BY <1>a, FoundItself
  <2>3. rows' = RemoveAt(rows, k) /\ UNCHANGED <<mode, stored, calc, report>>
    BY <2>1, <2>2 DEF Changed
  <2>4. rows \in Seq(LineRecord) /\ Len(rows) \in Nat
    BY <1>a DEF Listed
  <2>5. Len(rows') = Len(rows) - 1 /\ \A j \in 1..(Len(rows) - 1) : rows'[j] = IF j < k THEN rows[j] ELSE rows[j + 1]
    BY <2>3, <2>4, ElementRemoved
  <2>6. ASSUME NEW j \in 1..Len(rows') PROVE \E i \in 1..Len(rows) : rows'[j] = rows[i]
    <3>1. j \in 1..(Len(rows) - 1) /\ j \in 1..Len(rows) /\ j + 1 \in 1..Len(rows)
      BY <2>4, <2>5
    <3> QED
      BY <2>5, <3>1
  <2>7. \A j \in 1..Len(rows') : \E i \in 1..Len(rows) :
           /\ rows'[j].id = rows[i].id /\ Content(rows'[j].text) = Content(rows[i].text)
           /\ rows'[j].calc = rows[i].calc /\ rows'[j].of = rows[i].of
    BY <2>6
  <2>8. (\A x : Agrees(rows, x) => Agrees(rows', x)) /\ (AllRight(rows) => AllRight(rows'))
    BY <2>7, AgreesWithSome
  <2> QED
    BY <2>3, <2>8, AlignedRows
<1>7. CASE Move
  <2>1. PICK k \in 1..(Len(rows) - 1) : Changed(Exchanged(rows, Found(k)), Exchanged(Contents(rows), k))
    BY <1>7 DEF Move, Exchanged
  <2>2. rows \in Seq(LineRecord) /\ Len(rows) \in Nat
    BY <1>a DEF Listed
  <2>3. k \in 1..Len(rows)
    BY <2>2
  <2>4. Found(k) = k
    BY <1>a, <2>3, FoundItself
  <2>5. rows' = Exchanged(rows, k) /\ UNCHANGED <<mode, stored, calc, report>>
    BY <2>1, <2>4 DEF Changed
  <2>6. \A j \in 1..Len(rows') : \E i \in 1..Len(rows) : rows'[j] = rows[i]
    BY <2>2, <2>3, <2>5, ExchangedIs
  <2>7. \A j \in 1..Len(rows') : \E i \in 1..Len(rows) :
           /\ rows'[j].id = rows[i].id /\ Content(rows'[j].text) = Content(rows[i].text)
           /\ rows'[j].calc = rows[i].calc /\ rows'[j].of = rows[i].of
    BY <2>6
  <2>8. (\A x : Agrees(rows, x) => Agrees(rows', x)) /\ (AllRight(rows) => AllRight(rows'))
    BY <2>7, AgreesWithSome
  <2> QED
    BY <2>5, <2>8, AlignedRows
<1>8. CASE ToText
  <2>1. rows' = Written(rows) /\ UNCHANGED <<mode, stored, calc, report>>
    BY <1>8 DEF ToText
  <2>2. /\ Len(Written(rows)) = Len(rows) /\ SameIds(Written(rows), rows) /\ SameResults(Written(rows), rows)
        /\ \A k \in 1..Len(rows) : Content(Written(rows)[k].text) = Content(rows[k].text)
    BY <1>a, WrittenIs
  <2>3. \A k \in 1..Len(rows') : \E j \in 1..Len(rows) :
           /\ rows'[k].id = rows[j].id /\ Content(rows'[k].text) = Content(rows[j].text)
           /\ rows'[k].calc = rows[j].calc /\ rows'[k].of = rows[j].of
    BY <2>1, <2>2 DEF SameIds, SameResults
  <2>4. (\A x : Agrees(rows, x) => Agrees(rows', x)) /\ (AllRight(rows) => AllRight(rows'))
    BY <2>3, AgreesWithSome
  <2> QED
    BY <2>1, <2>4, AlignedRows
<1>9. CASE HandleCancel
  <2>1. stored' = Cleared(stored) /\ UNCHANGED <<rows, mode, report>>
    BY <1>9 DEF HandleCancel
  <2>2. ~calc'.running
    BY <1>9 DEF HandleCancel, TypeInv
  <2>3. WithoutResults(stored')
    BY <1>a, <2>1, ClearedWithoutResults
  <2> QED
    BY <1>d, <2>1, <2>2, <2>3 DEF Aligned, WithoutResults
<1>10. CASE ShowText
  BY <1>10, <1>c DEF ShowText, Aligned
<1>11. CASE Save
  BY <1>11 DEF Save, Aligned
<1>12. CASE SendPut
  <2>1. rows' = Sending /\ UNCHANGED <<mode, stored, calc, report>>
    BY <1>12, PutSent
  <2>2. mode = "table" => rows' = rows
    BY <1>c, <2>1 DEF Sending
  <2> QED
    BY <2>1, <2>2 DEF Aligned
<1>13. CASE HandlePut
  <2>1. /\ Len(puts) = 1 /\ 1 \in 1..Len(puts) /\ puts[1].at = "sent"
        /\ stored' = Kept(Unique(Brought(puts[1]), counts.fresh), stored)
        /\ puts' = [puts EXCEPT ![1].at = "stored", ![1].lines = Cleared(Brought(puts[1]))]
        /\ counts' = [counts EXCEPT !.fresh = @ + Cardinality(Repeating(Brought(puts[1])))]
        /\ UNCHANGED <<rows, mode, calc, saves, report>>
    BY <1>13, OnlyPutHandled
  <2>2. /\ SameTexts(stored', Brought(puts[1]))
        /\ Injective(Brought(puts[1])) => SameIds(stored', Brought(puts[1]))
    BY <2>1, PutHandled
  <2> SUFFICES ASSUME mode = "table", NEW j \in 1..Len(stored') PROVE Agrees(rows, stored'[j])
    BY <1>d, <2>1 DEF Aligned
  <2>3. puts # <<>>
    <3>1. Len(puts) = 1
      BY <2>1
    <3> QED
      BY <3>1
  <2>4. saves.ready = 0
    BY <2>3 DEF OneAtATime
  <2>5. CASE rows = <<>>
    BY <1>e, <2>5 DEF Agrees
  <2>6. CASE rows # <<>>
    <3>1. Brought(puts[1]) = rows
      BY <2>1, <2>3, <2>4, <2>6 DEF InTable, Brought
    <3>2. SameTexts(stored', rows) /\ SameIds(stored', rows)
      BY <1>a, <2>2, <3>1
    <3>3. j \in 1..Len(rows) /\ stored'[j].id = rows[j].id /\ stored'[j].text = rows[j].text
      BY <3>2 DEF SameTexts, SameIds
    <3> QED
      BY <1>a, <3>3 DEF Agrees, Injective
  <2> QED
    BY <2>5, <2>6
<1>14. CASE PutDone
  <2>1. /\ Len(puts) = 1 /\ 1 \in 1..Len(puts) /\ puts[1].at = "stored"
        /\ IF ~puts[1].own \/ (mode = "table" /\ puts[1].lines = <<>>) THEN UNCHANGED <<rows, draft, report>>
           ELSE rows' = Answering(puts[1].lines) /\ (report' = report \/ report' = Asking)
        /\ calc' = (IF puts[1].start THEN [calc EXCEPT !.asked = TRUE] ELSE calc)
        /\ UNCHANGED <<mode, stored>>
    BY <1>14, OnlyPutDone
  <2>2. calc'.running = calc.running
    BY <2>1 DEF TypeInv
  <2>3. report' = report \/ report'.lines = <<>>
    BY <2>1 DEF Asking
  <2> SUFFICES ASSUME mode = "table"
               PROVE  (AllRight(rows) => AllRight(rows')) /\ (\A x : Agrees(rows, x) => Agrees(rows', x))
    BY <1>d, <1>e, <2>1, <2>2, <2>3 DEF Aligned
  <2>4. CASE rows' = rows
    BY <2>4
  <2>5. CASE rows' = Answering(puts[1].lines) /\ rows' # rows
    <3>1. Listed(puts[1].lines, counts.fresh)
      BY <2>1 DEF TypeInv
    <3>2. rows' = SyncedIds(rows, puts[1].lines)
      BY <1>c, <2>5, <3>1, AnsweringIs
    <3>3. SameTexts(rows', rows) /\ SameResults(rows', rows) /\ Listed(rows', counts.fresh)
      BY <1>a, <3>1, <3>2, SyncedIs
    <3>4. SameIds(rows', rows)
      <4>1. rows # <<>>
        <5>1. rows = <<>> => rows' = <<>>
          BY <1>a, <3>3, EmptyTogether DEF SameTexts
        <5> QED
          BY <2>5, <5>1
      <4>2. puts # <<>>
        <5>1. Len(puts) = 1
          BY <2>1
        <5> QED
          BY <5>1
      <4>3. saves.ready = 0
        BY <4>2 DEF OneAtATime
      <4>4. puts[1].lines = Cleared(rows)
        BY <2>1, <4>1, <4>2, <4>3 DEF InTable
      <4>5. Injective(rows')
        BY DEF Apart
      <4> QED
        BY <1>a, <3>2, <4>4, <4>5, SyncedKeeps
    <3>5. \A k \in 1..Len(rows') : \E j \in 1..Len(rows) :
             /\ rows'[k].id = rows[j].id /\ Content(rows'[k].text) = Content(rows[j].text)
             /\ rows'[k].calc = rows[j].calc /\ rows'[k].of = rows[j].of
      BY <3>3, <3>4 DEF SameTexts, SameIds, SameResults
    <3> QED
      BY <3>5, AgreesWithSome
  <2> QED
    BY <2>1, <2>4, <2>5
<1>15. CASE HandleStart
  <2>1. calc.asked /\ UNCHANGED <<rows, mode, stored, report>>
    BY <1>15 DEF HandleStart
  <2>2. puts = <<>> /\ saves.ready = 0
    BY <2>1 DEF OneAtATime
  <2> SUFFICES ASSUME mode = "table", NEW j \in 1..Len(stored) PROVE Agrees(rows, stored[j])
    BY <1>d, <2>1 DEF Aligned
  <2>3. CASE rows = <<>>
    BY <1>e, <2>3 DEF Agrees
  <2>4. CASE rows # <<>>
    <3>1. SameContents(stored, rows) /\ SameIds(stored, rows)
      BY <2>2, <2>4 DEF InTable
    <3>2. j \in 1..Len(rows) /\ stored[j].id = rows[j].id /\ Content(stored[j].text) = Content(rows[j].text)
      BY <3>1 DEF SameContents, SameIds
    <3> QED
      BY <1>a, <3>2 DEF Agrees, Injective
  <2> QED
    BY <2>3, <2>4
<1>16. CASE Calculate
  <2>1. PICK k \in 1..Len(stored) : stored' = [stored EXCEPT ![k] = Line(stored[k].id, stored[k].text, Calculated(stored[k].text))]
    BY <1>16 DEF Calculate, Calculated
  <2>2. calc.running /\ UNCHANGED <<rows, mode, calc, report>>
    BY <1>16 DEF Calculate
  <2> DEFINE x == Line(stored[k].id, stored[k].text, Calculated(stored[k].text))
  <2>3. x.id = stored[k].id /\ x.text = stored[k].text /\ stored' = [stored EXCEPT ![k] = x]
    BY <2>1 DEF Line
  <2> HIDE DEF x
  <2>4. stored \in Seq(LineRecord)
    BY <1>a DEF Listed
  <2>5. ASSUME NEW j \in 1..Len(stored') PROVE j \in 1..Len(stored) /\ stored'[j].id = stored[j].id /\ stored'[j].text = stored[j].text
    BY <2>3, <2>4
  <2>6. \A j \in 1..Len(stored') : Agrees(rows, stored[j]) => Agrees(rows, stored'[j])
    BY <2>5 DEF Agrees
  <2> QED
    BY <1>d, <2>2, <2>5, <2>6 DEF Aligned
<1>17. CASE Deliver
  <2>1. PICK some \in SUBSET Done(stored) : rows' = Applied(rows, stored, some)
    BY <1>17 DEF Deliver
  <2>2. mode = "table" /\ UNCHANGED <<mode, stored, calc, report>>
    BY <1>17 DEF Deliver
  <2>3. SameIds(rows', rows) /\ SameContents(rows', rows)
    BY <1>a, <2>1, AppliedIs, SameTextsSay
  <2>4. AllRight(stored) /\ \A j \in 1..Len(stored) : stored[j].calc = "done" => Agrees(rows, stored[j])
    BY <1>d, <2>2 DEF RightResults
  <2>5. AllRight(rows')
    BY <1>a, <1>d, <2>1, <2>2, <2>4, AppliedRight
  <2>6. \A x : Agrees(rows, x) => Agrees(rows', x)
    BY <2>3, AgreesWithSame
  <2> QED
    BY <2>2, <2>5, <2>6, AlignedRows
<1>18. CASE HandleReport
  <2>1. report'.lines = Statuses /\ UNCHANGED <<rows, mode, stored, calc>>
    BY <1>18 DEF HandleReport
  <2>2. ASSUME ~shared, mode = "table", NEW j \in 1..Len(Statuses), Statuses[j].calc = "done"
        PROVE  Agrees(rows, Statuses[j])
    <3>1. j \in 1..Len(stored) /\ Statuses[j].id = stored[j].id /\ Statuses[j].text = stored[j].text
      BY StatusesAre DEF SameTexts, SameIds
    <3>2. stored[j].calc = "done"
      BY <2>2, <3>1, StatusesAre
    <3>3. Agrees(rows, stored[j])
      BY <2>2, <3>1, <3>2 DEF Aligned
    <3> QED
      BY <3>1, <3>3 DEF Agrees
  <2> QED
    BY <1>d, <2>1, <2>2 DEF Aligned
<1>19. CASE ReportDone
  <2>1. rows' = Applied(rows, report.lines, 1..Len(report.lines)) /\ report'.lines = <<>> /\ UNCHANGED <<mode, stored, calc>>
    BY <1>19 DEF ReportDone, NoReport
  <2>2. SameIds(rows', rows) /\ SameContents(rows', rows)
    BY <1>a, <2>1, AppliedIs, SameTextsSay
  <2>3. \A x : Agrees(rows, x) => Agrees(rows', x)
    BY <2>2, AgreesWithSame
  <2>4. ASSUME mode = "table" PROVE AllRight(rows')
    <3>1. AllRight(report.lines)
      BY DEF RightResults
    <3> QED
      BY <1>a, <1>d, <2>1, <2>4, <3>1, AppliedRight
  <2> QED
    BY <1>d, <1>e, <2>1, <2>3, <2>4 DEF Aligned
<1>20. CASE UNCHANGED textVars
  BY <1>20 DEF textVars, Aligned
<1> QED
  BY <1>1, <1>5, <1>6, <1>7, <1>8, <1>9, <1>10, <1>11, <1>12, <1>13, <1>14, <1>15, <1>16,
     <1>17, <1>18, <1>19, <1>20 DEF TextNext
-----------------------------------------------------------------------------
(* When nothing is left to come.                                           *)

\* A status with the id of the row in its place, an id no status before it had, goes to that row.
LEMMA OwnStatus ==
  ASSUME NEW top \in Nat, NEW was, Listed(was.lines, top), Injective(was.lines),
         NEW i \in 1..Len(was.lines), NEW s, Proper(s, top), s.id = was.lines[i].id, s.id \notin was.used,
         s.calc = "done"
  PROVE  /\ Application(was, s).used = was.used \cup {s.id}
         /\ Application(was, s).lines[i].calc = "done"
         /\ \A k \in 1..Len(was.lines) : k # i => Application(was, s).lines[k] = was.lines[k]
<1> DEFINE L == was.lines
           byId == {j \in 1..Len(L) : L[j].id = s.id /\ s.id \notin was.used}
           to == Addressee(L, s, was.used)
           result == [s EXCEPT !.orig = s.calc = "done"]
           x == Line(L[to].id, L[to].text, result)
<1>1. Len(L) \in Nat /\ L \in Seq(LineRecord)
  BY DEF Listed
<1>2. byId = {i}
  BY DEF Injective
<1>3. to = i
  <2>1. byId \in SUBSET (0..Len(L)) /\ byId # {}
    BY <1>1, <1>2
  <2>2. Max(byId) \in byId
    <3> HIDE DEF byId
    <3> QED
      BY <1>1, <2>1, GreatestOf
  <2>3. Max(byId) = i
    BY <1>2, <2>2
  <2>4. to = Max(byId)
    BY <2>1 DEF Addressee
  <2> QED
    BY <2>3, <2>4
<1>4. to # 0
  BY <1>1, <1>3
<1>5. Application(was, s) = [lines |-> [L EXCEPT ![to] = x], used |-> was.used \cup {L[to].id}]
  BY <1>4 DEF Application
<1>6. x.calc = "done"
  <2>1. result.calc = "done"
    BY DEF Proper, LineRecord
  <2> HIDE DEF result
  <2> QED
    BY <2>1 DEF Line
<1> HIDE DEF x, to
<1>7. Application(was, s).lines = [L EXCEPT ![i] = x] /\ Application(was, s).used = was.used \cup {s.id}
  BY <1>3, <1>5
<1> QED
  BY <1>1, <1>6, <1>7

\* The statuses of all lines, under the ids of the rows in their order, reach all rows.
LEMMA AllDone ==
  ASSUME NEW top \in Nat, NEW lines, Listed(lines, top), Injective(lines),
         NEW statuses, Listed(statuses, top), SameIds(statuses, lines),
         \A k \in 1..Len(statuses) : statuses[k].calc = "done"
  PROVE  \A k \in 1..Len(lines) : Applied(lines, statuses, 1..Len(statuses))[k].calc = "done"
<1> DEFINE n == Len(statuses)
           all == 1..n
           A == Applications(lines, statuses, all)
           Good(i) == /\ Listed(A[i].lines, top) /\ SameIds(A[i].lines, lines)
                      /\ A[i].used = {lines[j].id : j \in 1..i}
                      /\ \A k \in 1..i : A[i].lines[k].calc = "done"
<1>1. n \in Nat /\ Len(lines) = n
  BY DEF Listed, SameIds
<1>2. /\ A[0] = [lines |-> lines, used |-> {}]
      /\ \A i \in 1..n : A[i] = Application(A[i - 1], statuses[i])
  <2> HIDE DEF all
  <2>1. /\ A[0] = [lines |-> lines, used |-> {}]
        /\ \A i \in 1..n : A[i] = IF i \in all THEN Application(A[i - 1], statuses[i]) ELSE A[i - 1]
    BY <1>1, ApplicationsAre
  <2> QED
    BY <2>1 DEF all
<1> HIDE DEF A
<1>3. Good(0)
  <2>1. A[0].lines = lines /\ A[0].used = {} /\ 1..0 = {}
    BY <1>2
  <2> QED
    BY <2>1 DEF SameIds
<1>4. ASSUME NEW i \in 1..n, Good(i - 1) PROVE Good(i)
  <2> DEFINE was == A[i - 1]
             s == statuses[i]
             now == Application(was, s)
  <2>1. A[i] = now
    BY <1>2
  <2>2. Proper(s, top) /\ s.calc = "done" /\ s.id = lines[i].id
    BY <1>1, LineOf DEF SameIds
  <2>3. Listed(was.lines, top) /\ SameIds(was.lines, lines)
        /\ was.used = {lines[j].id : j \in 1..(i - 1)} /\ \A k \in 1..(i - 1) : was.lines[k].calc = "done"
    BY <1>4
  <2> HIDE DEF was, s
  <2>4. Injective(was.lines) /\ Len(was.lines) = n /\ s.id = was.lines[i].id
    BY <1>1, <2>2, <2>3 DEF Injective, SameIds
  <2>5. s.id \notin was.used
    <3>1. ASSUME NEW j \in 1..(i - 1) PROVE lines[j].id # lines[i].id
      <4>1. j \in 1..n /\ j # i
        BY <1>1
      <4> QED
        BY <1>1, <4>1 DEF Injective
    <3> QED
      BY <2>2, <2>3, <3>1
  <2>6. /\ now.used = was.used \cup {s.id} /\ now.lines[i].calc = "done"
        /\ \A k \in 1..Len(was.lines) : k # i => now.lines[k] = was.lines[k]
    BY <2>2, <2>3, <2>4, <2>5, OwnStatus
  <2>7. Listed(now.lines, top) /\ SameIds(now.lines, was.lines)
    BY <2>2, <2>3, ApplicationIs
  <2> HIDE DEF now
  <2>8. SameIds(now.lines, lines)
    BY <2>3, <2>7, SameInTurn
  <2>9. now.used = {lines[j].id : j \in 1..i}
    <3>1. 1..i = (1..(i - 1)) \cup {i}
      BY <1>1
    <3> QED
      BY <2>2, <2>3, <2>6, <3>1
  <2>10. \A k \in 1..i : now.lines[k].calc = "done"
    <3> TAKE k \in 1..i
    <3>1. CASE k = i
      BY <2>6, <3>1
    <3>2. CASE k # i
      <4>1. k \in 1..(i - 1) /\ k \in 1..Len(was.lines)
        BY <1>1, <2>4, <3>2
      <4> QED
        BY <2>3, <2>6, <3>2, <4>1
    <3> QED
      BY <3>1, <3>2
  <2> QED
    BY <2>1, <2>7, <2>8, <2>9, <2>10
<1>5. Good(n)
  <2> HIDE DEF Good
  <2> SUFFICES ASSUME ~Good(n) PROVE FALSE
    OBVIOUS
  <2> DEFINE T == {i \in 0..n : ~Good(i)}
             m == Min(T)
  <2>1. T \in SUBSET Nat /\ n \in T
    BY <1>1
  <2> HIDE DEF T
  <2>2. m \in T /\ \A y \in T : m <= y
    BY <2>1, LeastOf
  <2> HIDE DEF m
  <2>3. m \in 0..n /\ ~Good(m)
    BY <2>2 DEF T
  <2>4. m \in 1..n /\ m - 1 \in 0..n /\ ~(m <= m - 1)
    BY <1>1, <1>3, <2>3
  <2>5. Good(m - 1)
    <3>1. ~(m - 1 \in T)
      BY <2>2, <2>4
    <3> QED
      BY <2>4, <3>1 DEF T
  <2> QED
    BY <1>4, <2>3, <2>4, <2>5
<1>6. Applied(lines, statuses, 1..n) = A[n].lines
  BY DEF Applied, A
<1> QED
  BY <1>1, <1>5, <1>6

DistinctInv == CalmInv /\ RightResults /\ Intended /\ Aligned

LEMMA DistinctInvInit == Uncounted /\ TextInit => DistinctInv
BY CalmInvInit, RightResultsInit, IntendedInit, AlignedInit DEF DistinctInv

LEMMA DistinctInvNext == Calm /\ DistinctInv /\ [TextNext]_textVars => DistinctInv'
<1> SUFFICES ASSUME Calm, DistinctInv, [TextNext]_textVars PROVE DistinctInv'
  OBVIOUS
<1>1. CalmInv' /\ (shared => shared')
  BY CalmInvNext DEF DistinctInv
<1>2. TypeInv /\ OneAtATime /\ NoResults /\ Apart /\ InTable /\ RightResults /\ Intended /\ Aligned
  BY DEF DistinctInv, CalmInv
<1>3. TypeInv' /\ OneAtATime' /\ Apart'
  BY <1>1 DEF CalmInv
<1>4. RightResults'
  BY <1>2, RightResultsNext
<1>5. Intended'
  BY <1>1, <1>2, <1>3, IntendedNext
<1>6. Aligned'
  BY <1>1, <1>2, <1>3, AlignedNext
<1> QED
  BY <1>1, <1>4, <1>5, <1>6 DEF DistinctInv

LEMMA DistinctInvSays == DistinctInv => DistinctRowsAreRight
<1> SUFFICES ASSUME DistinctInv, ~shared PROVE DistinctRowsAreRight
  BY DEF DistinctRowsAreRight
<1>1. counts.fresh \in Nat /\ Listed(rows, counts.fresh) /\ Listed(stored, counts.fresh) /\ Injective(rows)
  BY TopIs DEF DistinctInv, CalmInv, TypeInv, Apart
<1>2. ASSUME mode = "table", NEW k \in 1..Len(rows) PROVE rows[k].of \in {None, Content(rows[k].text)}
  <2>1. Right(rows[k])
    BY <1>2 DEF DistinctInv, Aligned, AllRight
  <2>2. rows[k].of # None <=> rows[k].calc = "done"
    BY <1>1, LineOf
  <2> QED
    BY <2>1, <2>2 DEF Right
<1>3. ASSUME Settled
      PROVE  /\ Contents(rows) = typed
             /\ \A k \in 1..Len(rows) : rows[k].id = stored[k].id /\ rows[k].calc = "done"
  <2>1. /\ AtRest /\ mode = "table" /\ rows # <<>> /\ Applied(rows, stored, 1..Len(stored)) = rows
        /\ \A k \in 1..Len(stored) : stored[k].calc = "done"
    BY <1>3 DEF Settled
  <2>2. SameIds(stored, rows)
    BY <2>1 DEF AtRest, DistinctInv, CalmInv, InTable
  <2>3. \A k \in 1..Len(rows) : Applied(rows, stored, 1..Len(stored))[k].calc = "done"
    BY <1>1, <2>1, <2>2, AllDone
  <2>4. Contents(rows) = typed
    BY <2>1 DEF DistinctInv, Intended
  <2> QED
    BY <2>1, <2>2, <2>3, <2>4 DEF SameIds
<1> QED
  BY <1>2, <1>3 DEF DistinctRowsAreRight

\* Of a user who waits for the answers, in an estimate opened without results: as long as no two
\* rows have had one id, a table that is settled has the lines the user left, each under the id it
\* is stored with and each done, and no row of a table ever shows the result of another line.
THEOREM DistinctRows ==
  ASSUME "hurry" \notin Cases, "results" \notin Cases
  PROVE  TextSpec => []DistinctRowsAreRight
<1>1. Calm /\ Uncounted
  BY DEF Calm, Uncounted
<1>2. TextInit => DistinctInv
  BY <1>1, DistinctInvInit
<1>3. DistinctInv /\ [TextNext]_textVars => DistinctInv'
  BY <1>1, DistinctInvNext
<1>4. DistinctInv => DistinctRowsAreRight
  BY DistinctInvSays
<1> QED
  BY <1>2, <1>3, <1>4, PTL DEF TextSpec
=============================================================================
